---------------------- MODULE CampaignBulkDeliveryProofs ----------------------
(***************************************************************************)
(* Proofs about CampaignBulkDelivery: the audience, the schedules, the     *)
(* authority and what "sent" says hold whatever happens; that the provider *)
(* takes a campaign over once, the refinement of CampaignSendOnce, holds   *)
(* while no executor overtakes another's reading and no lease is lost      *)
(* during a request.                                                       *)
(***************************************************************************)
EXTENDS CampaignBulkDelivery, FiniteSetTheorems, TLAPS

-----------------------------------------------------------------------------
\* The invariant of every instance

Attempting == uncertain \cup {"sent", "failed"}

\* The row by itself: an operation that was never opened has nothing, a proof
\* comes with the committed artifact of its audience, and nothing was attempted
\* without a proof.
RowInv ==
    /\ op.state = "none" => ~op.proof /\ op.schedule = None /\ op.lease = None
    /\ op.commit \in {{}, op.snapshot}
    /\ op.proof => op.commit = op.snapshot /\ op.snapshot # {}
    /\ op.state \in Attempting => op.proof

\* An operation in preparation has its authority, and so has an active schedule,
\* of which there is one.
AuthorityInv ==
    /\ op.state = "preparing" => Authorized(op.revision)
    /\ \A s \in Schedules : schedule[s].state = "active" => Authorized(schedule[s].revision)
    /\ \A s, z \in Schedules :
          schedule[s].state = "active" /\ schedule[z].state = "active" => s = z

\* What an executor past its claim may rely on: an audience it saved under the
\* lease it still has is that of the row, and what it is about to send for is
\* the audience under the proof.
ExecutorOK(e) ==
    /\ exec[e].pc \in {"snapshot", "artifact"} => exec[e].audience # {}
    /\ exec[e].pc = "artifact" /\ op.lease = e => exec[e].audience = op.snapshot
    /\ exec[e].pc = "send" => op.proof /\ exec[e].audience = op.snapshot
    /\ exec[e].facts \subseteq fact
    /\ exec[e].owed # None => exec[e].pc \in {"idle", "facts"}

ExecutorsInv == \A e \in Executors : ExecutorOK(e)

\* A request was made under the proof and for its audience; what is known of a
\* message is of one the provider took over.
ProviderInv ==
    /\ \A n \in Posts : post[n].state # "unused" => op.proof /\ post[n].to = op.snapshot
    /\ \A f \in fact : post[f[1]].state \in {"accepted", "reported"}
    /\ \A v \in event : v[2] \in fact

BulkInv ==
    /\ BulkTypeOK /\ RowInv /\ AuthorityInv /\ ExecutorsInv /\ ProviderInv
    /\ SchedulesFollowSend /\ SentWasReached

-----------------------------------------------------------------------------
\* The invariant of a delivery nobody overtakes

\* The requests that are, or may yet be, taken over.
Outstanding == {n \in Posts : post[n].state \in {"wire", "accepted", "reported"}}

Sending == {e \in Executors : exec[e].pc = "send"}

\* Who sends holds the live lease, and nothing is outstanding.
SenderOK(e) ==
    exec[e].pc = "send" =>
        op.lease = e /\ op.live /\ op.state = "attempting" /\ Outstanding = {}

\* Whoever still holds the lease while waiting for an answer will report a
\* refusal only of a request that is gone.
AnswerOK(e) ==
    exec[e].pc = "answer" /\ op.lease = e =>
        /\ op.live /\ op.state = "attempting"
        /\ exec[e].answer \in {"accepted", "ambiguous"} \/ Outstanding = {}

\* A copy nobody has overtaken is that of the row, and one that has reached the
\* claim has found nothing outstanding and nobody sending; a report is of a
\* request the provider took over.
CopyOK(e) ==
    /\ exec[e].pc = "reconcile" => exec[e].state \in uncertain \cup {"sent"}
    /\ exec[e].pc = "reconcile" /\ exec[e].fresh =>
          exec[e].state = op.state /\ exec[e].lagged = op.lagged
    /\ exec[e].pc = "verify" => exec[e].post \in Reported
    /\ exec[e].pc = "claim" /\ exec[e].fresh => Outstanding = {} /\ Sending = {}

\* From the claim to the attempt nothing is outstanding.
HolderOK(e) ==
    exec[e].pc \in {"audience", "snapshot", "artifact", "begin"} /\ op.lease = e
        => Outstanding = {}

OnceInv ==
    /\ \A m, n \in Outstanding : m = n
    /\ op.state \in {"none", "preparing", "failed", "blocked"} => Outstanding = {}
    /\ op.lagged => ~op.live /\ Outstanding \subseteq Reported
    /\ \A e \in Executors : SenderOK(e) /\ AnswerOK(e) /\ CopyOK(e) /\ HolderOK(e)

-----------------------------------------------------------------------------
(* Types *)

ScheduleRow == [state : {"none", "active", "claimed", "completed",
                         "cancelled", "blocked", "missed"},
                revision : 0..MaxRevision, time : {"future", "due", "late"}]
Request == [state : {"unused", "wire", "accepted", "reported", "gone"},
            to : SUBSET Recipients]

OwnerOK ==
    /\ revision \in Revisions
    /\ owner \in BOOLEAN
    /\ authorization \in [Revisions -> {"none", "active", "consumed", "invalidated"}]
    /\ schedule \in [Schedules -> ScheduleRow]
RowOK == op \in Operation
ExecOK == exec \in [Executors -> Executor]
LedgerOK == active \subseteq Recipients /\ event \subseteq ({"webhook", "poll"} \X Facts)
RequestsOK == post \in [Posts -> Request] /\ fact \subseteq Facts

BulkTypes == OwnerOK /\ RowOK /\ ExecOK /\ LedgerOK /\ RequestsOK

\* The type invariant by its parts, before and after a step.
LEMMA BulkTypesAre == BulkTypeOK <=> BulkTypes
  BY Zenon DEF BulkTypeOK, BulkTypes, OwnerOK, RowOK, ExecOK, LedgerOK, RequestsOK,
               ScheduleRow, Request

LEMMA BulkTypesWillBe == BulkTypeOK' <=> BulkTypes'
  BY Zenon DEF BulkTypeOK, BulkTypes, OwnerOK, RowOK, ExecOK, LedgerOK, RequestsOK,
               ScheduleRow, Request

\* The fields of an operation, and rows made of one.
LEMMA RowFields ==
    ASSUME RowOK
    PROVE  /\ op.state \in OpStates /\ op.revision \in 0..MaxRevision
           /\ op.schedule \in Schedules \cup {None}
           /\ op.lease \in Executors \cup {None, Gone} /\ op.live \in BOOLEAN
           /\ op.snapshot \in SUBSET Recipients /\ op.commit \in SUBSET Recipients
           /\ op.proof \in BOOLEAN /\ op.verified \in 0..MaxPosts /\ op.lagged \in BOOLEAN
  BY DEF RowOK, Operation

LEMMA TouchedRow ==
    ASSUME NEW o \in Operation
    PROVE  /\ Touched(o) \in Operation /\ ~Touched(o).lagged
           /\ Touched(o).state = o.state /\ Touched(o).revision = o.revision
           /\ Touched(o).schedule = o.schedule /\ Touched(o).lease = o.lease
           /\ Touched(o).live = o.live /\ Touched(o).snapshot = o.snapshot
           /\ Touched(o).commit = o.commit /\ Touched(o).proof = o.proof
           /\ Touched(o).verified = o.verified
  BY DEF Touched, Operation

\* The fields of an executor, and those of one that is idle.
LEMMA ExecutorFields ==
    ASSUME ExecOK, NEW e \in Executors
    PROVE  /\ exec[e] \in Executor
           /\ exec[e].state \in OpStates /\ exec[e].verified \in 0..MaxPosts
           /\ exec[e].lagged \in BOOLEAN /\ exec[e].audience \in SUBSET Recipients
           /\ exec[e].held \in BOOLEAN /\ exec[e].facts \in SUBSET Facts
           /\ exec[e].owed \in Recipients \cup {None} /\ exec[e].post \in 0..MaxPosts
           /\ exec[e].answer \in {"none", "accepted", "ambiguous", "rejected"}
           /\ exec[e].fresh \in BOOLEAN
  BY DEF ExecOK, Executor

LEMMA IdleFields ==
    /\ IdleExecutor \in Executor
    /\ IdleExecutor.pc = "idle" /\ IdleExecutor.audience = {} /\ IdleExecutor.facts = {}
    /\ ~IdleExecutor.fresh /\ IdleExecutor.answer = "none" /\ IdleExecutor.state = "none"
    /\ IdleExecutor.held = FALSE /\ IdleExecutor.owed = None
<1>1. 0 \in 0..MaxPosts
  BY BulkAssumption
<1> QED BY <1>1 DEF IdleExecutor, Executor, OpStates

\* What is written of one executor, with or without the others' copies stale.
LEMMA OneExecutorType ==
    ASSUME ExecOK, NEW e \in Executors, NEW x \in Executor
    PROVE  /\ [exec EXCEPT ![e] = x] \in [Executors -> Executor]
           /\ OthersStale(e, x) \in [Executors -> Executor]
<1>1. \A f \in Executors : [exec[f] EXCEPT !.fresh = FALSE] \in Executor
  BY DEF ExecOK, Executor
<1> QED BY <1>1 DEF ExecOK, OthersStale

-----------------------------------------------------------------------------
(* What a step of one executor leaves of the row and of the others *)

\* It leaves the row, perhaps without the lease of its own ending execution.
RowLeft(e) ==
    /\ exec' \in [Executors -> Executor]
    /\ \A f \in Executors \ {e} : exec'[f] = exec[f]
    /\ op' \in {op, LeaseAfter(e)}

\* Or it writes the row, and then nobody else has the lease or a fresh copy.
RowTaken(e) ==
    /\ exec' \in [Executors -> Executor] /\ op' \in Operation
    /\ \A f \in Executors \ {e} : exec'[f] = [exec[f] EXCEPT !.fresh = FALSE]
    /\ op'.lease \in {e, None} /\ ~op'.lagged
    /\ op'.revision = op.revision /\ op'.schedule = op.schedule
    /\ op.proof => op'.proof /\ op'.snapshot = op.snapshot
    /\ op.state # "none" /\ op'.state # "none"

\* Another keeps what it holds but its copy's freshness.
Kept(f) ==
    /\ exec'[f].pc = exec[f].pc /\ exec'[f].state = exec[f].state
    /\ exec'[f].lagged = exec[f].lagged /\ exec'[f].audience = exec[f].audience
    /\ exec'[f].facts = exec[f].facts /\ exec'[f].answer = exec[f].answer
    /\ exec'[f].owed = exec[f].owed /\ exec'[f].post = exec[f].post
    /\ exec'[f].fresh => exec[f].fresh

LEMMA OthersKeep ==
    ASSUME BulkTypes, NEW e \in Executors, RowLeft(e) \/ RowTaken(e),
           NEW f \in Executors \ {e}
    PROVE  Kept(f)
<1>1. exec[f] \in Executor
  BY DEF BulkTypes, ExecOK
<1>2. CASE exec'[f] = exec[f]
  BY <1>2 DEF Kept
<1>3. CASE exec'[f] = [exec[f] EXCEPT !.fresh = FALSE]
  BY <1>1, <1>3 DEF Kept, Executor
<1> QED BY <1>2, <1>3 DEF RowLeft, RowTaken

\* The row an ending execution leaves differs in the lease only.
LEMMA LeftRow ==
    ASSUME BulkTypes, NEW e \in Executors, op' \in {op, LeaseAfter(e)}
    PROVE  /\ op' \in Operation
           /\ op'.state = op.state /\ op'.revision = op.revision
           /\ op'.schedule = op.schedule /\ op'.live = op.live
           /\ op'.snapshot = op.snapshot /\ op'.commit = op.commit
           /\ op'.proof = op.proof /\ op'.verified = op.verified
           /\ op'.lagged = op.lagged
           /\ op'.lease = IF op' = op THEN op.lease ELSE Gone
           /\ op' # op => op.lease = e
<1>1. op \in Operation
  BY DEF BulkTypes, RowOK
<1>2. CASE op' = op
  BY <1>1, <1>2 DEF Operation
<1>3. CASE op' = [op EXCEPT !.lease = Gone] /\ op.lease = e
  BY <1>1, <1>3, BulkAssumption DEF Operation
<1> QED BY <1>2, <1>3 DEF LeaseAfter

\* The others rely on the row as before.
LEMMA ExecutorsStay ==
    ASSUME BulkTypes, ExecutorsInv, NEW e \in Executors, RowLeft(e) \/ RowTaken(e),
           UNCHANGED fact, ExecutorOK(e)'
    PROVE  ExecutorsInv'
<1>1. ASSUME NEW f \in Executors \ {e} PROVE ExecutorOK(f)'
  <2>1. Kept(f) /\ ExecutorOK(f)
    BY OthersKeep DEF ExecutorsInv
  <2>2. op.proof => op'.proof /\ op'.snapshot = op.snapshot
    BY LeftRow DEF RowLeft, RowTaken
  <2>3. op'.lease = f => op.lease = f /\ op'.snapshot = op.snapshot
    <3>1. CASE RowLeft(e)
      BY <3>1, LeftRow, BulkAssumption DEF RowLeft
    <3>2. CASE RowTaken(e)
      BY <3>2, BulkAssumption DEF RowTaken
    <3> QED BY <3>1, <3>2
  <2> QED BY <2>1, <2>2, <2>3 DEF ExecutorOK, Kept
<1> QED BY <1>1 DEF ExecutorsInv

\* What is known of requests and messages stays, while the row keeps its proof.
LEMMA ProviderStays ==
    ASSUME ProviderInv, op.proof => op'.proof /\ op'.snapshot = op.snapshot,
           UNCHANGED <<post, fact>>, \A v \in event' : v[2] \in fact
    PROVE  ProviderInv'
  BY DEF ProviderInv

\* Evidence stays, and so does what it says of a sent campaign.
LEMMA SentStays ==
    ASSUME SentWasReached, UNCHANGED post, event \subseteq event',
           op'.state = "sent" => op.state = "sent" /\ op'.snapshot = op.snapshot
    PROVE  SentWasReached'
<1>1. \A n \in Posts : Attempted(n) \subseteq Attempted(n)'
  BY DEF Attempted
<1>2. Taken' = Taken
  BY DEF Taken
<1>3. Taken \subseteq Posts
  BY DEF Taken
<1> SUFFICES ASSUME op'.state = "sent"
             PROVE  \E n \in Taken' : post'[n].to = op'.snapshot
                                      /\ op'.snapshot \subseteq Attempted(n)'
  BY DEF SentWasReached
<1>4. PICK n \in Taken : post[n].to = op.snapshot /\ op.snapshot \subseteq Attempted(n)
  BY DEF SentWasReached
<1> QED BY <1>1, <1>2, <1>3, <1>4

LEMMA BulkInvParts ==
    ASSUME BulkInv
    PROVE  /\ BulkTypes /\ RowOK /\ ExecOK /\ OwnerOK /\ LedgerOK /\ RequestsOK
           /\ RowInv /\ AuthorityInv /\ ExecutorsInv /\ ProviderInv
           /\ SchedulesFollowSend /\ SentWasReached
  BY BulkTypesAre DEF BulkInv, BulkTypes

LEMMA BulkInvWillBe ==
    ASSUME BulkTypes', RowInv', AuthorityInv', ExecutorsInv', ProviderInv',
           SchedulesFollowSend', SentWasReached'
    PROVE  BulkInv'
  BY BulkTypesWillBe DEF BulkInv

\* What an executor's step leaves alone, but for what it records.
Elsewhere ==
    /\ UNCHANGED <<revision, owner, authorization, schedule, post, fact>>
    /\ active' \subseteq Recipients
    /\ event \subseteq event' /\ event' \subseteq ({"webhook", "poll"} \X Facts)
    /\ \A v \in event' : v[2] \in fact

LEMMA TypesOfStep ==
    ASSUME BulkTypes, Elsewhere, op' \in Operation, exec' \in [Executors -> Executor]
    PROVE  BulkTypes'
  BY DEF BulkTypes, Elsewhere, OwnerOK, RowOK, ExecOK, LedgerOK, RequestsOK

\* A step that leaves the row keeps the invariant with what it leaves its
\* executor.
LEMMA LeavingKeeps ==
    ASSUME BulkInv, NEW e \in Executors, RowLeft(e), Elsewhere, ExecutorOK(e)'
    PROVE  BulkInv'
<1> USE BulkInvParts
<1>1. /\ op' \in Operation
      /\ op'.state = op.state /\ op'.revision = op.revision
      /\ op'.schedule = op.schedule
      /\ op'.snapshot = op.snapshot /\ op'.commit = op.commit
      /\ op'.proof = op.proof
      /\ op'.lease = IF op' = op THEN op.lease ELSE Gone
      /\ op' # op => op.lease = e
  BY LeftRow DEF RowLeft
<1>2. BulkTypes'
  BY <1>1, TypesOfStep DEF RowLeft
<1>3. RowInv'
  BY <1>1, BulkAssumption DEF RowInv
<1>4. AuthorityInv'
  BY <1>1 DEF AuthorityInv, Authorized, Elsewhere
<1>5. ExecutorsInv'
  BY ExecutorsStay DEF Elsewhere
<1>6. ProviderInv'
  BY <1>1, ProviderStays DEF Elsewhere
<1>7. SchedulesFollowSend'
  BY <1>1 DEF SchedulesFollowSend, Elsewhere
<1>8. SentWasReached'
  BY <1>1, SentStays DEF Elsewhere
<1> QED BY <1>2, <1>3, <1>4, <1>5, <1>6, <1>7, <1>8, BulkInvWillBe

\* A step that writes the row keeps it if the row is sound, is in preparation
\* under the authority, and is not called sent by this step.
LEMMA TakingKeeps ==
    ASSUME BulkInv, NEW e \in Executors, RowTaken(e), Elsewhere, ExecutorOK(e)',
           RowInv', op'.state = "sent" => op.state = "sent",
           op'.state = "preparing" => Authorized(op.revision)
    PROVE  BulkInv'
<1> USE BulkInvParts
<1>2. BulkTypes'
  BY TypesOfStep DEF RowTaken
<1>4. AuthorityInv'
  BY DEF AuthorityInv, Authorized, Elsewhere, RowTaken
<1>5. ExecutorsInv'
  BY ExecutorsStay DEF Elsewhere
<1>6. ProviderInv'
  BY ProviderStays DEF Elsewhere, RowTaken
<1>7. SchedulesFollowSend'
  BY DEF SchedulesFollowSend, Elsewhere, RowTaken
<1>8. SentWasReached'
  <2>1. op.state = "sent" => op.proof
    BY DEF RowInv, Attempting
  <2> QED BY <2>1, SentStays DEF Elsewhere, RowTaken
<1> QED BY <1>2, <1>4, <1>5, <1>6, <1>7, <1>8, BulkInvWillBe

-----------------------------------------------------------------------------
(* The same for the invariant of a delivery nobody overtakes *)

LEMMA OutstandingStays ==
    ASSUME UNCHANGED post
    PROVE  Outstanding' = Outstanding /\ Reported' = Reported /\ Taken' = Taken
  BY DEF Outstanding, Reported, Taken

SteadyOK(e) == SenderOK(e) /\ AnswerOK(e) /\ CopyOK(e) /\ HolderOK(e)

LEMMA OnceInvWillBe ==
    ASSUME \A m, n \in Outstanding' : m = n,
           op'.state \in {"none", "preparing", "failed", "blocked"} => Outstanding' = {},
           op'.lagged => ~op'.live /\ Outstanding' \subseteq Reported',
           \A e \in Executors : SteadyOK(e)'
    PROVE  OnceInv'
  BY DEF OnceInv, SteadyOK

\* While the row is left, and its executor does not begin to send, the others go on.
LEMMA LeavingKeepsOnce ==
    ASSUME BulkInv, OnceInv, NEW e \in Executors, RowLeft(e), UNCHANGED post,
           exec'[e].pc # "send", SteadyOK(e)'
    PROVE  OnceInv'
<1> USE BulkInvParts, OutstandingStays
<1>1. /\ op'.state = op.state /\ op'.live = op.live /\ op'.lagged = op.lagged
      /\ op'.lease = IF op' = op THEN op.lease ELSE Gone
      /\ op' # op => op.lease = e
  BY LeftRow DEF RowLeft
<1>2. Sending' \subseteq Sending
  BY DEF Sending, RowLeft
<1>3. ASSUME NEW f \in Executors \ {e} PROVE SteadyOK(f)'
  <2>1. exec'[f] = exec[f]
    BY DEF RowLeft
  <2>2. SenderOK(f) /\ AnswerOK(f) /\ CopyOK(f) /\ HolderOK(f)
    BY DEF OnceInv
  <2>3. op'.lease = f <=> op.lease = f
    BY <1>1, BulkAssumption
  <2>4. SenderOK(f)' /\ AnswerOK(f)' /\ HolderOK(f)'
    BY <1>1, <2>1, <2>2, <2>3 DEF SenderOK, AnswerOK, HolderOK
  <2>5. CopyOK(f)'
    BY <1>1, <1>2, <2>1, <2>2 DEF CopyOK
  <2> QED BY <2>4, <2>5 DEF SteadyOK
<1>4. \A f \in Executors : SteadyOK(f)'
  BY <1>3
<1> QED BY <1>1, <1>4, OnceInvWillBe DEF OnceInv

\* The row may be written by the holder of its lease, when nobody has a live
\* one, or when something is outstanding: nobody else is sending then.
MayWrite(e) == op.lease \in {e, None} \/ ~op.live \/ Outstanding # {}

LEMMA NobodyElseSends ==
    ASSUME BulkInv, OnceInv, NEW e \in Executors, MayWrite(e), NEW f \in Executors \ {e}
    PROVE  exec[f].pc # "send"
  BY BulkAssumption DEF OnceInv, SenderOK, MayWrite

LEMMA TakingKeepsOnce ==
    ASSUME BulkInv, OnceInv, NEW e \in Executors, RowTaken(e), UNCHANGED post,
           MayWrite(e), SteadyOK(e)',
           op'.state \in {"none", "preparing", "failed", "blocked"} => Outstanding = {}
    PROVE  OnceInv'
<1> USE BulkInvParts, OutstandingStays
<1>1. ASSUME NEW f \in Executors \ {e} PROVE SteadyOK(f)'
  <2>1. Kept(f) /\ exec[f].pc # "send"
    BY OthersKeep, NobodyElseSends
  <2>2. op'.lease # f
    BY BulkAssumption DEF RowTaken
  <2>3. ~exec'[f].fresh
    BY DEF RowTaken, ExecOK, Executor
  <2>4. CopyOK(f)
    BY DEF OnceInv
  <2>5. CopyOK(f)'
    BY <2>1, <2>3, <2>4 DEF Kept, CopyOK
  <2> QED BY <2>1, <2>2, <2>5 DEF SteadyOK, SenderOK, AnswerOK, HolderOK, Kept
<1>2. \A f \in Executors : SteadyOK(f)'
  BY <1>1
<1> QED BY <1>2, OnceInvWillBe DEF OnceInv, RowTaken

-----------------------------------------------------------------------------
(* The steps of an executor *)

\* Nobody overtakes another's reading, and no lease is lost during a request.
Orderly == "overtake" \notin Events /\ "slow" \notin Events

Keeps == BulkInv' /\ (Orderly /\ OnceInv => OnceInv')

\* Where an executor neither prepares an attempt nor makes one.
Aside == {"idle", "facts", "confirm", "release"}

LEMMA AsideIsSteady ==
    ASSUME NEW e \in Executors, exec'[e].pc \in Aside, exec'[e].facts \subseteq fact',
           exec'[e].owed # None => exec'[e].pc \in {"idle", "facts"}
    PROVE  ExecutorOK(e)' /\ SteadyOK(e)' /\ exec'[e].pc # "send"
  BY DEF Aside, ExecutorOK, SteadyOK, SenderOK, AnswerOK, CopyOK, HolderOK

LEMMA LeavingAsideKeeps ==
    ASSUME BulkInv, NEW e \in Executors, RowLeft(e), Elsewhere,
           exec'[e].pc \in Aside, exec'[e].facts \subseteq fact,
           exec'[e].owed # None => exec'[e].pc \in {"idle", "facts"}
    PROVE  Keeps
<1>1. ExecutorOK(e)' /\ SteadyOK(e)' /\ exec'[e].pc # "send" /\ UNCHANGED post
  BY AsideIsSteady DEF Elsewhere
<1> QED BY <1>1, LeavingKeeps, LeavingKeepsOnce DEF Keeps

LEMMA TakingAsideKeeps ==
    ASSUME BulkInv, NEW e \in Executors, RowTaken(e), Elsewhere,
           exec'[e].pc \in Aside, exec'[e].facts \subseteq fact,
           exec'[e].owed # None => exec'[e].pc \in {"idle", "facts"},
           RowInv', op'.state = "sent" => op.state = "sent",
           op'.state = "preparing" => Authorized(op.revision),
           Orderly /\ OnceInv => MayWrite(e),
           Orderly /\ OnceInv /\ op'.state \in {"preparing", "failed", "blocked"}
               => Outstanding = {}
    PROVE  Keeps
<1>1. ExecutorOK(e)' /\ SteadyOK(e)' /\ UNCHANGED post
  BY AsideIsSteady DEF Elsewhere
<1>2. BulkInv'
  BY <1>1, TakingKeeps
<1>3. ASSUME Orderly, OnceInv PROVE OnceInv'
  BY <1>1, <1>3, TakingKeepsOnce DEF RowTaken
<1> QED BY <1>2, <1>3 DEF Keeps

LEMMA OneLeaves ==
    ASSUME BulkInv, NEW e \in Executors, NEW x \in Executor,
           exec' = [exec EXCEPT ![e] = x], op' \in {op, LeaseAfter(e)}
    PROVE  RowLeft(e) /\ exec'[e] = x
  BY BulkInvParts, OneExecutorType DEF RowLeft, ExecOK

LEMMA OneTakes ==
    ASSUME BulkInv, NEW e \in Executors, NEW x \in Executor, exec' = OthersStale(e, x),
           NEW o \in Operation, op' = Touched(o), o.lease \in {e, None},
           o.revision = op.revision, o.schedule = op.schedule,
           op.proof => o.proof /\ o.snapshot = op.snapshot,
           op.state # "none", o.state # "none"
    PROVE  RowTaken(e) /\ exec'[e] = x
<1>1. exec' \in [Executors -> Executor] /\ op' \in Operation
  BY BulkInvParts, OneExecutorType, TouchedRow
<1>2. exec'[e] = x /\ \A f \in Executors \ {e} : exec'[f] = [exec[f] EXCEPT !.fresh = FALSE]
  BY DEF OthersStale
<1> QED BY <1>1, <1>2, TouchedRow DEF RowTaken

LEMMA NothingRecorded ==
    ASSUME BulkInv, UNCHANGED <<revision, owner, authorization, schedule, active, event, post, fact>>
    PROVE  Elsewhere
  BY BulkInvParts DEF Elsewhere, LedgerOK, ProviderInv

\* An execution that ends without writing the row.
LEMMA FinishKeeps ==
    ASSUME BulkInv, NEW e \in Executors, Finish(e), Elsewhere
    PROVE  Keeps
<1>1. RowLeft(e) /\ exec'[e] = IdleExecutor
  BY OneLeaves, IdleFields DEF Finish
<1> QED BY <1>1, IdleFields, LeavingAsideKeeps DEF Aside

\* An execution that fails before the provider.
LEMMA ThrowKeeps ==
    ASSUME BulkInv, NEW e \in Executors, Throw(e),
           UNCHANGED <<revision, owner, authorization, schedule, active, event, post, fact>>
    PROVE  Keeps
<1>1. [IdleExecutor EXCEPT !.pc = "release"] \in Executor
      /\ [IdleExecutor EXCEPT !.pc = "release"].pc = "release"
      /\ [IdleExecutor EXCEPT !.pc = "release"].facts = {}
      /\ [IdleExecutor EXCEPT !.pc = "release"].owed = None
  BY IdleFields DEF Executor
<1>2. RowLeft(e) /\ exec'[e] = [IdleExecutor EXCEPT !.pc = "release"]
  BY <1>1, OneLeaves DEF Throw
<1> QED BY <1>1, <1>2, NothingRecorded, LeavingAsideKeeps DEF Aside

LEMMA RefusedKeeps ==
    ASSUME BulkInv, NEW e \in Executors, ClaimRefused(e) \/ Crash(e)
    PROVE  Keeps
  BY FinishKeeps, NothingRecorded DEF ClaimRefused, Crash

LEMMA ReleaseKeeps ==
    ASSUME BulkInv, NEW e \in Executors, releaseLease(e)
    PROVE  Keeps
<1> USE BulkInvParts
<1>1. CASE op.lease = e /\ ~op.proof
  <2> DEFINE o == [op EXCEPT !.lease = None, !.live = FALSE]
  <2>1. /\ op' = Touched(o) /\ exec' = OthersStale(e, IdleExecutor)
        /\ UNCHANGED <<revision, owner, authorization, schedule, active, event, post, fact>>
    BY <1>1 DEF releaseLease
  <2>2. /\ o \in Operation /\ o.lease = None /\ o.revision = op.revision
        /\ o.schedule = op.schedule /\ o.proof = op.proof /\ o.snapshot = op.snapshot
        /\ o.state = op.state /\ o.commit = op.commit
    BY DEF RowOK, Operation
  <2>3. op.state # "none"
    BY <1>1, BulkAssumption DEF RowInv
  <2>4. RowTaken(e) /\ exec'[e] = IdleExecutor
    BY <2>1, <2>2, <2>3, OneTakes, IdleFields
  <2>5. /\ op'.state = op.state /\ op'.schedule = op.schedule /\ op'.lease = None
        /\ op'.commit = op.commit /\ op'.snapshot = op.snapshot /\ op'.proof = op.proof
    BY <2>1, <2>2, TouchedRow
  <2>6. RowInv'
    BY <2>5 DEF RowInv
  <2>7. op.state = "preparing" => Authorized(op.revision)
    BY DEF AuthorityInv
  <2>8. OnceInv /\ op.state \in {"preparing", "failed", "blocked"} => Outstanding = {}
    BY DEF OnceInv
  <2> QED BY <1>1, <2>1, <2>4, <2>5, <2>6, <2>7, <2>8, NothingRecorded, TakingAsideKeeps, IdleFields
          DEF Aside, MayWrite
<1>2. CASE ~(op.lease = e /\ ~op.proof)
  BY <1>2, FinishKeeps, NothingRecorded DEF releaseLease
<1> QED BY <1>1, <1>2

\* What an executor reads of the row, and what is left of it at the claim.
LEMMA ReadRowFields ==
    ASSUME NEW o \in Operation, NEW held \in BOOLEAN
    PROVE  /\ ReadRow(o, held) \in Executor
           /\ ReadRow(o, held).facts = {} /\ ReadRow(o, held).owed = None
           /\ o.state \in uncertain \cup {"sent"} =>
                /\ ReadRow(o, held).pc = "reconcile"
                /\ ReadRow(o, held).state = o.state /\ ReadRow(o, held).lagged = o.lagged
           /\ o.state \notin uncertain \cup {"sent"} => ReadRow(o, held).pc = "claim"
<1>1. CASE o.state \in uncertain \cup {"sent"}
  BY <1>1, IdleFields DEF ReadRow, Executor, Operation
<1>2. CASE o.state \notin uncertain \cup {"sent"}
  BY <1>2, IdleFields DEF ReadRow, Executor
<1> QED BY <1>1, <1>2

LEMMA AtClaimFields ==
    ASSUME NEW x \in Executor
    PROVE  /\ AtClaim(x) \in Executor /\ AtClaim(x).pc = "claim"
           /\ AtClaim(x).facts = {} /\ AtClaim(x).owed = None
           /\ AtClaim(x).fresh = x.fresh
  BY IdleFields DEF AtClaim, Executor

\* A row that was read has no request outstanding unless its state says so.
LEMMA NothingOutstanding ==
    ASSUME BulkInv, OnceInv, op.state \notin uncertain \cup {"sent"}
    PROVE  Outstanding = {} /\ Sending = {}
<1>1. op.state \in {"none", "preparing", "failed", "blocked"}
  BY BulkInvParts, RowFields DEF OpStates, uncertain
<1> QED BY <1>1 DEF OnceInv, SenderOK, Sending

LEMMA ExecuteKeeps ==
    ASSUME BulkInv, NEW e \in Executors, execute(e)
    PROVE  Keeps
<1> USE BulkInvParts
<1> DEFINE x == ReadRow(op, FALSE)
<1>1. /\ x \in Executor /\ x.facts = {} /\ x.owed = None /\ x.pc \in {"reconcile", "claim"}
      /\ x.pc = "reconcile" =>
            x.state = op.state /\ x.lagged = op.lagged /\ op.state \in uncertain \cup {"sent"}
      /\ x.pc = "claim" => op.state \notin uncertain \cup {"sent"}
  BY ReadRowFields DEF RowOK
<1>2. RowLeft(e) /\ exec'[e] = x /\ op' = op
  BY <1>1, OneLeaves DEF execute
<1>3. Elsewhere /\ UNCHANGED post
  BY NothingRecorded DEF execute
<1> HIDE DEF x
<1>4. ExecutorOK(e)'
  BY <1>1, <1>2 DEF ExecutorOK
<1>5. ASSUME OnceInv PROVE SteadyOK(e)'
  <2>1. x.pc = "claim" => Outstanding' = {} /\ Sending' = {}
    <3>1. Sending' \subseteq Sending
      BY <1>1, <1>2 DEF Sending, RowLeft
    <3> QED BY <3>1, <1>1, <1>3, <1>5, NothingOutstanding, OutstandingStays
  <2>2. CopyOK(e)'
    BY <1>1, <1>2, <2>1 DEF CopyOK
  <2> QED BY <1>1, <1>2, <2>2 DEF SteadyOK, SenderOK, AnswerOK, HolderOK
<1>6. BulkInv'
  BY <1>2, <1>3, <1>4, LeavingKeeps
<1>7. ASSUME OnceInv PROVE OnceInv'
  BY <1>1, <1>2, <1>3, <1>5, <1>7, LeavingKeepsOnce
<1> QED BY <1>6, <1>7 DEF Keeps

LEMMA ReconcileKeeps ==
    ASSUME BulkInv, NEW e \in Executors, reconcileBulk(e)
    PROVE  Keeps
<1> USE BulkInvParts
<1> DEFINE x == exec[e]
<1>0. /\ UNCHANGED <<revision, owner, authorization, schedule, active, event, post, fact>>
      /\ x \in Executor /\ x.pc = "reconcile" /\ ExecutorOK(e)
  BY ExecutorFields DEF reconcileBulk, ExecutorsInv
<1>1. Elsewhere
  BY <1>0, NothingRecorded
<1>2. ASSUME NEW n \in Reported, op' = op,
             exec' = [exec EXCEPT ![e].pc = IF x.state = "sent" THEN "facts" ELSE "verify",
                                  ![e].audience = {}, ![e].lagged = FALSE,
                                  ![e].fresh = FALSE, ![e].post = n,
                                  ![e].facts = {f \in fact : f[1] = n}]
      PROVE  Keeps
  <2> DEFINE pc == IF x.state = "sent" THEN "facts" ELSE "verify"
             facts == {f \in fact : f[1] = n}
             y == [x EXCEPT !.pc = pc, !.audience = {}, !.lagged = FALSE,
                            !.fresh = FALSE, !.post = n, !.facts = facts]
  <2>1. n \in 0..MaxPosts /\ facts \in SUBSET Facts /\ facts \subseteq fact
    BY BulkAssumption DEF Reported, Posts, RequestsOK
  <2>2. pc \in {"facts", "verify"}
    OBVIOUS
  <2>3. exec' = [exec EXCEPT ![e] = y]
    BY <1>2 DEF ExecOK
  <2> HIDE DEF pc, facts
  <2>4. /\ y \in Executor /\ y.pc = pc /\ y.facts = facts /\ y.owed = x.owed /\ y.post = n
    BY <1>0, <2>1, <2>2 DEF Executor
  <2>5. RowLeft(e) /\ exec'[e] = y
    BY <1>2, <2>3, <2>4, OneLeaves
  <2>6. y.owed = None
    BY <1>0, <2>4 DEF ExecutorOK
  <2> HIDE DEF y
  <2>7. ExecutorOK(e)'
    BY <1>0, <2>1, <2>2, <2>4, <2>5, <2>6 DEF ExecutorOK
  <2>8. SteadyOK(e)'
    <3>1. Reported' = Reported
      BY <1>0, OutstandingStays
    <3> QED BY <2>2, <2>4, <2>5, <3>1 DEF SteadyOK, SenderOK, AnswerOK, CopyOK, HolderOK
  <2>9. exec'[e].pc # "send" /\ UNCHANGED post
    BY <1>0, <2>2, <2>4, <2>5
  <2> QED BY <1>1, <2>5, <2>7, <2>8, <2>9, LeavingKeeps, LeavingKeepsOnce DEF Keeps
<1>3. ASSUME ProvesAbsence(x), op' = op, exec' = [exec EXCEPT ![e] = AtClaim(x)]
      PROVE  Keeps
  <2> DEFINE y == AtClaim(x)
  <2>1. /\ y \in Executor /\ y.pc = "claim" /\ y.facts = {} /\ y.owed = None /\ y.fresh = x.fresh
    BY <1>0, AtClaimFields
  <2>2. RowLeft(e) /\ exec'[e] = y /\ UNCHANGED post
    BY <1>0, <1>3, <2>1, OneLeaves
  <2> HIDE DEF y
  <2>3. ExecutorOK(e)' /\ exec'[e].pc # "send"
    BY <2>1, <2>2 DEF ExecutorOK
  <2>4. ASSUME OnceInv, x.fresh PROVE Outstanding' = {} /\ Sending' = {}
    <3>1. op.lagged /\ Reported = {}
      BY <1>0, <1>3, <2>4 DEF OnceInv, CopyOK, ProvesAbsence
    <3>2. Outstanding = {} /\ ~op.live
      BY <2>4, <3>1 DEF OnceInv
    <3>3. Sending = {}
      BY <2>4, <3>2 DEF OnceInv, SenderOK, Sending
    <3>4. Sending' \subseteq Sending
      BY <2>1, <2>2 DEF Sending, RowLeft
    <3> QED BY <2>2, <3>2, <3>3, <3>4, OutstandingStays
  <2>5. ASSUME OnceInv PROVE SteadyOK(e)'
    BY <2>1, <2>2, <2>4, <2>5 DEF SteadyOK, SenderOK, AnswerOK, CopyOK, HolderOK
  <2> QED BY <1>1, <2>2, <2>3, <2>5, LeavingKeeps, LeavingKeepsOnce DEF Keeps
<1>4. CASE Finish(e)
  BY <1>1, <1>4, FinishKeeps
<1> QED BY <1>2, <1>3, <1>4 DEF reconcileBulk

LEMMA VerifiedKeeps ==
    ASSUME BulkInv, NEW e \in Executors, recordVerified(e)
    PROVE  Keeps
<1> USE BulkInvParts
<1> DEFINE n == exec[e].post
           mayRecord == /\ op.state \in uncertain
                        /\ exec[e].verified \in {0, n}
                        /\ op.verified \in {0, exec[e].verified}
<1>0. /\ UNCHANGED <<revision, owner, authorization, schedule, active, event, post, fact>>
      /\ exec[e] \in Executor /\ exec[e].pc = "verify" /\ ExecutorOK(e) /\ n \in 0..MaxPosts
      /\ exec[e].owed \in Recipients \cup {None}
  BY ExecutorFields DEF recordVerified, ExecutorsInv
<1>1. CASE mayRecord
  <2> DEFINE state == IF op.state = "attempting" THEN "ambiguous" ELSE op.state
             o == [op EXCEPT !.state = state, !.verified = n, !.lease = None, !.live = FALSE]
             y == [exec[e] EXCEPT !.pc = "facts"]
  <2>1. state \in uncertain /\ state \in OpStates
    BY <1>1 DEF uncertain, OpStates
  <2>2. op' = Touched(o) /\ exec' = OthersStale(e, y)
    BY <1>1 DEF recordVerified, RowOK, Operation
  <2> HIDE DEF state
  <2>3. /\ o \in Operation /\ o.lease = None /\ o.revision = op.revision
        /\ o.schedule = op.schedule /\ o.proof = op.proof /\ o.snapshot = op.snapshot
        /\ o.state = state /\ o.commit = op.commit
    BY <1>0, <2>1 DEF RowOK, Operation
  <2>4. op.state # "none" /\ state # "none" /\ op.proof
    BY <1>1, <2>1 DEF uncertain, RowInv, Attempting
  <2>5. y \in Executor /\ y.pc = "facts" /\ y.facts = exec[e].facts
    BY <1>0 DEF Executor
  <2> HIDE DEF o, y
  <2>6. RowTaken(e) /\ exec'[e] = y
    BY <2>2, <2>3, <2>4, <2>5, OneTakes
  <2>7. /\ op'.state = state /\ op'.schedule = op.schedule /\ op'.lease = None
        /\ op'.commit = op.commit /\ op'.snapshot = op.snapshot /\ op'.proof = op.proof
    BY <2>2, <2>3, TouchedRow
  <2>8. RowInv'
    BY <2>1, <2>4, <2>7 DEF RowInv
  <2>9. OnceInv => MayWrite(e)
    BY <1>0 DEF OnceInv, CopyOK, Reported, Outstanding, MayWrite
  <2>10. /\ exec'[e].pc \in Aside /\ exec'[e].facts \subseteq fact
         /\ exec'[e].owed # None => exec'[e].pc \in {"idle", "facts"}
    BY <1>0, <2>5, <2>6 DEF ExecutorOK, Aside
  <2>11. op'.state \notin {"sent", "preparing", "failed", "blocked"}
    BY <2>1, <2>7 DEF uncertain
  <2> QED BY <1>0, <2>6, <2>8, <2>9, <2>10, <2>11, NothingRecorded, TakingAsideKeeps
<1>2. CASE ~mayRecord
  BY <1>0, <1>2, FinishKeeps, NothingRecorded DEF recordVerified
<1> QED BY <1>1, <1>2

\* A fact is recorded of a message of a request the provider took over.
LEMMA EventRecorded ==
    ASSUME BulkInv, NEW f \in fact, NEW source \in {"webhook", "poll"},
           event' = event \cup {<<source, f>>},
           UNCHANGED <<revision, owner, authorization, schedule, active, post, fact>>
    PROVE  /\ Elsewhere
           /\ OwedBy(source, f) \in Recipients \cup {None}
<1>1. f \in Facts
  BY BulkInvParts DEF RequestsOK
<1>2. f[2] \in Recipients
  BY <1>1 DEF Facts
<1>3. event' \subseteq ({"webhook", "poll"} \X Facts)
  BY <1>1, BulkInvParts DEF LedgerOK
<1>4. \A v \in event' : v[2] \in fact
  BY BulkInvParts DEF ProviderInv
<1> QED BY <1>2, <1>3, <1>4, BulkInvParts DEF Elsewhere, OwedBy, LedgerOK

LEMMA PolledKeeps ==
    ASSUME BulkInv, NEW e \in Executors, recordPolledFact(e)
    PROVE  Keeps
<1> USE BulkInvParts
<1>0. /\ UNCHANGED <<revision, owner, authorization, schedule, active, post, fact>>
      /\ exec[e] \in Executor /\ exec[e].pc = "facts" /\ ExecutorOK(e) /\ exec[e].owed = None
  BY ExecutorFields DEF recordPolledFact, ExecutorsInv
<1>1. CASE exec[e].facts = {} /\ exec[e].state = "sent"
  BY <1>0, <1>1, FinishKeeps, NothingRecorded DEF recordPolledFact
<1>2. CASE exec[e].facts = {} /\ exec[e].state # "sent"
  <2> DEFINE y == [exec[e] EXCEPT !.pc = "confirm"]
  <2>1. exec' = [exec EXCEPT ![e] = y] /\ op' = op /\ event' = event
    BY <1>2 DEF recordPolledFact, ExecOK
  <2>2. y \in Executor /\ y.pc = "confirm" /\ y.facts = {} /\ y.owed = None
    BY <1>0, <1>2 DEF Executor
  <2> HIDE DEF y
  <2>3. RowLeft(e) /\ exec'[e] = y
    BY <2>1, <2>2, OneLeaves
  <2> QED BY <1>0, <2>1, <2>2, <2>3, NothingRecorded, LeavingAsideKeeps DEF Aside
<1>3. CASE exec[e].facts # {}
  <2>1. PICK f \in exec[e].facts :
            /\ event' = event \cup {<<"poll", f>>}
            /\ exec' = [exec EXCEPT ![e].facts = @ \ {f}, ![e].owed = OwedBy("poll", f)]
            /\ UNCHANGED op
    BY <1>3 DEF recordPolledFact
  <2> DEFINE y == [exec[e] EXCEPT !.facts = @ \ {f}, !.owed = OwedBy("poll", f)]
  <2>2. exec' = [exec EXCEPT ![e] = y]
    BY <2>1 DEF ExecOK
  <2>3. f \in fact
    BY <1>0 DEF ExecutorOK
  <2>4. Elsewhere /\ OwedBy("poll", f) \in Recipients \cup {None}
    BY <1>0, <2>1, <2>3, EventRecorded
  <2>5. y \in Executor /\ y.pc = "facts" /\ y.facts \subseteq exec[e].facts
    BY <1>0, <2>4 DEF Executor
  <2> HIDE DEF y
  <2>6. RowLeft(e) /\ exec'[e] = y
    BY <2>1, <2>2, <2>5, OneLeaves
  <2> QED BY <1>0, <2>4, <2>5, <2>6, LeavingAsideKeeps DEF Aside, ExecutorOK
<1> QED BY <1>1, <1>2, <1>3

LEMMA WebhookKeeps ==
    ASSUME BulkInv, NEW e \in Executors, NEW f \in fact, ingestVerifiedEvent(e, f)
    PROVE  Keeps
<1> USE BulkInvParts
<1> DEFINE y == [IdleExecutor EXCEPT !.owed = OwedBy("webhook", f)]
<1>1. exec' = [exec EXCEPT ![e] = y] /\ op' = op
  BY DEF ingestVerifiedEvent, Free, ExecOK
<1>2. Elsewhere /\ OwedBy("webhook", f) \in Recipients \cup {None}
  BY EventRecorded DEF ingestVerifiedEvent
<1>3. y \in Executor /\ y.pc = "idle" /\ y.facts = {}
  BY <1>2, IdleFields DEF Executor
<1> HIDE DEF y
<1>4. RowLeft(e) /\ exec'[e] = y
  BY <1>1, <1>3, OneLeaves
<1> QED BY <1>2, <1>3, <1>4, LeavingAsideKeeps DEF Aside

LEMMA SuppressionKeeps ==
    ASSUME BulkInv, NEW e \in Executors, applyProviderSuppression(e)
    PROVE  Keeps
<1> USE BulkInvParts
<1> DEFINE y == IF exec[e].pc = "idle" THEN IdleExecutor ELSE [exec[e] EXCEPT !.owed = None]
<1>0. /\ exec[e] \in Executor /\ ExecutorOK(e) /\ exec[e].pc \in {"idle", "facts"}
  BY ExecutorFields DEF applyProviderSuppression, ExecutorsInv, ExecutorOK
<1>1. exec' = [exec EXCEPT ![e] = y] /\ op' = op
  BY DEF applyProviderSuppression
<1>2. y \in Executor /\ y.pc \in {"idle", "facts"} /\ y.facts \subseteq fact /\ y.owed = None
  <2>1. CASE exec[e].pc = "idle"
    BY <2>1, IdleFields
  <2>2. CASE exec[e].pc = "facts"
    BY <1>0, <2>2 DEF Executor, ExecutorOK
  <2> QED BY <1>0, <2>1, <2>2
<1> HIDE DEF y
<1>3. RowLeft(e) /\ exec'[e] = y
  BY <1>1, <1>2, OneLeaves
<1>4. Elsewhere
  BY DEF applyProviderSuppression, Elsewhere, LedgerOK, ProviderInv
<1> QED BY <1>2, <1>3, <1>4, LeavingAsideKeeps DEF Aside

LEMMA AudienceKeeps ==
    ASSUME BulkInv, NEW e \in Executors, resolveAudience(e)
    PROVE  Keeps
<1> USE BulkInvParts
<1> DEFINE pc == IF active = {} THEN "release" ELSE "snapshot"
           y == [exec[e] EXCEPT !.audience = active, !.pc = pc]
<1>0. /\ exec[e] \in Executor /\ ExecutorOK(e) /\ exec[e].pc = "audience"
      /\ exec[e].owed \in Recipients \cup {None} /\ op' = op /\ UNCHANGED post
  BY ExecutorFields DEF resolveAudience, ExecutorsInv
<1>1. exec' = [exec EXCEPT ![e] = y]
  BY DEF resolveAudience, ExecOK
<1>2. pc \in {"release", "snapshot"} /\ (pc = "snapshot" => active # {})
  OBVIOUS
<1> HIDE DEF pc
<1>3. y \in Executor /\ y.pc = pc /\ y.audience = active /\ y.facts = exec[e].facts
      /\ y.owed = exec[e].owed
  BY <1>0, <1>2 DEF Executor, LedgerOK
<1> HIDE DEF y
<1>4. RowLeft(e) /\ exec'[e] = y
  BY <1>0, <1>1, <1>3, OneLeaves
<1>5. Elsewhere
  BY NothingRecorded DEF resolveAudience
<1>6. ExecutorOK(e)'
  BY <1>0, <1>2, <1>3, <1>4, <1>5 DEF ExecutorOK, Elsewhere
<1>7. ASSUME OnceInv PROVE SteadyOK(e)'
  <2>1. HolderOK(e)
    BY <1>7 DEF OnceInv
  <2> QED BY <1>0, <1>2, <1>3, <1>4, <2>1, OutstandingStays
          DEF SteadyOK, SenderOK, AnswerOK, CopyOK, HolderOK
<1> QED BY <1>0, <1>2, <1>3, <1>4, <1>5, <1>6, <1>7, LeavingKeeps, LeavingKeepsOnce DEF Keeps

LEMMA ClaimKeeps ==
    ASSUME BulkInv, NEW e \in Executors, claimOperation(e)
    PROVE  Keeps
<1> USE BulkInvParts
<1> DEFINE state == IF op.state \in {"failed", "blocked"} THEN "preparing" ELSE op.state
           o == [op EXCEPT !.state = state, !.lease = e, !.live = TRUE]
           pc == IF ~op.proof THEN "audience" ELSE "begin"
           audience == IF op.proof THEN op.snapshot ELSE {}
           y == [IdleExecutor EXCEPT !.pc = pc, !.audience = audience]
<1>0. /\ UNCHANGED <<revision, owner, authorization, schedule, active, event, post, fact>>
      /\ ClaimPermits(e) /\ exec[e].pc = "claim"
  BY DEF claimOperation
<1>1. op' = Touched(o) /\ exec' = OthersStale(e, y)
  BY DEF claimOperation, RowOK, Operation
<1>2. state \in {"preparing", "attempting", "ambiguous"} /\ (state # "preparing" => state = op.state)
  BY <1>0 DEF ClaimPermits
<1>3. pc \in {"audience", "begin"} /\ audience \in SUBSET Recipients
  BY DEF RowOK, Operation
<1> HIDE DEF state, pc, audience
<1>4. /\ o \in Operation /\ o.lease = e /\ o.revision = op.revision
      /\ o.schedule = op.schedule /\ o.proof = op.proof /\ o.snapshot = op.snapshot
      /\ o.state = state /\ o.commit = op.commit /\ o.live
  BY <1>2 DEF RowOK, Operation, OpStates
<1>5. y \in Executor /\ y.pc = pc /\ y.facts = {} /\ y.owed = None
  BY <1>3, IdleFields DEF Executor
<1> HIDE DEF o, y
<1>6. RowTaken(e) /\ exec'[e] = y
  BY <1>0, <1>1, <1>2, <1>4, <1>5, OneTakes DEF ClaimPermits
<1>7. /\ op'.state = state /\ op'.schedule = op.schedule /\ op'.lease = e
      /\ op'.commit = op.commit /\ op'.snapshot = op.snapshot /\ op'.proof = op.proof
  BY <1>1, <1>4, TouchedRow
<1>8. RowInv'
  BY <1>2, <1>7 DEF RowInv, Attempting, uncertain
<1>9. ExecutorOK(e)'
  BY <1>3, <1>5, <1>6 DEF ExecutorOK
<1>10. op'.state # "sent" /\ Authorized(op.revision)
  BY <1>0, <1>2, <1>7 DEF ClaimPermits
<1>11. BulkInv'
  BY <1>0, <1>6, <1>8, <1>9, <1>10, TakingKeeps, NothingRecorded
<1>12. ASSUME Orderly, OnceInv PROVE OnceInv'
  <2>1. exec[e].fresh
    BY <1>12 DEF claimOperation, Orderly
  <2>2. Outstanding = {}
    BY <1>0, <1>12, <2>1 DEF OnceInv, CopyOK
  <2>3. MayWrite(e)
    BY <1>0 DEF ClaimPermits, MayWrite
  <2>4. SteadyOK(e)'
    BY <1>0, <1>3, <1>5, <1>6, <2>2, OutstandingStays
       DEF SteadyOK, SenderOK, AnswerOK, CopyOK, HolderOK
  <2> QED BY <1>0, <1>6, <1>12, <2>2, <2>3, <2>4, TakingKeepsOnce
<1> QED BY <1>11, <1>12 DEF Keeps

LEMMA SnapshotKeeps ==
    ASSUME BulkInv, NEW e \in Executors, saveAudienceSnapshot(e)
    PROVE  Keeps
<1> USE BulkInvParts
<1>0. /\ UNCHANGED <<revision, owner, authorization, schedule, active, event, post, fact>>
      /\ exec[e] \in Executor /\ ExecutorOK(e) /\ exec[e].pc = "snapshot"
      /\ exec[e].owed \in Recipients \cup {None} /\ exec[e].audience \in SUBSET Recipients
  BY ExecutorFields DEF saveAudienceSnapshot, ExecutorsInv
<1>1. CASE op.lease = e /\ op.live /\ op.state = "preparing" /\ ~op.proof
  <2> DEFINE commit == CommitFor(exec[e].audience)
             pc == IF commit = {} THEN "artifact" ELSE "begin"
             o == [op EXCEPT !.snapshot = exec[e].audience, !.commit = commit]
             y == [exec[e] EXCEPT !.pc = pc]
  <2>1. op' = Touched(o) /\ exec' = OthersStale(e, y)
    BY <1>1 DEF saveAudienceSnapshot
  <2>2. commit \in {{}, exec[e].audience} /\ commit \in SUBSET Recipients
    BY <1>0 DEF CommitFor, RowInv
  <2>3. pc \in {"artifact", "begin"}
    OBVIOUS
  <2> HIDE DEF commit, pc
  <2>4. /\ o \in Operation /\ o.lease = e /\ o.revision = op.revision
        /\ o.schedule = op.schedule /\ o.proof = FALSE /\ o.snapshot = exec[e].audience
        /\ o.state = "preparing" /\ o.commit = commit
    BY <1>0, <1>1, <2>2 DEF RowOK, Operation
  <2>5. y \in Executor /\ y.pc = pc /\ y.facts = exec[e].facts /\ y.owed = exec[e].owed
        /\ y.audience = exec[e].audience
    BY <1>0, <2>3 DEF Executor
  <2> HIDE DEF o, y
  <2>6. RowTaken(e) /\ exec'[e] = y
    BY <1>1, <2>1, <2>4, <2>5, OneTakes
  <2>7. /\ op'.state = "preparing" /\ op'.lease = e /\ ~op'.proof
        /\ op'.commit = commit /\ op'.snapshot = exec[e].audience
    BY <2>1, <2>4, TouchedRow
  <2>8. RowInv'
    BY <2>2, <2>7 DEF RowInv, Attempting, uncertain
  <2>9. ExecutorOK(e)'
    BY <1>0, <2>3, <2>5, <2>6, <2>7 DEF ExecutorOK
  <2>10. Authorized(op.revision)
    BY <1>1 DEF AuthorityInv
  <2>11. BulkInv'
    BY <1>0, <2>6, <2>7, <2>8, <2>9, <2>10, TakingKeeps, NothingRecorded
  <2>12. ASSUME OnceInv PROVE OnceInv'
    <3>1. Outstanding = {} /\ MayWrite(e)
      BY <1>1, <2>12 DEF OnceInv, MayWrite
    <3>2. SteadyOK(e)'
      BY <1>0, <2>3, <2>5, <2>6, <3>1, OutstandingStays
         DEF SteadyOK, SenderOK, AnswerOK, CopyOK, HolderOK
    <3> QED BY <1>0, <2>6, <2>12, <3>1, <3>2, TakingKeepsOnce
  <2> QED BY <2>11, <2>12 DEF Keeps
<1>2. CASE ~(op.lease = e /\ op.live /\ op.state = "preparing" /\ ~op.proof)
  BY <1>0, <1>2, ThrowKeeps DEF saveAudienceSnapshot
<1> QED BY <1>1, <1>2

LEMMA ArtifactKeeps ==
    ASSUME BulkInv, NEW e \in Executors, recordArtifactPublication(e)
    PROVE  Keeps
<1> USE BulkInvParts
<1>0. /\ UNCHANGED <<revision, owner, authorization, schedule, active, event, post, fact>>
      /\ exec[e] \in Executor /\ ExecutorOK(e) /\ exec[e].pc = "artifact"
      /\ exec[e].owed \in Recipients \cup {None} /\ exec[e].audience \in SUBSET Recipients
  BY ExecutorFields DEF recordArtifactPublication, ExecutorsInv
<1>1. ASSUME op.lease = e, op.state = "preparing",
             op' = Touched([op EXCEPT !.commit = exec[e].audience]),
             exec' = OthersStale(e, [exec[e] EXCEPT !.pc = "begin"])
      PROVE  Keeps
  <2> DEFINE o == [op EXCEPT !.commit = exec[e].audience]
             y == [exec[e] EXCEPT !.pc = "begin"]
  <2>1. /\ o \in Operation /\ o.lease = e /\ o.revision = op.revision
        /\ o.schedule = op.schedule /\ o.proof = op.proof /\ o.snapshot = op.snapshot
        /\ o.state = "preparing" /\ o.commit = exec[e].audience
    BY <1>0, <1>1 DEF RowOK, Operation
  <2>2. y \in Executor /\ y.pc = "begin" /\ y.facts = exec[e].facts /\ y.owed = exec[e].owed
    BY <1>0 DEF Executor
  <2>3. op' = Touched(o) /\ exec' = OthersStale(e, y)
    BY <1>1
  <2> HIDE DEF o, y
  <2>4. RowTaken(e) /\ exec'[e] = y
    BY <1>1, <2>1, <2>2, <2>3, OneTakes
  <2>5. /\ op'.state = "preparing" /\ op'.lease = e /\ op'.proof = op.proof
        /\ op'.commit = exec[e].audience /\ op'.snapshot = op.snapshot
    BY <2>1, <2>3, TouchedRow
  <2>6. exec[e].audience = op.snapshot
    BY <1>0, <1>1 DEF ExecutorOK
  <2>7. RowInv'
    BY <2>5, <2>6 DEF RowInv, Attempting, uncertain
  <2>8. ExecutorOK(e)'
    BY <1>0, <2>2, <2>4 DEF ExecutorOK
  <2>9. Authorized(op.revision)
    BY <1>1 DEF AuthorityInv
  <2>10. BulkInv'
    BY <1>0, <2>4, <2>5, <2>7, <2>8, <2>9, TakingKeeps, NothingRecorded
  <2>11. ASSUME OnceInv PROVE OnceInv'
    <3>1. Outstanding = {} /\ MayWrite(e)
      BY <1>1, <2>11 DEF OnceInv, MayWrite
    <3>2. SteadyOK(e)'
      BY <1>0, <2>2, <2>4, <3>1, OutstandingStays
         DEF SteadyOK, SenderOK, AnswerOK, CopyOK, HolderOK
    <3> QED BY <1>0, <2>4, <2>11, <3>1, <3>2, TakingKeepsOnce
  <2> QED BY <2>10, <2>11 DEF Keeps
<1>2. ASSUME op.lease = e, op.state = "preparing", NEW state \in UncommittedStates,
             op' = Touched([op EXCEPT !.state = state, !.lease = None, !.live = FALSE]),
             exec' = OthersStale(e, IdleExecutor)
      PROVE  Keeps
  <2> DEFINE o == [op EXCEPT !.state = state, !.lease = None, !.live = FALSE]
  <2>1. state \in {"preparing", "blocked"}
    BY DEF UncommittedStates
  <2>2. /\ o \in Operation /\ o.lease = None /\ o.revision = op.revision
        /\ o.schedule = op.schedule /\ o.proof = op.proof /\ o.snapshot = op.snapshot
        /\ o.state = state /\ o.commit = op.commit
    BY <2>1 DEF RowOK, Operation, OpStates
  <2>3. op' = Touched(o)
    BY <1>2
  <2> HIDE DEF o
  <2>4. RowTaken(e) /\ exec'[e] = IdleExecutor
    BY <1>2, <2>1, <2>2, <2>3, OneTakes, IdleFields
  <2>5. /\ op'.state = state /\ op'.proof = op.proof
        /\ op'.commit = op.commit /\ op'.snapshot = op.snapshot
    BY <2>2, <2>3, TouchedRow
  <2>6. RowInv'
    BY <2>1, <2>5 DEF RowInv, Attempting, uncertain
  <2>7. Authorized(op.revision)
    BY <1>2 DEF AuthorityInv
  <2>8. OnceInv => MayWrite(e) /\ Outstanding = {}
    BY <1>2 DEF OnceInv, MayWrite
  <2> QED BY <1>0, <2>1, <2>4, <2>5, <2>6, <2>7, <2>8, IdleFields, NothingRecorded, TakingAsideKeeps
          DEF Aside
<1>3. CASE Throw(e)
  BY <1>0, <1>3, ThrowKeeps
<1> QED BY <1>1, <1>2, <1>3 DEF recordArtifactPublication

LEMMA BeginKeeps ==
    ASSUME BulkInv, NEW e \in Executors, beginProviderAttempt(e)
    PROVE  Keeps
<1> USE BulkInvParts
<1>0. /\ UNCHANGED <<revision, owner, authorization, schedule, active, event, post, fact>>
      /\ exec[e] \in Executor /\ ExecutorOK(e) /\ exec[e].pc = "begin"
      /\ exec[e].owed \in Recipients \cup {None}
  BY ExecutorFields DEF beginProviderAttempt, ExecutorsInv
<1>1. CASE BeginPermits(e)
  <2> DEFINE o == [op EXCEPT !.state = "attempting", !.proof = TRUE]
             y == [exec[e] EXCEPT !.pc = "send"]
  <2>0. /\ op.lease = e /\ op.live /\ op.commit # {} /\ exec[e].audience = op.snapshot
        /\ op.state \in {"preparing", "attempting", "ambiguous"}
    BY <1>1 DEF BeginPermits
  <2>1. op' = Touched(o) /\ exec' = OthersStale(e, y)
    BY <1>1 DEF beginProviderAttempt
  <2>2. /\ o \in Operation /\ o.lease = e /\ o.live /\ o.revision = op.revision
        /\ o.schedule = op.schedule /\ o.proof /\ o.snapshot = op.snapshot
        /\ o.state = "attempting" /\ o.commit = op.commit
    BY <2>0 DEF RowOK, Operation, OpStates
  <2>3. y \in Executor /\ y.pc = "send" /\ y.facts = exec[e].facts /\ y.owed = exec[e].owed
        /\ y.audience = exec[e].audience
    BY <1>0 DEF Executor
  <2> HIDE DEF o, y
  <2>4. RowTaken(e) /\ exec'[e] = y
    BY <2>0, <2>1, <2>2, <2>3, OneTakes
  <2>5. /\ op'.state = "attempting" /\ op'.lease = e /\ op'.live /\ op'.proof
        /\ op'.commit = op.commit /\ op'.snapshot = op.snapshot
    BY <2>1, <2>2, TouchedRow
  <2>6. RowInv'
    BY <2>0, <2>5 DEF RowInv
  <2>7. ExecutorOK(e)'
    BY <1>0, <2>0, <2>3, <2>4, <2>5 DEF ExecutorOK
  <2>8. BulkInv'
    BY <1>0, <2>4, <2>5, <2>6, <2>7, TakingKeeps, NothingRecorded
  <2>9. ASSUME OnceInv PROVE OnceInv'
    <3>1. Outstanding = {} /\ MayWrite(e)
      BY <1>0, <2>0, <2>9 DEF OnceInv, HolderOK, MayWrite
    <3>2. SteadyOK(e)'
      BY <1>0, <2>0, <2>3, <2>4, <2>5, <3>1, OutstandingStays
         DEF SteadyOK, SenderOK, AnswerOK, CopyOK, HolderOK
    <3> QED BY <1>0, <2>4, <2>9, <3>1, <3>2, TakingKeepsOnce
  <2> QED BY <2>8, <2>9 DEF Keeps
<1>2. CASE ~BeginPermits(e)
  BY <1>0, <1>2, ThrowKeeps DEF beginProviderAttempt
<1> QED BY <1>1, <1>2

\* The one step that makes a request.
SendsTo(e, n, at, answer) ==
    /\ exec[e].pc = "send"
    /\ post[n].state = "unused"
    /\ answer = "rejected" => at = "gone"
    /\ post' = [post EXCEPT ![n] = [state |-> at, to |-> exec[e].audience]]
    /\ exec' = [exec EXCEPT ![e].pc = "answer", ![e].answer = answer]
    /\ UNCHANGED <<revision, owner, authorization, schedule, op, active, event, fact>>

LEMMA SendIs ==
    ASSUME NEW e \in Executors, sendBulk(e)
    PROVE  \E n \in Posts, at \in {"accepted", "gone", "wire"},
              answer \in {"accepted", "ambiguous", "rejected"} : SendsTo(e, n, at, answer)
<1>1. PICK n \in Posts :
        /\ post[n].state = "unused"
        /\ \E at \in {<<"accepted", "accepted">>, <<"accepted", "ambiguous">>,
                       <<"gone", "ambiguous">>, <<"wire", "ambiguous">>,
                       <<"gone", "rejected">>} :
              /\ post' = [post EXCEPT ![n] = [state |-> at[1], to |-> exec[e].audience]]
              /\ exec' = [exec EXCEPT ![e].pc = "answer", ![e].answer = at[2]]
  BY DEF sendBulk
<1>2. PICK at \in {<<"accepted", "accepted">>, <<"accepted", "ambiguous">>,
                   <<"gone", "ambiguous">>, <<"wire", "ambiguous">>, <<"gone", "rejected">>} :
              /\ post' = [post EXCEPT ![n] = [state |-> at[1], to |-> exec[e].audience]]
              /\ exec' = [exec EXCEPT ![e].pc = "answer", ![e].answer = at[2]]
  BY <1>1
<1>3. /\ at[1] \in {"accepted", "gone", "wire"}
      /\ at[2] \in {"accepted", "ambiguous", "rejected"}
      /\ at[2] = "rejected" => at[1] = "gone"
  BY <1>2
<1>4. SendsTo(e, n, at[1], at[2])
  BY <1>1, <1>2, <1>3 DEF SendsTo, sendBulk
<1> QED BY <1>3, <1>4

\* Before a request nothing else can have been taken over.
LEMMA SendKeeps ==
    ASSUME BulkInv, NEW e \in Executors, sendBulk(e)
    PROVE  Keeps
<1> USE BulkInvParts
<1>1. PICK n \in Posts, at \in {"accepted", "gone", "wire"},
              answer \in {"accepted", "ambiguous", "rejected"} : SendsTo(e, n, at, answer)
  BY SendIs
<1> DEFINE y == [exec[e] EXCEPT !.pc = "answer", !.answer = answer]
           p == [state |-> at, to |-> exec[e].audience]
<1>0. /\ UNCHANGED <<revision, owner, authorization, schedule, op, active, event, fact>>
      /\ exec[e] \in Executor /\ ExecutorOK(e) /\ exec[e].pc = "send"
      /\ exec[e].owed \in Recipients \cup {None} /\ exec[e].audience \in SUBSET Recipients
      /\ post[n].state = "unused"
      /\ at \in {"accepted", "gone", "wire"} /\ (answer = "rejected" => at = "gone")
      /\ answer \in {"accepted", "ambiguous", "rejected"}
  BY <1>1, ExecutorFields DEF SendsTo, ExecutorsInv
<1>2. exec' = [exec EXCEPT ![e] = y] /\ post' = [post EXCEPT ![n] = p]
  BY <1>1 DEF SendsTo, ExecOK
<1>3. y \in Executor /\ y.pc = "answer" /\ y.answer = answer /\ y.facts = exec[e].facts
      /\ y.owed = exec[e].owed
  BY <1>0 DEF Executor
<1>4. p \in Request /\ p.state = at /\ p.to = exec[e].audience
  BY <1>0 DEF Request
<1> HIDE DEF y, p
<1>5. RowLeft(e) /\ exec'[e] = y
  BY <1>0, <1>2, <1>3, OneLeaves
<1>6. post' \in [Posts -> Request] /\ post'[n] = p /\ \A m \in Posts \ {n} : post'[m] = post[m]
  BY <1>2, <1>4 DEF RequestsOK
<1>7. BulkInv'
  <2>1. BulkTypes'
    BY <1>0, <1>5, <1>6 DEF BulkTypes, OwnerOK, RowOK, ExecOK, LedgerOK, RequestsOK, RowLeft
  <2>2. RowInv' /\ AuthorityInv' /\ SchedulesFollowSend'
    BY <1>0 DEF RowInv, AuthorityInv, Authorized, SchedulesFollowSend
  <2>3. ExecutorOK(e)'
    BY <1>0, <1>3, <1>5 DEF ExecutorOK
  <2>4. ExecutorsInv'
    BY <1>0, <1>5, <2>3, ExecutorsStay
  <2>5. ProviderInv'
    <3>1. op.proof /\ exec[e].audience = op.snapshot
      BY <1>0 DEF ExecutorOK
    <3>2. \A f \in fact : f[1] \in Posts /\ f[1] # n
      BY <1>0 DEF ProviderInv, RequestsOK, Facts
    <3> QED BY <1>0, <1>4, <1>6, <3>1, <3>2 DEF ProviderInv
  <2>6. SentWasReached'
    <3>1. \A m \in Posts : Attempted(m)' = Attempted(m)
      BY <1>0 DEF Attempted
    <3>2. \A m \in Taken : m \in Posts /\ m # n /\ m \in Taken'
      BY <1>0, <1>6 DEF Taken
    <3> QED BY <1>0, <1>6, <3>1, <3>2 DEF SentWasReached
  <2> QED BY <2>1, <2>2, <2>4, <2>5, <2>6, BulkInvWillBe
<1>8. ASSUME OnceInv PROVE OnceInv'
  <2>1. op.lease = e /\ op.live /\ op.state = "attempting" /\ Outstanding = {}
    BY <1>0, <1>8 DEF OnceInv, SenderOK
  <2>2. ~op.lagged
    BY <1>8, <2>1 DEF OnceInv
  <2>3. Outstanding' \subseteq {n} /\ (answer = "rejected" => Outstanding' = {})
    BY <1>0, <1>4, <1>6, <2>1 DEF Outstanding
  <2>4. Reported' = Reported
    BY <1>0, <1>4, <1>6 DEF Reported
  <2>5. e \in Sending
    BY <1>0 DEF Sending
  <2>6. ASSUME NEW f \in Executors \ {e} PROVE SteadyOK(f)'
    <3>1. exec'[f] = exec[f]
      BY <1>5 DEF RowLeft
    <3>2. CopyOK(f) /\ SenderOK(f) /\ op.lease # f
      BY <1>8, <2>1 DEF OnceInv
    <3> QED BY <1>0, <2>4, <2>5, <3>1, <3>2
            DEF SteadyOK, SenderOK, AnswerOK, CopyOK, HolderOK
  <2>7. SteadyOK(e)'
    BY <1>0, <1>3, <1>5, <2>1, <2>3 DEF SteadyOK, SenderOK, AnswerOK, CopyOK, HolderOK
  <2>8. \A f \in Executors : SteadyOK(f)'
    BY <2>6, <2>7
  <2>9. \A m, k \in Outstanding' : m = k
    BY <2>3
  <2> QED BY <1>0, <2>1, <2>2, <2>8, <2>9, OnceInvWillBe
<1> QED BY <1>7, <1>8 DEF Keeps

LEMMA OutcomeKeeps ==
    ASSUME BulkInv, NEW e \in Executors, recordProviderOutcome(e)
    PROVE  Keeps
<1> USE BulkInvParts
<1>0. /\ UNCHANGED <<revision, owner, authorization, schedule, active, event, post, fact>>
      /\ exec[e].pc = "answer"
  BY DEF recordProviderOutcome
<1>1. CASE op.lease = e /\ op.state = "attempting"
  <2> DEFINE state == AnsweredState(exec[e].answer)
             o == [op EXCEPT !.state = state, !.lease = None, !.live = FALSE]
  <2>1. /\ state \in {"provider_queued", "ambiguous", "failed"}
        /\ exec[e].answer \in {"accepted", "ambiguous"} => state # "failed"
    BY DEF AnsweredState
  <2>2. op' = Touched(o) /\ exec' = OthersStale(e, IdleExecutor)
    BY <1>1 DEF recordProviderOutcome
  <2> HIDE DEF state
  <2>3. /\ o \in Operation /\ o.lease = None /\ o.revision = op.revision
        /\ o.schedule = op.schedule /\ o.proof = op.proof /\ o.snapshot = op.snapshot
        /\ o.state = state /\ o.commit = op.commit
    BY <2>1 DEF RowOK, Operation, OpStates
  <2> HIDE DEF o
  <2>4. RowTaken(e) /\ exec'[e] = IdleExecutor
    BY <1>1, <2>1, <2>2, <2>3, OneTakes, IdleFields
  <2>5. /\ op'.state = state /\ op'.proof = op.proof
        /\ op'.commit = op.commit /\ op'.snapshot = op.snapshot
    BY <2>2, <2>3, TouchedRow
  <2>6. RowInv'
    BY <1>1, <2>1, <2>5 DEF RowInv, Attempting, uncertain
  <2>7. OnceInv => MayWrite(e)
    BY <1>1 DEF MayWrite
  <2>8. OnceInv /\ state = "failed" => Outstanding = {}
    <3>1. op.state = "attempting" /\ op.lease = e
      BY <1>1
    <3> QED BY <1>0, <2>1, <3>1 DEF OnceInv, AnswerOK
  <2> QED BY <1>0, <2>1, <2>4, <2>5, <2>6, <2>7, <2>8, IdleFields, NothingRecorded, TakingAsideKeeps
          DEF Aside
<1>2. CASE ~(op.lease = e /\ op.state = "attempting")
  BY <1>0, <1>2, ThrowKeeps DEF recordProviderOutcome
<1> QED BY <1>1, <1>2

\* Only a campaign with complete evidence for one request is called sent.
LEMMA ConfirmKeeps ==
    ASSUME BulkInv, NEW e \in Executors, confirmProviderAcceptance(e)
    PROVE  Keeps
<1> USE BulkInvParts
<1> PICK n : n = exec[e].post
  OBVIOUS
<1> DEFINE confirms == /\ op.verified = n
                       /\ op.state \in {"ambiguous", "provider_queued"}
                       /\ EvidenceComplete(n)
<1>0. /\ UNCHANGED <<revision, owner, active, event, post, fact>>
      /\ exec[e].pc = "confirm"
  BY DEF confirmProviderAcceptance
<1>1. CASE confirms
  <2> DEFINE o == [op EXCEPT !.state = "sent", !.lease = None, !.live = FALSE]
  <2>1. /\ op' = Touched(o) /\ exec' = OthersStale(e, IdleExecutor)
        /\ authorization' = [authorization EXCEPT ![op.revision] =
                                 IF @ = "active" THEN "consumed" ELSE @]
        /\ schedule' = ScheduleCompleted
    BY <1>1 DEF confirmProviderAcceptance
  <2>2. /\ o \in Operation /\ o.lease = None /\ o.revision = op.revision
        /\ o.schedule = op.schedule /\ o.proof = op.proof /\ o.snapshot = op.snapshot
        /\ o.state = "sent" /\ o.commit = op.commit
    BY DEF RowOK, Operation, OpStates
  <2>3. op.state # "none" /\ op.proof
    BY <1>1 DEF RowInv, Attempting, uncertain
  <2> HIDE DEF o
  <2>4. /\ n \in Taken /\ post[n].to = op.snapshot
         /\ op.snapshot \subseteq Attempted(n)
    <3>1. op.snapshot # {} /\ op.snapshot \subseteq Attempted(n)
      BY <1>1, <2>3 DEF RowInv, EvidenceComplete
    <3>2. PICK r : r \in Attempted(n)
      BY <3>1
    <3>3. PICK k \in Kinds : <<"webhook", <<n, r, k>>>> \in event
      BY <3>2 DEF Attempted
    <3>4. <<n, r, k>> \in fact
      BY <3>3 DEF ProviderInv
    <3>5. n \in Posts
      BY <3>4 DEF RequestsOK, Facts
    <3>6. post[n].state \in {"accepted", "reported"}
      BY <3>4 DEF ProviderInv
    <3>7. n \in Taken /\ post[n].to = op.snapshot
      BY <3>5, <3>6 DEF Taken, ProviderInv
    <3> QED BY <3>1, <3>7
  <2>5. RowTaken(e) /\ exec'[e] = IdleExecutor
    BY <2>1, <2>2, <2>3, OneTakes, IdleFields
  <2>6. /\ op'.state = "sent" /\ op'.proof = op.proof /\ op'.revision = op.revision
        /\ op'.schedule = op.schedule
        /\ op'.commit = op.commit /\ op'.snapshot = op.snapshot
    BY <2>1, <2>2, TouchedRow
  <2>7. /\ exec'[e].pc \in Aside /\ exec'[e].facts \subseteq fact'
        /\ exec'[e].owed # None => exec'[e].pc \in {"idle", "facts"}
    BY <2>5, IdleFields DEF Aside
  <2>8. ExecutorOK(e)' /\ SteadyOK(e)'
    BY <2>7, AsideIsSteady
  <2>9. schedule' \in [Schedules -> ScheduleRow]
        /\ \A s \in Schedules :
              /\ schedule'[s].revision = schedule[s].revision
              /\ \/ schedule'[s].state = schedule[s].state
                 \/ schedule[s].state = "claimed" /\ schedule'[s].state = "completed"
              /\ s = op.schedule => schedule'[s].state # "claimed"
    <3>1. ASSUME NEW s \in Schedules
          PROVE  /\ schedule[s] \in ScheduleRow
                 /\ [schedule[s] EXCEPT !.state = "completed"] \in ScheduleRow
                 /\ [schedule[s] EXCEPT !.state = "completed"].state = "completed"
                 /\ [schedule[s] EXCEPT !.state = "completed"].revision = schedule[s].revision
      BY DEF OwnerOK, ScheduleRow
    <3>2. ASSUME NEW s \in Schedules
          PROVE  schedule'[s] = IF s = op.schedule /\ schedule[s].state = "claimed"
                                THEN [schedule[s] EXCEPT !.state = "completed"]
                                ELSE schedule[s]
      BY <2>1 DEF ScheduleCompleted
    <3>3. schedule' \in [Schedules -> ScheduleRow]
      BY <2>1, <3>1 DEF ScheduleCompleted
    <3> QED BY <3>1, <3>2, <3>3
  <2>10. BulkTypes'
    <3>1. authorization' \in [Revisions -> {"none", "active", "consumed", "invalidated"}]
      BY <2>1 DEF OwnerOK
    <3> QED BY <1>0, <2>5, <2>9, <3>1
            DEF BulkTypes, OwnerOK, RowOK, ExecOK, LedgerOK, RequestsOK, RowTaken
  <2>11. RowInv'
    BY <2>3, <2>6 DEF RowInv
  <2>12. \A s \in Schedules : schedule[s].state # "active"
    BY <2>3 DEF SchedulesFollowSend
  <2>13. AuthorityInv'
    BY <2>6, <2>9, <2>12 DEF AuthorityInv
  <2>14. ExecutorsInv'
    BY <1>0, <2>5, <2>8, ExecutorsStay
  <2>15. ProviderInv'
    BY <1>0, <2>3, <2>6, ProviderStays DEF ProviderInv
  <2>16. SchedulesFollowSend'
    BY <2>6, <2>9, <2>12 DEF SchedulesFollowSend
  <2>17. SentWasReached'
    <3>1. Taken' = Taken /\ Attempted(n)' = Attempted(n)
      BY <1>0 DEF Taken, Attempted
    <3> QED BY <1>0, <2>6, <2>4, <3>1 DEF SentWasReached
  <2>18. BulkInv'
    BY <2>10, <2>11, <2>13, <2>14, <2>15, <2>16, <2>17, BulkInvWillBe
  <2>19. ASSUME OnceInv PROVE OnceInv'
    <3>1. MayWrite(e)
      <4>1. n \in Outstanding
        BY <2>4 DEF Taken, Outstanding
      <4> QED BY <4>1 DEF MayWrite
    <3> QED BY <1>0, <2>5, <2>6, <2>8, <2>19, <3>1, TakingKeepsOnce
  <2> QED BY <2>18, <2>19 DEF Keeps
<1>2. CASE ~confirms
  <2>1. Finish(e) /\ UNCHANGED <<authorization, schedule>>
    BY <1>2 DEF confirmProviderAcceptance
  <2> QED BY <1>0, <2>1, FinishKeeps, NothingRecorded
<1> QED BY <1>1, <1>2

-----------------------------------------------------------------------------
(* The commands, the provider and time *)

\* Steps that touch neither the row nor an executor nor the provider.
LEMMA OutsideKeeps ==
    ASSUME BulkInv, UNCHANGED <<op, exec, event, post, fact>>,
           OwnerOK', active' \subseteq Recipients, AuthorityInv', SchedulesFollowSend'
    PROVE  Keeps
<1> USE BulkInvParts
<1>1. BulkTypes'
  BY DEF BulkTypes, RowOK, ExecOK, LedgerOK, RequestsOK
<1>2. RowInv' /\ ProviderInv'
  BY DEF RowInv, ProviderInv
<1>3. ExecutorsInv'
  BY DEF ExecutorsInv, ExecutorOK
<1>4. SentWasReached'
  BY SentStays
<1>5. BulkInv'
  BY <1>1, <1>2, <1>3, <1>4, BulkInvWillBe
<1>6. ASSUME OnceInv PROVE OnceInv'
  <2>1. Sending' = Sending
    BY DEF Sending
  <2>2. \A e \in Executors : SteadyOK(e)'
    BY <1>6, <2>1, OutstandingStays
       DEF OnceInv, SteadyOK, SenderOK, AnswerOK, CopyOK, HolderOK
  <2> QED BY <1>6, <2>2, OutstandingStays, OnceInvWillBe DEF OnceInv
<1> QED BY <1>5, <1>6 DEF Keeps

LEMMA AuthorizeKeeps ==
    ASSUME BulkInv, authorize
    PROVE  Keeps
<1> USE BulkInvParts
<1>1. OwnerOK'
  BY DEF OwnerOK, authorize
<1>2. AuthorityInv'
  BY DEF AuthorityInv, Authorized, authorize, OwnerOK
<1>3. SchedulesFollowSend'
  BY DEF SchedulesFollowSend, authorize
<1> QED BY <1>1, <1>2, <1>3, OutsideKeeps DEF authorize, LedgerOK

LEMMA ActivateKeeps ==
    ASSUME BulkInv, NEW s \in Schedules, activateSchedule(s)
    PROVE  Keeps
<1> USE BulkInvParts
<1>0. /\ Authorized(revision) /\ op.state = "none" /\ schedule[s].state = "none"
      /\ UNCHANGED <<revision, owner, authorization, op, active, event, exec, post, fact>>
  BY DEF activateSchedule
<1>1. /\ schedule' \in [Schedules -> ScheduleRow]
      /\ schedule'[s].state = "active" /\ schedule'[s].revision = revision
      /\ \A z \in Schedules \ {s} :
            /\ schedule'[z].revision = schedule[z].revision
            /\ schedule'[z].state # "active"
            /\ schedule'[z].state = "claimed" => schedule[z].state = "claimed"
  <2>1. revision \in 0..MaxRevision
    BY BulkAssumption DEF OwnerOK, Revisions
  <2> QED BY <2>1 DEF activateSchedule, OwnerOK, ScheduleRow
<1>2. OwnerOK'
  BY <1>0, <1>1 DEF OwnerOK
<1>3. AuthorityInv'
  BY <1>0, <1>1 DEF AuthorityInv, Authorized
<1>4. SchedulesFollowSend'
  BY <1>0, <1>1 DEF SchedulesFollowSend
<1> QED BY <1>0, <1>2, <1>3, <1>4, OutsideKeeps DEF LedgerOK

\* A schedule is cancelled, settled or grows older.
LEMMA OneScheduleKeeps ==
    ASSUME BulkInv, NEW s \in Schedules, NEW x \in ScheduleRow,
           schedule' = [schedule EXCEPT ![s] = x], x.revision = schedule[s].revision,
           x.state = "active" => schedule[s].state = "active", x.state # "claimed",
           UNCHANGED <<revision, owner, authorization, op, active, event, exec, post, fact>>
    PROVE  Keeps
<1> USE BulkInvParts
<1>1. /\ schedule' \in [Schedules -> ScheduleRow] /\ schedule'[s] = x
      /\ \A z \in Schedules \ {s} : schedule'[z] = schedule[z]
  BY DEF OwnerOK
<1>2. OwnerOK'
  BY <1>1 DEF OwnerOK
<1>3. AuthorityInv'
  BY <1>1 DEF AuthorityInv, Authorized
<1>4. SchedulesFollowSend'
  BY <1>1 DEF SchedulesFollowSend
<1> QED BY <1>2, <1>3, <1>4, OutsideKeeps DEF LedgerOK

LEMMA ScheduleStepKeeps ==
    ASSUME BulkInv, NEW s \in Schedules,
           cancelSchedule(s) \/ SettleDueSchedule(s) \/ ScheduleTimePasses(s)
    PROVE  Keeps
<1> USE BulkInvParts
<1>0. schedule \in [Schedules -> ScheduleRow] /\ schedule[s] \in ScheduleRow
  BY DEF OwnerOK
<1>1. CASE cancelSchedule(s)
  <2> DEFINE x == [schedule[s] EXCEPT !.state = "cancelled"]
  <2>1. x \in ScheduleRow /\ x.state = "cancelled" /\ x.revision = schedule[s].revision
    BY <1>0 DEF ScheduleRow
  <2>2. schedule' = [schedule EXCEPT ![s] = x]
    BY <1>0, <1>1 DEF cancelSchedule
  <2> QED BY <1>1, <2>1, <2>2, OneScheduleKeeps DEF cancelSchedule
<1>2. CASE SettleDueSchedule(s)
  <2> DEFINE state == IF schedule[s].time = "late" THEN "missed" ELSE "blocked"
             x == [schedule[s] EXCEPT !.state = state]
  <2>1. /\ x \in ScheduleRow /\ x.state \in {"missed", "blocked"}
        /\ x.revision = schedule[s].revision
    BY <1>0 DEF ScheduleRow
  <2>2. schedule' = [schedule EXCEPT ![s] = x]
    BY <1>0, <1>2 DEF SettleDueSchedule
  <2> QED BY <1>2, <2>1, <2>2, OneScheduleKeeps DEF SettleDueSchedule
<1>3. CASE ScheduleTimePasses(s)
  <2> DEFINE time == IF schedule[s].time = "future" THEN "due" ELSE "late"
             x == [schedule[s] EXCEPT !.time = time]
  <2>1. x \in ScheduleRow /\ x.state = schedule[s].state /\ x.revision = schedule[s].revision
    BY <1>0 DEF ScheduleRow
  <2>2. schedule' = [schedule EXCEPT ![s] = x]
    BY <1>0, <1>3 DEF ScheduleTimePasses
  <2> QED BY <1>3, <2>1, <2>2, OneScheduleKeeps DEF ScheduleTimePasses
<1> QED BY <1>1, <1>2, <1>3

LEMMA LeaveKeeps ==
    ASSUME BulkInv, NEW r \in Recipients, SubscriberLeaves(r)
    PROVE  Keeps
<1> USE BulkInvParts
<1>1. OwnerOK' /\ AuthorityInv' /\ SchedulesFollowSend'
  BY DEF SubscriberLeaves, OwnerOK, AuthorityInv, Authorized, SchedulesFollowSend
<1> QED BY <1>1, OutsideKeeps DEF SubscriberLeaves, LedgerOK

LEMMA NoOperationFields ==
    /\ NoOperation \in Operation
    /\ NoOperation.schedule = None /\ NoOperation.lease = None
    /\ NoOperation.live = FALSE /\ NoOperation.lagged = FALSE /\ NoOperation.proof = FALSE
    /\ NoOperation.snapshot = {} /\ NoOperation.commit = {}
<1>1. 0 \in 0..MaxPosts /\ 0 \in 0..MaxRevision
  BY BulkAssumption
<1> QED BY <1>1 DEF NoOperation, Operation, OpStates

LEMMA SendNowKeeps ==
    ASSUME BulkInv, sendNow
    PROVE  Keeps
<1> USE BulkInvParts
<1> DEFINE o == [NoOperation EXCEPT !.state = "preparing", !.revision = revision]
<1>0. /\ Authorized(revision) /\ op.state = "none" /\ op' = o
      /\ schedule' = CompetingCancelled
      /\ UNCHANGED <<revision, owner, authorization, active, event, exec, post, fact>>
      /\ ~op.proof /\ op.schedule = None
  BY DEF sendNow, RowInv
<1>1. /\ o \in Operation /\ o.state = "preparing" /\ o.revision = revision
      /\ o.schedule = None /\ o.lease = None /\ ~o.live /\ ~o.lagged /\ ~o.proof
      /\ o.snapshot = {} /\ o.commit = {}
  <2>1. revision \in 0..MaxRevision
    BY BulkAssumption DEF OwnerOK, Revisions
  <2> QED BY <2>1, NoOperationFields DEF Operation, OpStates
<1> HIDE DEF o
<1>2. /\ schedule' \in [Schedules -> ScheduleRow]
      /\ \A s \in Schedules :
            schedule'[s].state \notin {"active", "claimed"}
  <2>1. ASSUME NEW s \in Schedules
        PROVE  /\ schedule[s] \in ScheduleRow
               /\ [schedule[s] EXCEPT !.state = "cancelled"] \in ScheduleRow
               /\ [schedule[s] EXCEPT !.state = "cancelled"].state = "cancelled"
    BY DEF OwnerOK, ScheduleRow
  <2>2. ASSUME NEW s \in Schedules
        PROVE  schedule'[s] = IF schedule[s].state = "active" /\ schedule[s].revision = revision
                              THEN [schedule[s] EXCEPT !.state = "cancelled"] ELSE schedule[s]
    BY <1>0 DEF CompetingCancelled
  <2>3. schedule' \in [Schedules -> ScheduleRow]
    BY <1>0, <2>1 DEF CompetingCancelled
  <2>4. \A s \in Schedules : schedule[s].state = "active" => schedule[s].revision = revision
    BY DEF AuthorityInv, Authorized
  <2>5. \A s \in Schedules : schedule[s].state # "claimed"
    BY <1>0, BulkAssumption DEF SchedulesFollowSend
  <2> QED BY <2>1, <2>2, <2>3, <2>4, <2>5
<1>3. BulkTypes'
  BY <1>0, <1>1, <1>2 DEF BulkTypes, OwnerOK, RowOK, ExecOK, LedgerOK, RequestsOK
<1>4. RowInv'
  BY <1>0, <1>1 DEF RowInv, Attempting, uncertain
<1>5. AuthorityInv'
  BY <1>0, <1>1, <1>2 DEF AuthorityInv, Authorized
<1>6. ExecutorsInv'
  <2>1. ASSUME NEW e \in Executors PROVE ExecutorOK(e)'
    <3>1. ExecutorOK(e)
      BY DEF ExecutorsInv
    <3> QED BY <1>0, <1>1, <3>1, BulkAssumption DEF ExecutorOK
  <2> QED BY <2>1 DEF ExecutorsInv
<1>7. ProviderInv'
  BY <1>0, ProviderStays DEF ProviderInv
<1>8. SchedulesFollowSend'
  BY <1>2 DEF SchedulesFollowSend
<1>9. SentWasReached'
  BY <1>0, <1>1 DEF SentWasReached
<1>10. BulkInv'
  BY <1>3, <1>4, <1>5, <1>6, <1>7, <1>8, <1>9, BulkInvWillBe
<1>11. ASSUME OnceInv PROVE OnceInv'
  <2>1. Outstanding = {} /\ Sending = {} /\ Outstanding' = Outstanding /\ Sending' = Sending
        /\ Reported' = Reported
    <3>1. op.state \notin uncertain \cup {"sent"}
      BY <1>0 DEF uncertain
    <3> QED BY <1>0, <1>11, <3>1, NothingOutstanding, OutstandingStays DEF Sending
  <2>2. ASSUME NEW e \in Executors PROVE SteadyOK(e)'
    <3>1. CopyOK(e) /\ SenderOK(e) /\ op'.lease # e
      BY <1>0, <1>1, <1>11, BulkAssumption DEF OnceInv
    <3>2. exec[e].pc # "send" /\ ~(exec[e].pc = "reconcile" /\ exec[e].fresh)
      BY <1>0, <3>1 DEF SenderOK, CopyOK, uncertain
    <3> QED BY <1>0, <2>1, <3>1, <3>2 DEF SteadyOK, SenderOK, AnswerOK, CopyOK, HolderOK
  <2> QED BY <1>0, <1>1, <2>1, <2>2, OnceInvWillBe
<1> QED BY <1>10, <1>11 DEF Keeps

LEMMA ClaimDueKeeps ==
    ASSUME BulkInv, NEW e \in Executors, NEW s \in Schedules, claimDueSchedule(e, s)
    PROVE  Keeps
<1> USE BulkInvParts
<1> DEFINE o == [NoOperation EXCEPT !.state = "preparing", !.schedule = s,
                                    !.revision = schedule[s].revision,
                                    !.lease = e, !.live = TRUE]
           y == ReadRow(o, TRUE)
<1>0. /\ Authorized(schedule[s].revision) /\ op.state = "none" /\ op' = o
      /\ schedule[s].state = "active"
      /\ schedule' = [schedule EXCEPT ![s].state = "claimed"]
      /\ exec' = [exec EXCEPT ![e] = y]
      /\ UNCHANGED <<revision, owner, authorization, active, event, post, fact>>
      /\ ~op.proof /\ op.schedule = None /\ op.lease = None
  BY DEF claimDueSchedule, RowInv
<1>1. /\ o \in Operation /\ o.state = "preparing" /\ o.revision = schedule[s].revision
      /\ o.schedule = s /\ o.lease = e /\ ~o.lagged /\ ~o.proof
      /\ o.snapshot = {} /\ o.commit = {}
  <2>1. schedule[s].revision \in 0..MaxRevision
    BY DEF OwnerOK, ScheduleRow
  <2> QED BY <2>1, NoOperationFields DEF Operation, OpStates
<1> HIDE DEF o
<1>2. y \in Executor /\ y.pc = "claim" /\ y.facts = {} /\ y.owed = None
  <2>1. o.state \notin uncertain \cup {"sent"}
    BY <1>1 DEF uncertain
  <2> QED BY <1>1, <2>1, ReadRowFields
<1> HIDE DEF y
<1>3. /\ exec' \in [Executors -> Executor] /\ exec'[e] = y
      /\ \A f \in Executors \ {e} : exec'[f] = exec[f]
  BY <1>0, <1>2, OneExecutorType DEF ExecOK
<1>4. /\ schedule' \in [Schedules -> ScheduleRow]
      /\ schedule'[s].state = "claimed" /\ schedule'[s].revision = schedule[s].revision
      /\ \A z \in Schedules \ {s} : schedule'[z].state \notin {"active", "claimed"}
  <2>1. schedule \in [Schedules -> ScheduleRow] /\ schedule[s] \in ScheduleRow
    BY DEF OwnerOK
  <2>2. /\ [schedule[s] EXCEPT !.state = "claimed"] \in ScheduleRow
        /\ [schedule[s] EXCEPT !.state = "claimed"].state = "claimed"
        /\ [schedule[s] EXCEPT !.state = "claimed"].revision = schedule[s].revision
    BY <2>1 DEF ScheduleRow
  <2>3. schedule' = [schedule EXCEPT ![s] = [schedule[s] EXCEPT !.state = "claimed"]]
    BY <1>0, <2>1
  <2>4. \A z \in Schedules \ {s} : schedule[z].state \notin {"active", "claimed"}
    BY <1>0, BulkAssumption DEF AuthorityInv, SchedulesFollowSend
  <2> QED BY <2>1, <2>2, <2>3, <2>4
<1>5. BulkTypes'
  BY <1>0, <1>1, <1>3, <1>4 DEF BulkTypes, OwnerOK, RowOK, ExecOK, LedgerOK, RequestsOK
<1>6. RowInv'
  BY <1>0, <1>1 DEF RowInv, Attempting, uncertain
<1>7. AuthorityInv'
  BY <1>0, <1>1, <1>4 DEF AuthorityInv, Authorized
<1>8. ExecutorsInv'
  <2>1. ASSUME NEW f \in Executors \ {e} PROVE ExecutorOK(f)'
    <3>1. ExecutorOK(f) /\ exec'[f] = exec[f]
      BY <1>3 DEF ExecutorsInv
    <3> QED BY <1>0, <1>1, <3>1 DEF ExecutorOK
  <2>2. ExecutorOK(e)'
    BY <1>2, <1>3 DEF ExecutorOK
  <2> QED BY <2>1, <2>2 DEF ExecutorsInv
<1>9. ProviderInv'
  BY <1>0, ProviderStays DEF ProviderInv
<1>10. SchedulesFollowSend'
  BY <1>0, <1>1, <1>4 DEF SchedulesFollowSend
<1>11. SentWasReached'
  BY <1>0, <1>1 DEF SentWasReached
<1>12. BulkInv'
  BY <1>5, <1>6, <1>7, <1>8, <1>9, <1>10, <1>11, BulkInvWillBe
<1>13. ASSUME OnceInv PROVE OnceInv'
  <2>1. Outstanding = {} /\ Sending = {} /\ Outstanding' = Outstanding /\ Reported' = Reported
    <3>1. op.state \notin uncertain \cup {"sent"}
      BY <1>0 DEF uncertain
    <3> QED BY <1>0, <1>13, <3>1, NothingOutstanding, OutstandingStays
  <2>2. Sending' = {}
    BY <1>2, <1>3, <2>1 DEF Sending
  <2>3. ASSUME NEW f \in Executors \ {e} PROVE SteadyOK(f)'
    <3>1. CopyOK(f) /\ SenderOK(f) /\ op'.lease # f /\ exec'[f] = exec[f]
      BY <1>0, <1>1, <1>3, <1>13 DEF OnceInv
    <3>2. exec[f].pc # "send" /\ ~(exec[f].pc = "reconcile" /\ exec[f].fresh)
      BY <1>0, <3>1 DEF SenderOK, CopyOK, uncertain
    <3> QED BY <2>1, <2>2, <3>1, <3>2 DEF SteadyOK, SenderOK, AnswerOK, CopyOK, HolderOK
  <2>4. SteadyOK(e)'
    BY <1>2, <1>3, <2>1, <2>2 DEF SteadyOK, SenderOK, AnswerOK, CopyOK, HolderOK
  <2>5. \A f \in Executors : SteadyOK(f)'
    BY <2>3, <2>4
  <2> QED BY <1>0, <1>1, <2>1, <2>5, OnceInvWillBe
<1> QED BY <1>12, <1>13 DEF Keeps

\* An edit or a lost Owner takes the authority away, and with it the schedules
\* and an operation in preparation.
LEMMA InvalidationKeeps ==
    ASSUME BulkInv, AuthorityInvalidated, revision' \in Revisions, owner' \in BOOLEAN,
           UNCHANGED <<active, event, post, fact>>
    PROVE  Keeps
<1> USE BulkInvParts
<1>1. /\ authorization' \in [Revisions -> {"none", "active", "consumed", "invalidated"}]
      /\ schedule' \in [Schedules -> ScheduleRow]
      /\ \A s \in Schedules : schedule'[s].state \notin {"active", "claimed"}
  <2>1. authorization' \in [Revisions -> {"none", "active", "consumed", "invalidated"}]
    BY DEF AuthorityInvalidated, OwnerOK
  <2>2. ASSUME NEW s \in Schedules
        PROVE  /\ schedule[s] \in ScheduleRow
               /\ [schedule[s] EXCEPT !.state = "blocked"] \in ScheduleRow
               /\ [schedule[s] EXCEPT !.state = "blocked"].state = "blocked"
    BY DEF OwnerOK, ScheduleRow
  <2>3. schedule' = [s \in Schedules |->
           IF schedule[s].state \in {"active", "claimed"}
           THEN [schedule[s] EXCEPT !.state = "blocked"] ELSE schedule[s]]
    BY DEF AuthorityInvalidated
  <2>4. schedule' \in [Schedules -> ScheduleRow]
    BY <2>2, <2>3
  <2>5. ASSUME NEW s \in Schedules PROVE schedule'[s].state \notin {"active", "claimed"}
    BY <2>2, <2>3
  <2> QED BY <2>1, <2>4, <2>5
<1>2. /\ op' \in Operation /\ exec' \in [Executors -> Executor]
      /\ op'.commit = op.commit /\ op'.snapshot = op.snapshot /\ op'.proof = op.proof
      /\ \/ op' = op /\ exec' = exec /\ op.state # "preparing"
         \/ /\ op.state = "preparing" /\ op'.state = "blocked" /\ op'.lease = None /\ ~op'.lagged
            /\ \A e \in Executors : exec'[e] = [exec[e] EXCEPT !.fresh = FALSE]
  <2>1. CASE op.state = "preparing"
    <3> DEFINE o == [op EXCEPT !.state = "blocked", !.lease = None, !.live = FALSE]
    <3>1. /\ o \in Operation /\ o.state = "blocked" /\ o.lease = None
          /\ o.commit = op.commit /\ o.snapshot = op.snapshot /\ o.proof = op.proof
      BY DEF RowOK, Operation, OpStates
    <3>2. op' = Touched(o) /\ exec' = [e \in Executors |-> [exec[e] EXCEPT !.fresh = FALSE]]
      BY <2>1 DEF AuthorityInvalidated, OperationBlocked
    <3>3. \A e \in Executors : [exec[e] EXCEPT !.fresh = FALSE] \in Executor
      BY ZenonT(40) DEF ExecOK, Executor
    <3> QED BY <2>1, <3>1, <3>2, <3>3, TouchedRow
  <2>2. CASE op.state # "preparing"
    BY <2>2 DEF AuthorityInvalidated, OperationBlocked, RowOK, ExecOK
  <2> QED BY <2>1, <2>2
<1>3. op'.state = op.state \/ op'.state = "blocked"
  BY <1>2
<1>4. BulkTypes'
  BY <1>1, <1>2 DEF BulkTypes, OwnerOK, RowOK, ExecOK, LedgerOK, RequestsOK
<1>5. RowInv'
  <2>1. CASE op' = op
    BY <2>1 DEF RowInv
  <2>2. CASE op'.state = "blocked"
    BY <1>2, <2>2 DEF RowInv, Attempting, uncertain
  <2> QED BY <1>2, <2>1, <2>2
<1>6. AuthorityInv'
  <2>1. op'.state # "preparing"
    BY <1>2
  <2> QED BY <1>1, <2>1 DEF AuthorityInv
<1>7. ASSUME NEW e \in Executors PROVE Kept(e) /\ (op'.lease = e => op.lease = e)
  <2>1. CASE exec' = exec /\ op' = op
    BY <2>1 DEF Kept
  <2>2. CASE op'.lease = None /\ exec'[e] = [exec[e] EXCEPT !.fresh = FALSE]
    BY <2>2, BulkAssumption DEF Kept, ExecOK, Executor
  <2> QED BY <1>2, <2>1, <2>2
<1>8. ExecutorsInv'
  BY <1>2, <1>7 DEF ExecutorsInv, ExecutorOK, Kept
<1>9. ProviderInv'
  BY <1>2, ProviderStays DEF ProviderInv
<1>10. SchedulesFollowSend'
  BY <1>1 DEF SchedulesFollowSend
<1>11. SentWasReached'
  BY <1>2, <1>3, SentStays
<1>12. BulkInv'
  BY <1>4, <1>5, <1>6, <1>8, <1>9, <1>10, <1>11, BulkInvWillBe
<1>13. ASSUME OnceInv PROVE OnceInv'
  <2>1. Outstanding' = Outstanding /\ Reported' = Reported
    BY OutstandingStays
  <2>2. Sending' = Sending
    BY <1>7 DEF Sending, Kept
  <2>3. CASE op' = op /\ exec' = exec
    <3>1. \A e \in Executors : SteadyOK(e)'
      BY <1>13, <2>1, <2>2, <2>3
         DEF OnceInv, SteadyOK, SenderOK, AnswerOK, CopyOK, HolderOK
    <3> QED BY <1>13, <2>1, <2>3, <3>1, OnceInvWillBe DEF OnceInv
  <2>4. CASE op.state = "preparing" /\ op'.state = "blocked" /\ op'.lease = None /\ ~op'.lagged
             /\ \A e \in Executors : exec'[e] = [exec[e] EXCEPT !.fresh = FALSE]
    <3>1. ASSUME NEW e \in Executors PROVE SteadyOK(e)'
      <4>1. Kept(e) /\ ~exec'[e].fresh /\ op'.lease # e
        BY ZenonT(40), <1>7, <2>4, BulkAssumption DEF ExecOK, Executor
      <4>2. SenderOK(e) /\ CopyOK(e)
        BY <1>13 DEF OnceInv
      <4> QED BY <2>1, <2>4, <4>1, <4>2
              DEF SteadyOK, SenderOK, AnswerOK, CopyOK, HolderOK, Kept
    <3>2. Outstanding = {}
      BY <1>13, <2>4 DEF OnceInv
    <3> QED BY <2>1, <2>4, <3>1, <3>2, OnceInvWillBe
  <2> QED BY <1>2, <2>3, <2>4
<1> QED BY <1>12, <1>13 DEF Keeps

LEMMA EditKeeps ==
    ASSUME BulkInv, EditCampaign \/ RevokeOwner
    PROVE  Keeps
<1>1. OwnerOK
  BY BulkInvParts
<1>2. CASE EditCampaign
  <2>1. revision' \in Revisions
    BY <1>1, <1>2, BulkAssumption DEF EditCampaign, OwnerOK, Revisions
  <2> QED BY <1>1, <1>2, <2>1, InvalidationKeeps DEF EditCampaign, OwnerOK
<1>3. CASE RevokeOwner
  BY <1>1, <1>3, InvalidationKeeps DEF RevokeOwner, OwnerOK
<1> QED BY <1>2, <1>3

\* The provider moves one request on, which stays for whom it was, and a message
\* more may be known of.
LEMMA ProviderMoves ==
    ASSUME BulkInv, NEW n \in Posts, NEW at \in {"accepted", "reported"},
           post' = [post EXCEPT ![n].state = at],
           post[n].state \in {"wire", "accepted", "reported"},
           post[n].state = "reported" => at = "reported",
           fact \subseteq fact', fact' \subseteq Facts,
           \A f \in fact' \ fact : f[1] = n,
           UNCHANGED <<revision, owner, authorization, schedule, op, active, event, exec>>
    PROVE  Keeps
<1> USE BulkInvParts
<1>1. /\ post' \in [Posts -> Request] /\ post'[n].state = at /\ post'[n].to = post[n].to
      /\ \A m \in Posts \ {n} : post'[m] = post[m]
  BY DEF RequestsOK, Request
<1>2. BulkTypes'
  BY <1>1 DEF BulkTypes, OwnerOK, RowOK, ExecOK, LedgerOK, RequestsOK
<1>3. RowInv' /\ AuthorityInv' /\ SchedulesFollowSend'
  BY DEF RowInv, AuthorityInv, Authorized, SchedulesFollowSend
<1>4. ExecutorsInv'
  <2>1. ASSUME NEW e \in Executors PROVE ExecutorOK(e)'
    <3>1. ExecutorOK(e)
      BY DEF ExecutorsInv
    <3> QED BY <3>1 DEF ExecutorOK
  <2> QED BY <2>1 DEF ExecutorsInv
<1>5. ProviderInv'
  <2>1. \A m \in Posts : post'[m].state # "unused" => op.proof /\ post'[m].to = op.snapshot
    BY <1>1 DEF ProviderInv
  <2>2. \A f \in fact' : post'[f[1]].state \in {"accepted", "reported"}
    <3>1. ASSUME NEW f \in fact PROVE post'[f[1]].state \in {"accepted", "reported"}
      <4>1. post[f[1]].state \in {"accepted", "reported"} /\ f[1] \in Posts
        BY DEF ProviderInv, RequestsOK, Facts
      <4> QED BY <1>1, <4>1
    <3> QED BY <1>1, <3>1
  <2> QED BY <2>1, <2>2 DEF ProviderInv
<1>6. SentWasReached'
  <2>1. \A m \in Posts : Attempted(m)' = Attempted(m)
    BY DEF Attempted
  <2>2. \A m \in Taken : m \in Posts /\ m \in Taken' /\ post'[m].to = post[m].to
    BY <1>1 DEF Taken
  <2> QED BY <2>1, <2>2 DEF SentWasReached
<1>7. BulkInv'
  BY <1>2, <1>3, <1>4, <1>5, <1>6, BulkInvWillBe
<1>8. ASSUME OnceInv PROVE OnceInv'
  <2>1. Outstanding' = Outstanding /\ n \in Outstanding
    BY <1>1 DEF Outstanding
  <2>2. Reported \subseteq Reported'
    BY <1>1 DEF Reported
  <2>3. Sending' = Sending
    BY DEF Sending
  <2>4. \A e \in Executors : SteadyOK(e)'
    BY <1>8, <2>1, <2>2, <2>3 DEF OnceInv, SteadyOK, SenderOK, AnswerOK, CopyOK, HolderOK
  <2> QED BY <1>8, <2>1, <2>2, <2>4, OnceInvWillBe DEF OnceInv
<1> QED BY <1>7, <1>8 DEF Keeps

LEMMA ProviderKeeps ==
    ASSUME BulkInv, Provider
    PROVE  Keeps
<1> USE BulkInvParts
<1>1. ASSUME NEW n \in Posts, Arrive(n) PROVE Keeps
  BY <1>1, ProviderMoves DEF Arrive, RequestsOK
<1>2. ASSUME NEW n \in Posts, ReportAppears(n) PROVE Keeps
  <2>1. post[n].to \subseteq Recipients
    BY DEF RequestsOK, Request
  <2>2. fact' \subseteq Facts /\ \A f \in fact' \ fact : f[1] = n
    BY <1>2, <2>1, BulkAssumption DEF ReportAppears, RequestsOK, Facts
  <2> QED BY <1>2, <2>2, ProviderMoves DEF ReportAppears
<1>3. ASSUME NEW n \in Posts, NEW r \in Recipients, NEW k \in Kinds, FactHappens(n, r, k)
      PROVE  Keeps
  <2>1. fact' \subseteq Facts /\ \A f \in fact' \ fact : f[1] = n
    BY <1>3 DEF FactHappens, RequestsOK, Facts
  <2>2. post' = [post EXCEPT ![n].state = post[n].state]
    BY <1>3 DEF FactHappens, RequestsOK, Request
  <2>3. /\ post[n].state \in {"accepted", "reported"} /\ fact \subseteq fact'
        /\ UNCHANGED <<revision, owner, authorization, schedule, op, active, event, exec>>
    BY <1>3 DEF FactHappens
  <2> QED BY <2>1, <2>2, <2>3, ProviderMoves
<1> QED BY <1>1, <1>2, <1>3 DEF Provider

LEMMA LeaseExpiryKeeps ==
    ASSUME BulkInv, LeaseExpires
    PROVE  Keeps
<1> USE BulkInvParts
<1>1. /\ op' \in Operation /\ ~op'.live
      /\ op'.state = op.state /\ op'.revision = op.revision /\ op'.schedule = op.schedule
      /\ op'.lease = op.lease /\ op'.snapshot = op.snapshot /\ op'.commit = op.commit
      /\ op'.proof = op.proof /\ op'.lagged = op.lagged
      /\ UNCHANGED <<revision, owner, authorization, schedule, active, event, exec, post, fact>>
  BY DEF LeaseExpires, RowOK, Operation
<1>2. BulkTypes'
  BY <1>1 DEF BulkTypes, OwnerOK, RowOK, ExecOK, LedgerOK, RequestsOK
<1>3. RowInv' /\ AuthorityInv' /\ SchedulesFollowSend'
  BY <1>1 DEF RowInv, AuthorityInv, Authorized, SchedulesFollowSend
<1>4. ExecutorsInv' /\ ProviderInv'
  BY <1>1 DEF ExecutorsInv, ExecutorOK, ProviderInv
<1>5. SentWasReached'
  BY <1>1, SentStays
<1>6. BulkInv'
  BY <1>2, <1>3, <1>4, <1>5, BulkInvWillBe
<1>7. ASSUME Orderly, OnceInv PROVE OnceInv'
  <2>1. \A e \in Executors : exec[e].pc \notin {"send", "answer"}
    BY <1>7 DEF LeaseExpires, Orderly
  <2>2. Sending' = Sending
    BY <1>1 DEF Sending
  <2>3. \A e \in Executors : SteadyOK(e)'
    BY <1>1, <1>7, <2>1, <2>2, OutstandingStays
       DEF OnceInv, SteadyOK, SenderOK, AnswerOK, CopyOK, HolderOK
  <2> QED BY <1>1, <1>7, <2>3, OutstandingStays, OnceInvWillBe DEF OnceInv
<1> QED BY <1>6, <1>7 DEF Keeps

LEMMA LagKeeps ==
    ASSUME BulkInv, ReportLagPasses
    PROVE  Keeps
<1> USE BulkInvParts
<1>1. /\ op' \in Operation /\ ~op'.live /\ op'.lagged
      /\ op'.state = op.state /\ op'.revision = op.revision /\ op'.schedule = op.schedule
      /\ op'.lease = op.lease /\ op'.snapshot = op.snapshot /\ op'.commit = op.commit
      /\ op'.proof = op.proof
      /\ UNCHANGED <<revision, owner, authorization, schedule, active, event, post, fact>>
  BY DEF ReportLagPasses, RowOK, Operation
<1>2. /\ \A e \in Executors : exec[e].pc \notin {"send", "answer"}
      /\ \A n \in Posts : post[n].state \notin {"wire", "accepted"}
      /\ exec' = [e \in Executors |->
            IF exec[e].pc = "reconcile" THEN [exec[e] EXCEPT !.lagged = TRUE] ELSE exec[e]]
  BY DEF ReportLagPasses
<1>3. /\ exec' \in [Executors -> Executor]
      /\ \A e \in Executors :
            /\ exec'[e].pc = exec[e].pc /\ exec'[e].state = exec[e].state
            /\ exec'[e].audience = exec[e].audience /\ exec'[e].facts = exec[e].facts
            /\ exec'[e].owed = exec[e].owed /\ exec'[e].post = exec[e].post
            /\ exec'[e].fresh = exec[e].fresh
            /\ exec[e].pc = "reconcile" => exec'[e].lagged
  <2>1. ASSUME NEW e \in Executors
        PROVE  exec[e] \in Executor /\ [exec[e] EXCEPT !.lagged = TRUE] \in Executor
    BY ZenonT(40) DEF ExecOK, Executor
  <2>2. exec' \in [Executors -> Executor]
    BY <1>2, <2>1
  <2>3. ASSUME NEW e \in Executors
        PROVE  /\ exec'[e].pc = exec[e].pc /\ exec'[e].state = exec[e].state
               /\ exec'[e].audience = exec[e].audience /\ exec'[e].facts = exec[e].facts
               /\ exec'[e].owed = exec[e].owed /\ exec'[e].post = exec[e].post
               /\ exec'[e].fresh = exec[e].fresh
               /\ exec[e].pc = "reconcile" => exec'[e].lagged
    <3>1. CASE exec[e].pc = "reconcile"
      <4>1. exec'[e] = [exec[e] EXCEPT !.lagged = TRUE]
        BY <1>2, <3>1
      <4> QED BY <2>1, <4>1 DEF Executor
    <3>2. CASE exec[e].pc # "reconcile"
      BY <1>2, <3>2
    <3> QED BY <3>1, <3>2
  <2> QED BY <2>2, <2>3
<1>4. BulkTypes'
  BY <1>1, <1>3 DEF BulkTypes, OwnerOK, RowOK, ExecOK, LedgerOK, RequestsOK
<1>5. RowInv' /\ AuthorityInv' /\ SchedulesFollowSend'
  BY <1>1 DEF RowInv, AuthorityInv, Authorized, SchedulesFollowSend
<1>6. ExecutorsInv'
  BY <1>1, <1>3 DEF ExecutorsInv, ExecutorOK
<1>7. ProviderInv'
  BY <1>1 DEF ProviderInv
<1>8. SentWasReached'
  BY <1>1, SentStays
<1>9. BulkInv'
  BY <1>4, <1>5, <1>6, <1>7, <1>8, BulkInvWillBe
<1>10. ASSUME OnceInv PROVE OnceInv'
  <2>1. Outstanding' = Outstanding /\ Reported' = Reported /\ Outstanding \subseteq Reported
    BY <1>1, <1>2, OutstandingStays DEF Outstanding, Reported
  <2>2. Sending' = Sending
    BY <1>3 DEF Sending
  <2>3. ASSUME NEW e \in Executors PROVE SteadyOK(e)'
    <3>1. CopyOK(e) /\ HolderOK(e) /\ exec[e].pc \notin {"send", "answer"}
      BY <1>2, <1>10 DEF OnceInv
    <3> QED BY <1>1, <1>3, <2>1, <2>2, <3>1
            DEF SteadyOK, SenderOK, AnswerOK, CopyOK, HolderOK
  <2>4. \A m, n \in Outstanding' : m = n
    BY <1>10, <2>1 DEF OnceInv
  <2>5. op'.state \in {"none", "preparing", "failed", "blocked"} => Outstanding' = {}
    BY <1>1, <1>10, <2>1 DEF OnceInv
  <2> QED BY <1>1, <2>1, <2>3, <2>4, <2>5, OnceInvWillBe
<1> QED BY <1>9, <1>10 DEF Keeps

-----------------------------------------------------------------------------
(* The invariants hold *)

LEMMA StepKeeps ==
    ASSUME BulkInv, NEW e \in Executors, Step(e)
    PROVE  Keeps
  BY ReconcileKeeps, VerifiedKeeps, PolledKeeps, SuppressionKeeps, ConfirmKeeps, ClaimKeeps,
     RefusedKeeps, AudienceKeeps, SnapshotKeeps, ArtifactKeeps, BeginKeeps, ReleaseKeeps,
     SendKeeps, OutcomeKeeps
     DEF Step

LEMMA NextKeeps ==
    ASSUME BulkInv, BulkNext
    PROVE  Keeps
<1>1. ASSUME NEW e \in Executors, execute(e) \/ Step(e) \/ Crash(e) PROVE Keeps
  BY <1>1, ExecuteKeeps, StepKeeps, RefusedKeeps
<1>2. ASSUME NEW s \in Schedules, \/ activateSchedule(s) \/ cancelSchedule(s)
                                  \/ SettleDueSchedule(s) \/ ScheduleTimePasses(s)
      PROVE  Keeps
  BY <1>2, ActivateKeeps, ScheduleStepKeeps
<1>3. ASSUME NEW e \in Executors, NEW s \in Schedules, claimDueSchedule(e, s) PROVE Keeps
  BY <1>3, ClaimDueKeeps
<1>4. ASSUME NEW e \in Executors, NEW f \in fact, ingestVerifiedEvent(e, f) PROVE Keeps
  BY <1>4, WebhookKeeps
<1>5. ASSUME NEW r \in Recipients, SubscriberLeaves(r) PROVE Keeps
  BY <1>5, LeaveKeeps
<1>6. ASSUME authorize \/ sendNow \/ EditCampaign \/ RevokeOwner PROVE Keeps
  BY <1>6, AuthorizeKeeps, SendNowKeeps, EditKeeps
<1>7. ASSUME Provider \/ LeaseExpires \/ ReportLagPasses PROVE Keeps
  BY <1>7, ProviderKeeps, LeaseExpiryKeeps, LagKeeps
<1> QED BY <1>1, <1>2, <1>3, <1>4, <1>5, <1>6, <1>7 DEF BulkNext

LEMMA StutterKeeps ==
    ASSUME BulkInv, UNCHANGED bulkVars
    PROVE  Keeps
<1> USE BulkInvParts
<1>1. OwnerOK' /\ AuthorityInv' /\ SchedulesFollowSend'
  BY DEF bulkVars, OwnerOK, AuthorityInv, Authorized, SchedulesFollowSend
<1> QED BY <1>1, OutsideKeeps DEF bulkVars, LedgerOK

LEMMA InitHolds ==
    ASSUME BulkInit
    PROVE  BulkInv /\ OnceInv
<1>1. BulkTypes
  <2>1. /\ 1 \in Revisions /\ NoOperation \in Operation /\ IdleExecutor \in Executor
        /\ [state |-> "none", revision |-> 0, time |-> "future"] \in ScheduleRow
        /\ [state |-> "unused", to |-> {}] \in Request
    BY BulkAssumption, NoOperationFields, IdleFields DEF Revisions, ScheduleRow, Request
  <2> QED BY <2>1 DEF BulkInit, BulkTypes, OwnerOK, RowOK, ExecOK, LedgerOK, RequestsOK
<1>2. RowInv
  BY NoOperationFields DEF BulkInit, RowInv, Attempting, uncertain, NoOperation
<1>3. AuthorityInv /\ SchedulesFollowSend
  BY DEF BulkInit, AuthorityInv, SchedulesFollowSend, NoOperation
<1>4. ExecutorsInv /\ ProviderInv
  BY IdleFields DEF BulkInit, ExecutorsInv, ExecutorOK, ProviderInv
<1>5. SentWasReached
  BY DEF BulkInit, SentWasReached, NoOperation
<1>6. OnceInv
  BY NoOperationFields, IdleFields
     DEF BulkInit, OnceInv, Outstanding, SenderOK, AnswerOK, CopyOK, HolderOK
<1> QED BY <1>1, <1>2, <1>3, <1>4, <1>5, <1>6, BulkTypesAre DEF BulkInv

\* What every delivery keeps.
THEOREM BulkInvariant == BulkSpec => []BulkInv
<1>1. BulkInit => BulkInv
  BY InitHolds
<1>2. BulkInv /\ [BulkNext]_bulkVars => BulkInv'
  BY NextKeeps, StutterKeeps DEF Keeps
<1> QED BY <1>1, <1>2, PTL DEF BulkSpec

\* What a delivery keeps that nobody overtakes.
LEMMA OnceInvariant ==
    ASSUME Orderly
    PROVE  BulkSpec => []OnceInv
<1>1. BulkInit => BulkInv /\ OnceInv
  BY InitHolds
<1>2. BulkInv /\ OnceInv /\ [BulkNext]_bulkVars => (BulkInv /\ OnceInv)'
  BY NextKeeps, StutterKeeps DEF Keeps
<1> QED BY <1>1, <1>2, PTL DEF BulkSpec

-----------------------------------------------------------------------------
(* The steps the promise can see *)

\* Nothing of a step shows in the promise.
RowQuiet ==
    /\ op'.proof = op.proof /\ (op.proof => op'.snapshot = op.snapshot)
    /\ op'.state = "sent" <=> op.state = "sent"

Confirms(e) ==
    /\ confirmProviderAcceptance(e)
    /\ op.state # "sent" /\ op'.state = "sent" /\ op.proof
    /\ op'.proof = op.proof /\ op'.snapshot = op.snapshot
    /\ Taken # {}

Begins(e) == beginProviderAttempt(e) /\ BeginPermits(e)

LEMMA LeavingIsQuiet ==
    ASSUME BulkInv, NEW e \in Executors, op' \in {op, LeaseAfter(e)}
    PROVE  RowQuiet
  BY BulkInvParts, LeftRow DEF RowQuiet

LEMMA WritingIsQuiet ==
    ASSUME BulkInv, NEW e \in Executors,
           \/ recordVerified(e) \/ claimOperation(e) \/ saveAudienceSnapshot(e)
           \/ recordArtifactPublication(e) \/ releaseLease(e) \/ recordProviderOutcome(e)
    PROVE  RowQuiet
<1> USE BulkInvParts
<1>1. CASE op' \in {op, LeaseAfter(e)}
  BY <1>1, LeavingIsQuiet
<1>2. op \in Operation
  BY DEF RowOK
<1>3. ASSUME NEW o \in Operation, op' = Touched(o), o.proof = op.proof,
             op.proof => o.snapshot = op.snapshot, o.state = "sent" <=> op.state = "sent"
      PROVE  RowQuiet
  BY <1>3, TouchedRow DEF RowQuiet
<1>4. CASE recordVerified(e)
  <2> DEFINE state == IF op.state = "attempting" THEN "ambiguous" ELSE op.state
             o == [op EXCEPT !.state = state, !.verified = exec[e].post,
                             !.lease = None, !.live = FALSE]
  <2>1. CASE op.state \in uncertain /\ op' = Touched(o)
    <3>1. state \in uncertain
      BY <2>1 DEF uncertain
    <3>2. exec[e].post \in 0..MaxPosts
      BY ExecutorFields
    <3> HIDE DEF state
    <3>3. /\ o \in Operation /\ o.proof = op.proof /\ o.snapshot = op.snapshot
          /\ o.state \in uncertain
      BY <1>2, <3>1, <3>2 DEF Operation, OpStates, uncertain
    <3> QED BY <1>3, <2>1, <3>3 DEF uncertain
  <2> QED BY <1>1, <1>2, <1>4, <2>1 DEF recordVerified, Finish, Operation
<1>5. CASE claimOperation(e)
  <2> DEFINE state == IF op.state \in {"failed", "blocked"} THEN "preparing" ELSE op.state
             o == [op EXCEPT !.state = state, !.lease = e, !.live = TRUE]
  <2>1. op.state # "sent" /\ state \in OpStates \ {"sent"}
    BY <1>2, <1>5 DEF claimOperation, ClaimPermits, OpStates, Operation
  <2>2. op' = Touched(o)
    BY <1>2, <1>5 DEF claimOperation, Operation
  <2> HIDE DEF state
  <2>3. /\ o \in Operation /\ o.proof = op.proof /\ o.snapshot = op.snapshot /\ o.state = state
    BY <1>2, <2>1 DEF Operation
  <2> QED BY <1>3, <2>1, <2>2, <2>3
<1>6. CASE saveAudienceSnapshot(e)
  <2> DEFINE commit == CommitFor(exec[e].audience)
             o == [op EXCEPT !.snapshot = exec[e].audience, !.commit = commit]
  <2>1. CASE ~op.proof /\ op' = Touched(o)
    <3>1. commit \in SUBSET Recipients /\ exec[e].audience \in SUBSET Recipients
      BY <1>2, ExecutorFields DEF CommitFor, Operation
    <3> HIDE DEF commit
    <3>2. o \in Operation /\ o.proof = op.proof /\ o.state = op.state
      BY <1>2, <3>1 DEF Operation
    <3> QED BY <1>3, <2>1, <3>2
  <2> QED BY <1>1, <1>6, <2>1 DEF saveAudienceSnapshot, Throw
<1>7. CASE recordArtifactPublication(e)
  <2>1. CASE op' = Touched([op EXCEPT !.commit = exec[e].audience])
    <3> DEFINE o == [op EXCEPT !.commit = exec[e].audience]
    <3>1. o \in Operation /\ o.proof = op.proof /\ o.state = op.state /\ o.snapshot = op.snapshot
      BY <1>2, ExecutorFields DEF Operation
    <3> HIDE DEF o
    <3>2. op' = Touched(o)
      BY <2>1 DEF o
    <3> QED BY <1>3, <3>1, <3>2
  <2>2. ASSUME op.state = "preparing", NEW state \in UncommittedStates,
               op' = Touched([op EXCEPT !.state = state, !.lease = None, !.live = FALSE])
        PROVE  RowQuiet
    <3> DEFINE o == [op EXCEPT !.state = state, !.lease = None, !.live = FALSE]
    <3>1. /\ o \in Operation /\ o.proof = op.proof /\ o.snapshot = op.snapshot
          /\ o.state # "sent" /\ op.state # "sent"
      BY <1>2, <2>2 DEF Operation, OpStates, UncommittedStates
    <3> HIDE DEF o
    <3>2. op' = Touched(o)
      BY <2>2 DEF o
    <3> QED BY <1>3, <3>1, <3>2
  <2> QED BY <1>1, <1>7, <2>1, <2>2 DEF recordArtifactPublication, Throw
<1>8. CASE releaseLease(e)
  <2> DEFINE o == [op EXCEPT !.lease = None, !.live = FALSE]
  <2>1. CASE op' = Touched(o)
    <3>1. o \in Operation /\ o.proof = op.proof /\ o.state = op.state /\ o.snapshot = op.snapshot
      BY <1>2 DEF Operation
    <3> QED BY <1>3, <2>1, <3>1
  <2> QED BY <1>1, <1>8, <2>1 DEF releaseLease, Finish
<1>9. CASE recordProviderOutcome(e)
  <2> DEFINE state == AnsweredState(exec[e].answer)
             o == [op EXCEPT !.state = state, !.lease = None, !.live = FALSE]
  <2>1. CASE op.state = "attempting" /\ op' = Touched(o)
    <3>1. state \in {"provider_queued", "ambiguous", "failed"}
      BY DEF AnsweredState
    <3> HIDE DEF state
    <3>2. /\ o \in Operation /\ o.proof = op.proof /\ o.snapshot = op.snapshot
          /\ o.state # "sent"
      BY <1>2, <3>1 DEF Operation, OpStates
    <3> QED BY <1>3, <2>1, <3>2
  <2> QED BY <1>1, <1>9, <2>1 DEF recordProviderOutcome, Throw
<1> QED BY <1>4, <1>5, <1>6, <1>7, <1>8, <1>9

\* A confirmation is of a campaign the provider took over.
LEMMA ConfirmIsReport ==
    ASSUME BulkInv, NEW e \in Executors, confirmProviderAcceptance(e)
    PROVE  RowQuiet \/ Confirms(e)
<1> USE BulkInvParts
<1>1. CASE op' \in {op, LeaseAfter(e)}
  BY <1>1, LeavingIsQuiet
<1> DEFINE o == [op EXCEPT !.state = "sent", !.lease = None, !.live = FALSE]
<1>2. CASE op' = Touched(o) /\ op.state \in {"ambiguous", "provider_queued"}
           /\ EvidenceComplete(exec[e].post)
  <2>1. o \in Operation /\ o.proof = op.proof /\ o.snapshot = op.snapshot /\ o.state = "sent"
    BY DEF RowOK, Operation, OpStates
  <2> HIDE DEF o
  <2>2. op'.proof = op.proof /\ op'.snapshot = op.snapshot /\ op'.state = "sent"
    BY <1>2, <2>1, TouchedRow
  <2>3. BulkInv'
    BY ConfirmKeeps DEF Keeps
  <2>4. Taken' # {} /\ UNCHANGED post
    BY <2>2, <2>3 DEF BulkInv, SentWasReached, confirmProviderAcceptance
  <2>5. Taken # {} /\ op.proof /\ op.state # "sent"
    BY <1>2, <2>4, OutstandingStays DEF EvidenceComplete
  <2> QED BY <2>2, <2>5 DEF Confirms
<1> QED BY <1>1, <1>2 DEF confirmProviderAcceptance, Finish

\* Every step is one of these.
LEMMA VisibleSteps ==
    ASSUME BulkInv, BulkNext
    PROVE  \/ RowQuiet /\ UNCHANGED post
           \/ \E e \in Executors : Begins(e) \/ sendBulk(e) \/ Confirms(e)
           \/ Provider
<1> USE BulkInvParts
<1> DEFINE quiet == RowQuiet /\ UNCHANGED post
<1>0. UNCHANGED op => RowQuiet
  BY DEF RowQuiet
<1>1. ASSUME NEW e \in Executors, execute(e) \/ Step(e) \/ Crash(e)
      PROVE  quiet \/ Begins(e) \/ sendBulk(e) \/ Confirms(e)
  <2>1. CASE execute(e) \/ resolveAudience(e) \/ applyProviderSuppression(e)
    BY <1>0, <2>1 DEF execute, resolveAudience, applyProviderSuppression
  <2>2. CASE reconcileBulk(e) \/ ClaimRefused(e) \/ Crash(e) \/ recordPolledFact(e)
    BY <2>2, LeavingIsQuiet
       DEF reconcileBulk, ClaimRefused, Crash, recordPolledFact, Finish
  <2>3. CASE \/ recordVerified(e) \/ claimOperation(e) \/ saveAudienceSnapshot(e)
             \/ recordArtifactPublication(e) \/ releaseLease(e) \/ recordProviderOutcome(e)
    <3>1. UNCHANGED post
      BY <2>3 DEF recordVerified, claimOperation, saveAudienceSnapshot,
                  recordArtifactPublication, releaseLease, recordProviderOutcome
    <3> QED BY <2>3, <3>1, WritingIsQuiet
  <2>4. CASE confirmProviderAcceptance(e)
    BY <2>4, ConfirmIsReport DEF confirmProviderAcceptance
  <2>5. CASE beginProviderAttempt(e)
    BY <2>5, LeavingIsQuiet DEF beginProviderAttempt, Throw, Begins
  <2>6. CASE sendBulk(e)
    BY <2>6
  <2> QED BY <1>1, <2>1, <2>2, <2>3, <2>4, <2>5, <2>6 DEF Step
<1>2. ASSUME NEW s \in Schedules, \/ activateSchedule(s) \/ cancelSchedule(s)
                                  \/ SettleDueSchedule(s) \/ ScheduleTimePasses(s)
      PROVE  quiet
  BY <1>0, <1>2 DEF activateSchedule, cancelSchedule, SettleDueSchedule, ScheduleTimePasses
<1>3. ASSUME NEW e \in Executors, NEW s \in Schedules, claimDueSchedule(e, s) PROVE quiet
  <2>1. op.state = "none" /\ ~op.proof /\ UNCHANGED post
    BY <1>3 DEF claimDueSchedule, RowInv
  <2>2. op'.state = "preparing" /\ op'.proof = FALSE
    BY <1>3 DEF claimDueSchedule, NoOperation
  <2> QED BY <2>1, <2>2, RowFields DEF RowQuiet
<1>4. ASSUME NEW e \in Executors, NEW f \in fact, ingestVerifiedEvent(e, f) PROVE quiet
  BY <1>0, <1>4 DEF ingestVerifiedEvent
<1>5. ASSUME NEW r \in Recipients, SubscriberLeaves(r) PROVE quiet
  BY <1>0, <1>5 DEF SubscriberLeaves
<1>6. ASSUME authorize PROVE quiet
  BY <1>0, <1>6 DEF authorize
<1>7. ASSUME sendNow PROVE quiet
  <2>1. op.state = "none" /\ ~op.proof /\ UNCHANGED post
    BY <1>7 DEF sendNow, RowInv
  <2>2. op'.state = "preparing" /\ op'.proof = FALSE
    BY <1>7 DEF sendNow, NoOperation
  <2> QED BY <2>1, <2>2, RowFields DEF RowQuiet
<1>8. ASSUME EditCampaign \/ RevokeOwner PROVE quiet
  <2> DEFINE o == [op EXCEPT !.state = "blocked", !.lease = None, !.live = FALSE]
  <2>1. UNCHANGED post /\ OperationBlocked
    BY <1>8 DEF EditCampaign, RevokeOwner, AuthorityInvalidated
  <2>2. CASE op.state = "preparing"
    <3>1. o \in Operation /\ o.proof = op.proof /\ o.snapshot = op.snapshot /\ o.state = "blocked"
      BY DEF RowOK, Operation, OpStates
    <3>2. op' = Touched(o)
      BY <2>1, <2>2 DEF OperationBlocked
    <3> QED BY <2>1, <2>2, <3>1, <3>2, TouchedRow DEF RowQuiet
  <2>3. CASE op.state # "preparing"
    BY <1>0, <2>1, <2>3 DEF OperationBlocked
  <2> QED BY <2>2, <2>3
<1>9. ASSUME LeaseExpires \/ ReportLagPasses PROVE quiet
  BY <1>9 DEF LeaseExpires, ReportLagPasses, RowQuiet, RowOK, Operation
<1> QED BY <1>1, <1>2, <1>3, <1>4, <1>5, <1>6, <1>7, <1>8, <1>9 DEF BulkNext

-----------------------------------------------------------------------------
(* The theorems about every delivery *)

\* The row, the executors and the provider keep their types.
THEOREM BulkTypeCorrect == BulkSpec => []BulkTypeOK
<1>1. BulkInv => BulkTypeOK
  BY DEF BulkInv
<1> QED BY <1>1, BulkInvariant, PTL

\* Whatever executors repeat the preparation, the artifact in Git is that of the
\* audience in the row.
THEOREM ArtifactIsOfAudience == BulkSpec => []CommittedAudienceIsSnapshot
<1>1. BulkInv => CommittedAudienceIsSnapshot
  BY DEF BulkInv, RowInv, CommittedAudienceIsSnapshot
<1> QED BY <1>1, BulkInvariant, PTL

\* No schedule is active beside a send, and none is claimed without its
\* operation.
THEOREM SchedulesFollow == BulkSpec => []SchedulesFollowSend
<1>1. BulkInv => SchedulesFollowSend
  BY DEF BulkInv
<1> QED BY <1>1, BulkInvariant, PTL

\* What is called sent was taken over for its audience and attempted in full.
THEOREM SentMeansReached == BulkSpec => []SentWasReached
<1>1. BulkInv => SentWasReached
  BY DEF BulkInv
<1> QED BY <1>1, BulkInvariant, PTL

\* A first attempt is opened by the step that opens attempts.
LEMMA FirstAttemptBegins ==
    ASSUME BulkInv, BulkNext, ~op.proof, op'.proof
    PROVE  \E e \in Executors : Begins(e) /\ op'.snapshot = op.snapshot
<1>1. ~RowQuiet
  BY BulkInvParts, RowFields DEF RowQuiet
<1>2. ~Provider
  BY DEF Provider, Arrive, ReportAppears, FactHappens
<1>3. PICK e \in Executors : Begins(e) \/ sendBulk(e) \/ Confirms(e)
  BY <1>1, <1>2, VisibleSteps
<1>4. Begins(e)
  BY <1>3 DEF sendBulk, Confirms
<1>5. op'.snapshot = op.snapshot
  <2>1. op' = Touched([op EXCEPT !.state = "attempting", !.proof = TRUE])
    BY <1>4 DEF Begins, beginProviderAttempt
  <2> QED BY <2>1, BulkInvParts DEF Touched, RowOK, Operation
<1> QED BY <1>4, <1>5

\* The Owner's authority stands when the first attempt is opened, although the
\* step does not ask for it.
THEOREM FirstAttemptsHaveAuthority == BulkSpec => FirstAttemptAuthorized
<1>1. ASSUME BulkInv, BulkNext, ~op.proof, op'.proof PROVE Authorized(op.revision)
  <2>1. PICK e \in Executors : Begins(e)
    BY <1>1, FirstAttemptBegins
  <2>2. op.state \in {"preparing", "attempting", "ambiguous"}
    BY <2>1 DEF Begins, BeginPermits
  <2>3. op.state = "preparing"
    BY <1>1, <2>2, BulkInvParts DEF RowInv, Attempting, uncertain
  <2> QED BY <1>1, <2>3, BulkInvParts DEF AuthorityInv
<1>2. BulkInv /\ [BulkNext]_bulkVars
        => [~op.proof /\ op'.proof => Authorized(op.revision)]_bulkVars
  BY <1>1
<1> QED BY <1>2, BulkInvariant, PTL DEF BulkSpec, FirstAttemptAuthorized

\* Nobody who left before the first attempt is on its list.
THEOREM SuppressionsWin == BulkSpec => SuppressionWins
<1>1. ASSUME BulkInv, BulkNext, ~op.proof, op'.proof PROVE op.snapshot \subseteq active
  BY <1>1, FirstAttemptBegins DEF Begins, BeginPermits
<1>2. BulkInv /\ [BulkNext]_bulkVars
        => [~op.proof /\ op'.proof => op.snapshot \subseteq active]_bulkVars
  BY <1>1
<1> QED BY <1>2, BulkInvariant, PTL DEF BulkSpec, SuppressionWins

-----------------------------------------------------------------------------
(* The theorems about a delivery nobody overtakes *)

\* No request leaves while an earlier one is under way or was taken over: the
\* rule of the repository's lifecycle document that campaign_resend refutes
\* where executors overtake one another.
THEOREM ResendsProveAbsence ==
    ASSUME Orderly
    PROVE  BulkSpec => ResendProvesAbsence
<1>1. ASSUME BulkInv, OnceInv, BulkNext,
             NEW n \in Posts, post[n].state = "unused", post'[n].state # "unused"
      PROVE  \A o \in Posts : post[o].state \in {"unused", "gone"}
  <2>1. ~Provider
    <3>1. ASSUME NEW m \in Posts, Arrive(m) \/ ReportAppears(m) PROVE FALSE
      BY <1>1, <3>1, BulkInvParts DEF Arrive, ReportAppears, RequestsOK
    <3>2. \A m \in Posts, r \in Recipients, k \in Kinds : ~FactHappens(m, r, k)
      BY <1>1 DEF FactHappens
    <3> QED BY <3>1, <3>2 DEF Provider
  <2>2. ~UNCHANGED post
    BY <1>1
  <2>3. PICK e \in Executors : sendBulk(e)
    BY <1>1, <2>1, <2>2, VisibleSteps DEF Begins, beginProviderAttempt,
       Confirms, confirmProviderAcceptance
  <2>4. Outstanding = {}
    BY <1>1, <2>3 DEF sendBulk, OnceInv, SenderOK
  <2> QED BY <2>4, <1>1, BulkInvParts DEF Outstanding, RequestsOK, Request
<1>2. BulkInv /\ OnceInv /\ [BulkNext]_bulkVars
        => [\A n \in Posts : post[n].state = "unused" /\ post'[n].state # "unused"
              => \A o \in Posts : post[o].state \in {"unused", "gone"}]_bulkVars
  BY <1>1
<1> QED BY <1>2, BulkInvariant, OnceInvariant, PTL DEF BulkSpec, ResendProvesAbsence

\* What the promise sees of the state.
Audience == IF op.proof THEN op.snapshot ELSE {}
Handed == UNION {post[n].to : n \in Taken}

\* A step that shows nothing is a stutter of the promise.
LEMMA QuietIsStutter ==
    ASSUME RowQuiet, Taken' = Taken, \A n \in Taken : post'[n].to = post[n].to
    PROVE  UNCHANGED Once!sendVars
<1>1. Audience' = Audience
  BY DEF RowQuiet, Audience
<1>2. Handed' = Handed
  BY DEF Handed
<1>3. Cardinality(Taken)' = Cardinality(Taken)
  OBVIOUS
<1>4. (op.state = "sent")' <=> (op.state = "sent")
  BY DEF RowQuiet
<1> QED BY <1>1, <1>2, <1>3, <1>4 DEF Once!sendVars, Audience, Handed

\* The first request taken over is the promise's one.
LEMMA TakingIsTake ==
    ASSUME BulkInv, UNCHANGED op, op.proof, Taken = {}, NEW n \in Posts, Taken' = {n},
           post'[n].to = op.snapshot
    PROVE  Once!Take
<1>1. Audience = op.snapshot /\ Audience # {} /\ Audience' = Audience
  BY BulkInvParts DEF Audience, RowInv
<1>2. Cardinality(Taken) = 0 /\ Cardinality(Taken)' = 1
  BY FS_EmptySet, FS_Singleton
<1>3. Handed' = op.snapshot
  BY DEF Handed
<1>4. (op.state = "sent")' <=> (op.state = "sent")
  OBVIOUS
<1> QED BY <1>1, <1>2, <1>3, <1>4 DEF Once!Take, Audience, Handed

LEMMA TakenIsOutstanding == Taken \subseteq Outstanding
  BY DEF Taken, Outstanding

LEMMA ProviderIsPromised ==
    ASSUME BulkInv, OnceInv, Provider
    PROVE  Once!Take \/ UNCHANGED Once!sendVars
<1> USE BulkInvParts
<1>0. UNCHANGED op /\ RowQuiet
  BY DEF Provider, Arrive, ReportAppears, FactHappens, RowQuiet
<1>1. ASSUME NEW n \in Posts, Arrive(n) PROVE Once!Take
  <2>1. /\ post' \in [Posts -> Request]
        /\ post'[n].state = "accepted" /\ post'[n].to = post[n].to
        /\ \A m \in Posts \ {n} : post'[m] = post[m]
    BY <1>1 DEF Arrive, RequestsOK, Request
  <2>2. n \in Outstanding /\ n \notin Taken /\ op.proof /\ post[n].to = op.snapshot
    BY <1>1 DEF Arrive, Outstanding, Taken, ProviderInv
  <2>3. Taken = {}
    BY <2>2, TakenIsOutstanding DEF OnceInv
  <2>4. Taken' = {n}
    BY <2>1, <2>3 DEF Taken
  <2> QED BY <1>0, <2>1, <2>2, <2>3, <2>4, TakingIsTake
<1>2. ASSUME NEW n \in Posts, ReportAppears(n) PROVE UNCHANGED Once!sendVars
  <2>1. /\ post' \in [Posts -> Request] /\ post[n].state = "accepted"
        /\ post'[n].state = "reported" /\ post'[n].to = post[n].to
        /\ \A m \in Posts \ {n} : post'[m] = post[m]
    BY <1>2 DEF ReportAppears, RequestsOK, Request
  <2>2. Taken' = Taken /\ \A m \in Taken : post'[m].to = post[m].to
    BY <2>1 DEF Taken
  <2> QED BY <1>0, <2>2, QuietIsStutter
<1>3. ASSUME NEW n \in Posts, NEW r \in Recipients, NEW k \in Kinds, FactHappens(n, r, k)
      PROVE  UNCHANGED Once!sendVars
  <2>1. UNCHANGED post
    BY <1>3 DEF FactHappens
  <2> QED BY <1>0, <2>1, OutstandingStays, QuietIsStutter
<1> QED BY <1>1, <1>2, <1>3 DEF Provider

LEMMA SendIsPromised ==
    ASSUME BulkInv, OnceInv, NEW e \in Executors, sendBulk(e)
    PROVE  Once!Take \/ UNCHANGED Once!sendVars
<1> USE BulkInvParts
<1>0. UNCHANGED op /\ RowQuiet
  BY DEF sendBulk, RowQuiet
<1>1. PICK n \in Posts, at \in {"accepted", "gone", "wire"},
           answer \in {"accepted", "ambiguous", "rejected"} : SendsTo(e, n, at, answer)
  BY SendIs
<1>2. op.proof /\ exec[e].audience = op.snapshot /\ Taken = {}
  BY <1>1, TakenIsOutstanding DEF SendsTo, ExecutorsInv, ExecutorOK, OnceInv, SenderOK
<1>3. /\ post'[n].state = at /\ post'[n].to = op.snapshot
      /\ \A m \in Posts \ {n} : post'[m] = post[m]
  BY <1>1, <1>2 DEF SendsTo, RequestsOK
<1>4. CASE at = "accepted"
  <2>1. Taken' = {n}
    BY <1>2, <1>3, <1>4 DEF Taken
  <2> QED BY <1>0, <1>2, <1>3, <2>1, TakingIsTake
<1>5. CASE at # "accepted"
  <2>1. Taken' = Taken
    BY <1>2, <1>3, <1>5 DEF Taken
  <2> QED BY <1>0, <1>2, <2>1, QuietIsStutter
<1> QED BY <1>4, <1>5

LEMMA BeginIsPromised ==
    ASSUME BulkInv, NEW e \in Executors, Begins(e)
    PROVE  Once!Open \/ UNCHANGED Once!sendVars
<1> USE BulkInvParts
<1> DEFINE o == [op EXCEPT !.state = "attempting", !.proof = TRUE]
<1>1. o \in Operation /\ o.proof /\ o.state = "attempting" /\ o.snapshot = op.snapshot
  BY DEF RowOK, Operation, OpStates
<1>2. op' = Touched(o) /\ UNCHANGED post /\ op.commit # {} /\ op.state # "sent"
  BY DEF Begins, beginProviderAttempt, BeginPermits
<1> HIDE DEF o
<1>3. op'.proof /\ op'.state = "attempting" /\ op'.snapshot = op.snapshot
  BY <1>1, <1>2, TouchedRow
<1>4. Taken' = Taken /\ Handed' = Handed
  BY <1>2, OutstandingStays DEF Handed
<1>5. CASE op.proof
  <2>1. RowQuiet
    BY <1>2, <1>3, <1>5 DEF RowQuiet
  <2> QED BY <1>2, <1>4, <2>1, QuietIsStutter
<1>6. CASE ~op.proof
  <2>1. Audience = {} /\ Audience' = op.snapshot
    BY <1>3, <1>6 DEF Audience
  <2>2. op.snapshot \in (SUBSET Recipients) \ {{}}
    BY <1>2, RowFields DEF RowInv
  <2>3. Cardinality(Taken)' = Cardinality(Taken)
    BY <1>4
  <2>4. (op.state = "sent")' <=> (op.state = "sent")
    BY <1>2, <1>3
  <2> QED BY <1>4, <2>1, <2>2, <2>3, <2>4 DEF Once!Open, Audience, Handed
<1> QED BY <1>5, <1>6

LEMMA ConfirmIsPromised ==
    ASSUME BulkInv, OnceInv, NEW e \in Executors, Confirms(e)
    PROVE  Once!Report
<1>1. UNCHANGED post /\ op.proof /\ op'.proof = op.proof /\ op'.snapshot = op.snapshot
      /\ op.state # "sent" /\ op'.state = "sent" /\ Taken # {}
  BY DEF Confirms, confirmProviderAcceptance
<1>2. PICK n \in Taken : Taken = {n}
  BY <1>1, TakenIsOutstanding DEF OnceInv
<1>3. Taken' = Taken /\ Handed' = Handed
  BY <1>1, OutstandingStays DEF Handed
<1>4. Cardinality(Taken) = 1
  BY <1>2, FS_Singleton
<1>5. Audience' = Audience
  BY <1>1 DEF Audience
<1>6. (op.state = "sent")' /\ ~(op.state = "sent")
  BY <1>1
<1>7. Cardinality(Taken)' = Cardinality(Taken)
  BY <1>3
<1> QED BY <1>3, <1>5, <1>6, <1>7, <1>4 DEF Once!Report, Audience, Handed

\* The delivery implements the promise of CampaignSendOnce: every step is one of
\* its steps or shows nothing.
THEOREM DeliverySendsOnce ==
    ASSUME Orderly
    PROVE  BulkSpec => SendsOnce
<1>1. BulkInit => Once!SendInit
  <2> SUFFICES ASSUME BulkInit PROVE Once!SendInit
    OBVIOUS
  <2>1. op = NoOperation /\ Taken = {}
    BY DEF BulkInit, Taken
  <2>2. Cardinality(Taken) = 0 /\ ~op.proof /\ op.state # "sent" /\ Handed = {}
    BY <2>1, NoOperationFields, FS_EmptySet DEF NoOperation, Handed
  <2> QED BY <2>2 DEF Once!SendInit, Handed
<1>2. ASSUME BulkInv, OnceInv, BulkNext PROVE Once!SendNext \/ UNCHANGED Once!sendVars
  <2>1. ASSUME RowQuiet, UNCHANGED post PROVE UNCHANGED Once!sendVars
    BY <2>1, OutstandingStays, QuietIsStutter
  <2>2. ASSUME NEW e \in Executors, Begins(e) \/ sendBulk(e) \/ Confirms(e)
        PROVE  Once!SendNext \/ UNCHANGED Once!sendVars
    BY <1>2, <2>2, BeginIsPromised, SendIsPromised, ConfirmIsPromised DEF Once!SendNext
  <2>3. ASSUME Provider PROVE Once!SendNext \/ UNCHANGED Once!sendVars
    BY <1>2, <2>3, ProviderIsPromised DEF Once!SendNext
  <2> QED BY <1>2, <2>1, <2>2, <2>3, VisibleSteps
<1>3. ASSUME BulkInv, UNCHANGED bulkVars PROVE UNCHANGED Once!sendVars
  BY <1>3, OutstandingStays, QuietIsStutter DEF bulkVars, RowQuiet
<1>4. BulkInv /\ OnceInv /\ [BulkNext]_bulkVars => [Once!SendNext]_Once!sendVars
  BY <1>2, <1>3
<1> QED BY <1>1, <1>4, BulkInvariant, OnceInvariant, PTL
        DEF BulkSpec, SendsOnce, Once!SendSpec
=============================================================================
