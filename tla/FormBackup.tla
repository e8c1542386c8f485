----------------------------- MODULE FormBackup -----------------------------
(***************************************************************************)
(* The daily encrypted backup of the forms and its restore into an         *)
(* isolated database.                                                      *)
(*                                                                         *)
(* Backup runs overlap.  A lease in the primary database fences a run, the *)
(* object of every run has a key of its own, and one record points to the  *)
(* object that counts.  Operators restore from their own machines: a       *)
(* snapshot is staged, compared, promoted into the empty target together   *)
(* with its verification, mirrored to the primary database and cleared.    *)
(* Every call may end between two steps.                                   *)
(***************************************************************************)
EXTENDS Integers, FiniteSets, FiniteSetsExt

CONSTANTS
    Runs,        \* runs of the backup maintenance; each makes one lease token
    Operators,   \* invocations of the restore command
    BackupDays,  \* days a backup is kept
    MaxDay       \* bound: days that pass

ASSUME BackupAssumption == BackupDays \in Nat

Nothing == "nothing"
Initial == -1          \* the checkpoint before the first backup

VARIABLES
    day,       \* today
    records,   \* public_form_backup_records
    claim,     \* the row of public_form_backup_claims
    objects,   \* the bucket
    run,       \* what each run has read
    stage,     \* the staged snapshot and the hash that controls it
    target,    \* the snapshot in the recovery database and its verification
    mirrored,  \* the verifications in the primary database
    operator   \* what each restore has read

backupVars == <<day, records, claim, objects, run, stage, target, mirrored, operator>>
runVars == <<day, records, claim, objects, run>>
restoreVars == <<stage, target, mirrored, operator>>

-----------------------------------------------------------------------------
NoClaim == [token |-> Nothing, checkpoint |-> Initial, live |-> FALSE]
NewRun == [phase |-> "new", now |-> 0, checkpoint |-> Initial]
NewOperator == [phase |-> "new", backup |-> Initial, snapshot |-> Nothing,
                evidence |-> Nothing]
EmptyStage == [snapshot |-> Nothing, control |-> Nothing]
EmptyTarget == [snapshot |-> Nothing, backup |-> Initial, evidence |-> Nothing]

BackupInit ==
    /\ day = 0
    /\ records = {} /\ claim = NoClaim /\ objects = {}
    /\ run = [r \in Runs |-> NewRun]
    /\ stage = EmptyStage /\ target = EmptyTarget /\ mirrored = {}
    /\ operator = [o \in Operators |-> NewOperator]

\* Mutant: attempts of one backup write the same object.
KeyOfCheckpoint(checkpoint, token) == <<checkpoint>>

\* Every attempt writes an object of its own.
objectKey(checkpoint, token) == <<checkpoint, token>>

RunStays(r) == run' = [run EXCEPT ![r].phase = "done"]

-----------------------------------------------------------------------------
(* A backup run.                                                             *)

\* Objects whose time is over leave the bucket first.
deleteExpired(r) ==
    /\ run[r].phase = "new"
    /\ objects' = {x \in objects : x.expires > day}
    /\ run' = [run EXCEPT ![r].phase = "reading", ![r].now = day]
    /\ UNCHANGED <<day, records, claim, restoreVars>>

\* A backup is due a day after the last one, whose time names the next.
latestBackupAt(r) ==
    LET latest == Max({b.created : b \in records} \cup {Initial})
    IN /\ run[r].phase = "reading"
       /\ IF latest # Initial /\ run[r].now - latest < 1
          THEN RunStays(r)
          ELSE run' = [run EXCEPT ![r].phase = "claiming", ![r].checkpoint = latest]
       /\ UNCHANGED <<day, records, claim, objects, restoreVars>>

claimBackup(r) ==
    /\ run[r].phase = "claiming"
    /\ IF claim.live
       THEN RunStays(r) /\ UNCHANGED claim
       ELSE /\ claim' = [token |-> r, checkpoint |-> run[r].checkpoint, live |-> TRUE]
            /\ run' = [run EXCEPT ![r].phase = "saving"]
    /\ UNCHANGED <<day, records, objects, restoreVars>>

\* The snapshot is read and encrypted; its content is named by the run.
saveEncrypted(r) ==
    LET key == objectKey(run[r].checkpoint, r)
    IN /\ run[r].phase = "saving"
       /\ objects' = {x \in objects : x.key # key}
                     \cup {[key |-> key, content |-> r,
                            expires |-> run[r].now + BackupDays]}
       /\ run' = [run EXCEPT ![r].phase = "recording"]
       /\ UNCHANGED <<day, records, claim, restoreVars>>

HoldsClaim(r) == claim = [token |-> r, checkpoint |-> run[r].checkpoint, live |-> TRUE]

RecordOf(r) == [checkpoint |-> run[r].checkpoint,
                key |-> objectKey(run[r].checkpoint, r), hash |-> r,
                created |-> run[r].now, expires |-> run[r].now + BackupDays]

\* A record of the same backup is only written again for the same object.
MayRecord(r) ==
    /\ HoldsClaim(r)
    /\ \A b \in records : b.checkpoint = run[r].checkpoint => b.key = RecordOf(r).key

recordBackup(r) ==
    /\ run[r].phase = "recording"
    /\ IF MayRecord(r)
       THEN /\ records' = {b \in records : b.checkpoint # run[r].checkpoint}
                          \cup {RecordOf(r)}
            /\ claim' = NoClaim
       ELSE UNCHANGED <<records, claim>>
    /\ RunStays(r)
    /\ UNCHANGED <<day, objects, restoreVars>>

RunDies(r) ==
    /\ run[r].phase \notin {"new", "done"}
    /\ RunStays(r)
    /\ UNCHANGED <<day, records, claim, objects, restoreVars>>

\* Fifteen minutes after a claim.
BackupLeaseExpires ==
    /\ claim.live
    /\ claim' = [claim EXCEPT !.live = FALSE]
    /\ UNCHANGED <<day, records, objects, run, restoreVars>>

\* The daily retention forgets the records of expired backups.
ForgetExpired ==
    /\ \E b \in records : b.expires <= day
    /\ records' = {b \in records : b.expires > day}
    /\ UNCHANGED <<day, claim, objects, run, restoreVars>>

\* A claim does not outlive the day by more than its fifteen minutes.
DayPasses ==
    /\ day < MaxDay /\ ~ claim.live
    /\ day' = day + 1
    /\ UNCHANGED <<records, claim, objects, run, restoreVars>>

-----------------------------------------------------------------------------
(* A restore.                                                                *)

Restoring(o, phase) == operator' = [operator EXCEPT ![o].phase = phase]

\* The record says which object is the backup and what its hash must be.
readDecrypted(o, b) ==
    /\ operator[o].phase = "new"
    /\ b.expires > day
    /\ \E x \in objects : x.key = b.key /\ x.content = b.hash
    /\ operator' = [operator EXCEPT ![o] =
          [NewOperator EXCEPT !.phase = "checking", !.backup = b.checkpoint,
                              !.snapshot = b.hash]]
    /\ UNCHANGED <<runVars, stage, target, mirrored>>

\* A restore of the same snapshot that another call committed counts.
CommittedRestore(o) == /\ target.backup = operator[o].backup
                       /\ target.snapshot = operator[o].snapshot
                       /\ target.snapshot # Nothing

TakesOver(o) == operator' = [operator EXCEPT ![o].phase = "mirroring",
                                             ![o].evidence = target.evidence]

restoreBackupSnapshot(o) ==
    /\ operator[o].phase = "checking"
    /\ IF CommittedRestore(o) THEN TakesOver(o)
       ELSE Restoring(o, IF target = EmptyTarget THEN "staging" ELSE "done")
    /\ UNCHANGED <<runVars, stage, target, mirrored>>

StageSnapshot(o) ==
    /\ operator[o].phase = "staging"
    /\ stage' = [snapshot |-> operator[o].snapshot, control |-> operator[o].snapshot]
    /\ Restoring(o, "comparing")
    /\ UNCHANGED <<runVars, target, mirrored>>

\* A stage that was replaced or cleared is not the snapshot; a stage this call
\* still controls is cleared.
CompareStage(o) ==
    /\ operator[o].phase = "comparing"
    /\ IF stage.snapshot = operator[o].snapshot
       THEN Restoring(o, "promoting") /\ UNCHANGED stage
       ELSE /\ stage' = IF stage.control = operator[o].snapshot THEN EmptyStage ELSE stage
            /\ Restoring(o, "done")
    /\ UNCHANGED <<runVars, target, mirrored>>

\* Mutant: whatever is staged is promoted into the empty target.
PromotesAnyStage(o) == target = EmptyTarget

MayPromote(o) == target = EmptyTarget /\ stage.control = operator[o].snapshot

\* One transaction: the staged rows, the verification, the stage is cleared.  A
\* refused one looks for a committed restore of the same snapshot.
Promote(o) ==
    /\ operator[o].phase = "promoting"
    /\ IF MayPromote(o)
       THEN /\ target' = [snapshot |-> stage.snapshot, backup |-> operator[o].backup,
                          evidence |-> o]
            /\ stage' = IF stage.control = operator[o].snapshot THEN EmptyStage ELSE stage
            /\ operator' = [operator EXCEPT ![o].phase = "mirroring", ![o].evidence = o]
       ELSE /\ UNCHANGED <<stage, target>>
            /\ IF CommittedRestore(o) THEN TakesOver(o) ELSE Restoring(o, "done")
    /\ UNCHANGED <<runVars, mirrored>>

recordRestoreVerification(o) ==
    LET mine == operator[o]
        known == \E v \in mirrored : v.backup = mine.backup /\ v.snapshot = mine.snapshot
    IN /\ mine.phase = "mirroring"
       /\ mirrored' = IF known THEN mirrored
                      ELSE mirrored \cup {[backup |-> mine.backup,
                                           snapshot |-> mine.snapshot,
                                           evidence |-> mine.evidence]}
       /\ Restoring(o, "cleaning")
       /\ UNCHANGED <<runVars, stage, target>>

IsMine(o) == target.backup = operator[o].backup /\ target.evidence = operator[o].evidence

clearRestoredSnapshot(o) ==
    /\ operator[o].phase = "cleaning"
    /\ Restoring(o, IF IsMine(o) THEN "clearing" ELSE "done")
    /\ UNCHANGED <<runVars, stage, target, mirrored>>

\* The deletion is refused when the verification is no longer this one.
ClearTarget(o) ==
    /\ operator[o].phase = "clearing"
    /\ target' = IF IsMine(o) THEN EmptyTarget ELSE target
    /\ Restoring(o, "done")
    /\ UNCHANGED <<runVars, stage, mirrored>>

RestoreDies(o) ==
    /\ operator[o].phase \notin {"new", "done"}
    /\ Restoring(o, "done")
    /\ UNCHANGED <<runVars, stage, target, mirrored>>

-----------------------------------------------------------------------------
BackupStep(r) ==
    \/ deleteExpired(r) \/ latestBackupAt(r) \/ claimBackup(r)
    \/ saveEncrypted(r) \/ recordBackup(r) \/ RunDies(r)

RestoreStep(o) ==
    \/ \E b \in records : readDecrypted(o, b)
    \/ restoreBackupSnapshot(o) \/ StageSnapshot(o) \/ CompareStage(o) \/ Promote(o)
    \/ recordRestoreVerification(o) \/ clearRestoredSnapshot(o) \/ ClearTarget(o)
    \/ RestoreDies(o)

BackupNext ==
    \/ \E r \in Runs : BackupStep(r)
    \/ BackupLeaseExpires \/ ForgetExpired \/ DayPasses
    \/ \E o \in Operators : RestoreStep(o)

BackupSpec == BackupInit /\ [][BackupNext]_backupVars

-----------------------------------------------------------------------------
\* A backup that counts can be restored until it expires: its object is in the
\* bucket and is the one the record vouches for, whatever a stale run wrote.
RecordedIsRestorable ==
    \A b \in records :
        b.expires > day => \E x \in objects : x.key = b.key /\ x.content = b.hash

\* The recovery database holds nothing, or exactly the snapshot its verification
\* names, promoted by the call the verification names.
TargetIsVerified ==
    \/ target = EmptyTarget
    \/ /\ operator[target.evidence].backup = target.backup
       /\ operator[target.evidence].snapshot = target.snapshot
=============================================================================
