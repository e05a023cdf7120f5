-------------------------- MODULE RecordingRetention --------------------------
(******************************************************************************)
(* What happens to a recorded segment after ffmpeg has closed it: the move    *)
(* into the recordings directory, the operator's delete, the capacity         *)
(* cleanup, and the backup run that copies the directory with rclone, marks   *)
(* what it copied and deletes it locally.                                     *)
(*                                                                            *)
(* The archive move and the staged deletes hold the store's recording media   *)
(* mutex (lock below).  Capacity cleanup has a mutex of its own only, rclone  *)
(* none: both meet the directory between any two steps of the others.  The    *)
(* daemon may be killed between any two steps.                                *)
(******************************************************************************)
EXTENDS BackupJobs, FiniteSets

CONSTANTS
    MaxSegments,     \* bound on the segments recorded
    MaxTime,         \* bound on the seconds that pass
    MaxCrashes,      \* bound on the kills of the daemon
    ProtectUnbacked, \* settings: backup.enabled and protectUnbacked
    SameSecond,      \* whether a segment may be closed in a backup's cutoff second
    StoreErrors      \* whether a database write, a file removal or a rename may fail

ASSUME BoundsAssumption ==
    MaxSegments \in Nat \ {0} /\ MaxTime \in Nat /\ MaxCrashes \in Nat
ASSUME SwitchesAssumption ==
    /\ ProtectUnbacked \in BOOLEAN
    /\ SameSecond \in BOOLEAN
    /\ StoreErrors \in BOOLEAN

Segments == 1..MaxSegments    \* in the order of ts_start and id

VARIABLES
    row,      \* the recording_segments table
    file,     \* where each segment's file is
    now,      \* time.Now().Unix()
    closing,  \* the segment whose archive move is between rename and row update
    deletion, \* the staged delete in progress
    cleaner,  \* EnforceMaxBytes: its list and the segment it is at
    run,      \* one backup goroutine per job
    archive,  \* segments whose bytes are at the remote
    stranded, \* history: segments a kill or a failed rename back left under the staged name
    crashes

rowVars  == <<row, file>>
vars == <<jobs, row, file, now, closing, deletion, cleaner, run, archive, stranded, crashes>>

None == 0
Operator == 0

\* archived: final_path is set; reason: the error column.
NoRow == [status |-> "absent", backup |-> "pending", updated |-> 0, archived |-> FALSE,
          reason |-> "none"]
NoDeletion == [pc |-> "idle", seg |-> None, by |-> Operator]
IdleCleaner == [pc |-> "idle", seg |-> None, list |-> {}]
NoRun == [pc |-> "none", cutoff |-> 0, ctx |-> "live",
          listing |-> [s \in Segments |-> "missing"], failed |-> FALSE, todo |-> {}]

RetentionInit ==
    /\ JobsInit
    /\ row = [s \in Segments |-> NoRow]
    /\ file = [s \in Segments |-> "absent"]
    /\ now = 0
    /\ closing = None
    /\ deletion = NoDeletion
    /\ cleaner = IdleCleaner
    /\ run = [j \in JobIds |-> NoRun]
    /\ archive = {}
    /\ stranded = {}
    /\ crashes = 0

\* recordingMediaMu
LockFree == closing = None /\ deletion.pc = "idle"

First(s, S) == s \in S /\ \A t \in S : s <= t

InDirectory(s) == file[s] \in {"final", "staged"}

\* Every UPDATE of recording_segments sets updated_at.
UpdateRow(s, new) == row' = [row EXCEPT ![s] = [new EXCEPT !.updated = now]]

-----------------------------------------------------------------------------
(* The recorder: a segment is opened, moved and closed. *)

OpenSegment(s) ==
    /\ row[s].status = "absent"
    /\ \A t \in 1..(s - 1) : row[t].status # "absent"
    /\ UpdateRow(s, [row[s] EXCEPT !.status = "recording"])
    /\ file' = [file EXCEPT ![s] = "temp"]
    /\ UNCHANGED <<jobs, now, closing, deletion, cleaner, run, archive, stranded, crashes>>

\* MoveToRecordings under WithRecordingMediaLock.
MoveToRecordings(s) ==
    /\ LockFree
    /\ row[s].status = "recording"
    /\ file[s] = "temp"
    /\ closing' = s
    /\ file' = [file EXCEPT ![s] = "final"]
    /\ UNCHANGED <<jobs, row, now, deletion, cleaner, run, archive, stranded, crashes>>

\* The rename fails; MarkRecordingSegmentStatus notes it.
MoveFails(s) ==
    /\ StoreErrors
    /\ LockFree
    /\ row[s].status = "recording"
    /\ file[s] = "temp"
    /\ UpdateRow(s, [row[s] EXCEPT !.status = "failed"])
    /\ UNCHANGED <<jobs, file, now, closing, deletion, cleaner, run, archive, stranded, crashes>>

\* The backups that have fixed their cutoff and not yet used it.
PendingCutoffs == {run[j].cutoff : j \in {i \in JobIds : run[i].pc \in {"listing", "copying", "copied"}}}

\* CloseRecordingSegment, or CloseFailedRecordingSegment without playable video;
\* if the update fails MarkRecordingSegmentStatus notes it, and may fail as well.
CloseSegment ==
    /\ closing # None
    /\ row[closing].status \in {"recording", "finalizing", "failed"}
    /\ SameSecond \/ now \notin PendingCutoffs
    /\ \/ \E status \in {"ready", "failed"} :
            UpdateRow(closing, [NoRow EXCEPT !.status = status, !.archived = TRUE])
       \/ /\ StoreErrors
          /\ UpdateRow(closing, [row[closing] EXCEPT !.status = "failed"]) \/ UNCHANGED row
    /\ closing' = None
    /\ UNCHANGED <<jobs, file, now, deletion, cleaner, run, archive, stranded, crashes>>

-----------------------------------------------------------------------------
(* The staged delete of a ready segment, for the operator or a backup run.   *)

MarkDeleted(s, reason) ==
    /\ row[s].status = "ready"
    /\ UpdateRow(s, [row[s] EXCEPT !.status = "deleted", !.reason = reason])

Reason(by) == IF by = Operator THEN "operator delete" ELSE "backup cleanup"

\* readyRecordingSegmentPath and the state the caller asks for.
MayDelete(s, by) ==
    /\ row[s].status = "ready"
    /\ by # Operator => row[s].backup = "backed_up"
    /\ file[s] = "final"

\* The checks and the rename to the staged name.  The cleaner cannot come
\* between them to any effect: it removes the file, and then the rename fails.
StageDelete(s, by) ==
    /\ LockFree
    /\ MayDelete(s, by)
    /\ deletion' = [pc |-> "staged", seg |-> s, by |-> by]
    /\ file' = [file EXCEPT ![s] = "staged"]

OperatorDeletes(s) ==
    /\ StageDelete(s, Operator)
    /\ UNCHANGED <<jobs, row, now, closing, cleaner, run, archive, stranded, crashes>>

\* How the run that asked for a delete sees that it failed.
RunAfterFailedDelete ==
    IF deletion.by = Operator THEN run
    ELSE [run EXCEPT ![deletion.by].pc = "failing"]

DeleteMarks ==
    /\ deletion.pc = "staged"
    /\ MarkDeleted(deletion.seg, Reason(deletion.by))
    /\ deletion' = [deletion EXCEPT !.pc = "marked"]
    /\ UNCHANGED <<jobs, file, now, closing, cleaner, run, archive, stranded, crashes>>

\* os.Rename(stagedPath, path), which may fail and then leaves the file staged.
RenameBack ==
    \/ /\ file' = [file EXCEPT ![deletion.seg] = "final"]
       /\ UNCHANGED stranded
    \/ /\ StoreErrors
       /\ stranded' = stranded \cup {deletion.seg}
       /\ UNCHANGED file

\* The mark changed no row, or the database refused it: the file comes back.
\* (Mutant: nobody renames it.)
DeleteGivesUp ==
    /\ deletion.pc = "staged"
    /\ StoreErrors \/ row[deletion.seg].status # "ready"
    /\ deletion' = NoDeletion
    /\ run' = RunAfterFailedDelete
    /\ UNCHANGED <<jobs, row, file, now, closing, cleaner, archive, stranded, crashes>>
DeleteRestores ==
    /\ deletion.pc = "staged"
    /\ StoreErrors \/ row[deletion.seg].status # "ready"
    /\ RenameBack
    /\ deletion' = NoDeletion
    /\ run' = RunAfterFailedDelete
    /\ UNCHANGED <<jobs, row, now, closing, cleaner, archive, crashes>>

DeleteRemoves ==
    /\ deletion.pc = "marked"
    /\ file' = [file EXCEPT ![deletion.seg] = "gone"]
    /\ deletion' = NoDeletion
    /\ run' = IF deletion.by = Operator THEN run
              ELSE [run EXCEPT ![deletion.by].todo = @ \ {deletion.seg}]
    /\ UNCHANGED <<jobs, row, now, closing, cleaner, archive, stranded, crashes>>

\* os.Remove of the staged file fails: rename back, then the row, whatever became
\* of the rename.
DeleteTakesFileBack ==
    /\ StoreErrors
    /\ deletion.pc = "marked"
    /\ RenameBack
    /\ deletion' = [deletion EXCEPT !.pc = "restored"]
    /\ UNCHANGED <<jobs, row, now, closing, cleaner, run, archive, crashes>>

DeleteTakesRowBack ==
    /\ deletion.pc = "restored"
    /\ \/ UpdateRow(deletion.seg, [row[deletion.seg] EXCEPT !.status = "ready", !.reason = "delete failed"])
       \/ StoreErrors /\ UNCHANGED row
    /\ deletion' = NoDeletion
    /\ run' = RunAfterFailedDelete
    /\ UNCHANGED <<jobs, file, now, closing, cleaner, archive, stranded, crashes>>

-----------------------------------------------------------------------------
(* Capacity cleanup: EnforceMaxBytes.  Sizes are abstracted: it starts when  *)
(* the directory is over the limit and stops as soon as it is under it.      *)

\* (Mutant: the list ignores the protection of what is not backed up.)
DeletableReady == {s \in Segments : row[s].status = "ready"}
Deletable == {s \in Segments : /\ row[s].status = "ready"
                               /\ ProtectUnbacked => row[s].backup = "backed_up"}

CleanerStarts ==
    /\ cleaner.pc = "idle"
    /\ Deletable # {}
    /\ cleaner' = [pc |-> "next", seg |-> None, list |-> Deletable]
    /\ UNCHANGED <<jobs, row, file, now, closing, deletion, run, archive, stranded, crashes>>

CleanerStops ==
    /\ cleaner.pc = "next"
    /\ cleaner' = IdleCleaner
    /\ UNCHANGED <<jobs, row, file, now, closing, deletion, run, archive, stranded, crashes>>

\* os.Stat of the oldest segment that is left.
CleanerStats ==
    /\ cleaner.pc = "next"
    /\ \E s \in Segments :
         /\ First(s, cleaner.list)
         /\ cleaner' = [cleaner EXCEPT !.pc = IF file[s] = "final" THEN "found" ELSE "missing", !.seg = s]
    /\ UNCHANGED <<jobs, row, file, now, closing, deletion, run, archive, stranded, crashes>>

\* os.Remove; an error ends the cleanup.
CleanerRemoves ==
    /\ cleaner.pc = "found"
    /\ \/ /\ file[cleaner.seg] = "final"
          /\ file' = [file EXCEPT ![cleaner.seg] = "gone"]
          /\ cleaner' = [cleaner EXCEPT !.pc = "removed"]
       \/ /\ StoreErrors \/ file[cleaner.seg] # "final"
          /\ cleaner' = IdleCleaner
          /\ UNCHANGED file
    /\ UNCHANGED <<jobs, row, now, closing, deletion, run, archive, stranded, crashes>>

\* MarkRecordingSegmentDeleted, after the removal or for a missing file.
CleanerMarks ==
    /\ cleaner.pc \in {"removed", "missing"}
    /\ \/ /\ MarkDeleted(cleaner.seg,
                         IF cleaner.pc = "missing" THEN "already missing" ELSE "capacity cleanup")
          /\ cleaner' = [pc |-> "next", seg |-> None, list |-> cleaner.list \ {cleaner.seg}]
       \/ /\ StoreErrors \/ row[cleaner.seg].status # "ready"
          /\ cleaner' = IdleCleaner
          /\ UNCHANGED row
    /\ UNCHANGED <<jobs, file, now, closing, deletion, run, archive, stranded, crashes>>

-----------------------------------------------------------------------------
(* A backup run: Runner.Start, startCreatedJob and the goroutine run.        *)

\* Start, for the operator, a retry or the scheduler.
BackupStarts(j) ==
    /\ CreateJob(j)
    /\ run' = [run EXCEPT ![j].pc = "created"]
    /\ UNCHANGED <<row, file, now, closing, deletion, cleaner, archive, stranded, crashes>>

\* The settings, the start or its event fail: the active row stays behind.
BackupStartFails(j) ==
    /\ run[j].pc \in {"created", "started"}
    /\ StoreErrors \/ (run[j].pc = "created" /\ jobs[j] # "queued")
    /\ run' = [run EXCEPT ![j] = NoRun]
    /\ UNCHANGED <<jobs, row, file, now, closing, deletion, cleaner, archive, stranded, crashes>>

\* StartJob; a request that is not valid then fails the job.
BackupJobStarts(j) ==
    /\ run[j].pc = "created"
    /\ StartJob(j)
    /\ \E valid \in BOOLEAN :
         run' = [run EXCEPT ![j].pc = IF valid THEN "started" ELSE "invalid"]
    /\ UNCHANGED <<row, file, now, closing, deletion, cleaner, archive, stranded, crashes>>

\* backupCutoff is read and the run is registered for Cancel.
BackupLaunches(j) ==
    /\ run[j].pc = "started"
    /\ run' = [run EXCEPT ![j] = [@ EXCEPT !.pc = "listing", !.cutoff = now]]
    /\ UNCHANGED <<jobs, row, file, now, closing, deletion, cleaner, archive, stranded, crashes>>

\* finishJob by the run, which ignores its error.
RunFinishesJob(j, state) ==
    \/ FinishJob(j, state)
    \/ (StoreErrors \/ ~MayFinish(j)) /\ UNCHANGED jobs

\* rclone copy reads the directory ...
Listing == [s \in Segments |-> IF InDirectory(s) THEN file[s] ELSE "missing"]
RcloneLists(j) ==
    /\ run[j].pc = "listing"
    /\ run' = [run EXCEPT ![j] = [@ EXCEPT !.pc = "copying", !.listing = Listing]]
    /\ UNCHANGED <<jobs, row, file, now, closing, deletion, cleaner, archive, stranded, crashes>>

\* ... and transfers what it listed, by the name it listed.
RcloneCopies(j) ==
    /\ run[j].pc = "copying"
    /\ \E s \in Segments :
         /\ run[j].listing[s] # "missing"
         /\ LET found == file[s] = run[j].listing[s] IN
            /\ run' = [run EXCEPT ![j] = [@ EXCEPT !.listing[s] = "missing", !.failed = run[j].failed \/ ~found]]
            /\ archive' = IF found THEN archive \cup {s} ELSE archive
    /\ UNCHANGED <<jobs, row, file, now, closing, deletion, cleaner, stranded, crashes>>

\* rclone exits with 0 after it has copied everything it listed; from here the
\* run uses context.Background().
RcloneSucceeds(j) ==
    /\ run[j].pc = "copying"
    /\ \A s \in Segments : run[j].listing[s] = "missing"
    /\ ~run[j].failed
    /\ run' = [run EXCEPT ![j] = [@ EXCEPT !.pc = "copied", !.ctx = "live"]]
    /\ UNCHANGED <<jobs, row, file, now, closing, deletion, cleaner, archive, stranded, crashes>>

\* (Mutant: the reason is stored for the state.)
FinalStateOfReason(ctx) == IF ctx = "live" THEN "failed" ELSE ctx
FinalStateOf(ctx) == IF ctx = "cancelled" THEN "cancelled" ELSE "failed"

\* rclone fails or is killed with its context, at any point of its work.
RcloneFails(j) ==
    /\ run[j].pc \in {"listing", "copying"}
    /\ RunFinishesJob(j, FinalStateOf(run[j].ctx))
    /\ run' = [run EXCEPT ![j] = NoRun]
    /\ UNCHANGED <<row, file, now, closing, deletion, cleaner, archive, stranded, crashes>>

\* readyRecordingSegmentsPendingBackup (mutant: without the cutoff).
AllPendingBackup(cutoff) ==
    {s \in Segments : row[s].status = "ready" /\ row[s].backup # "backed_up"}
PendingBackup(cutoff) ==
    {s \in Segments : row[s].status = "ready" /\ row[s].backup # "backed_up" /\ row[s].updated <= cutoff}

\* MarkReadyRecordingSegmentsBackedUp, in one transaction.
MarkBackedUp(j) ==
    /\ run[j].pc = "copied"
    /\ LET marked == PendingBackup(run[j].cutoff) IN
       row' = [s \in Segments |-> IF s \in marked THEN [row[s] EXCEPT !.backup = "backed_up", !.updated = now]
                                                  ELSE row[s]]
    /\ run' = [run EXCEPT ![j] = [@ EXCEPT !.pc = "marked", !.cutoff = 0]]
    /\ UNCHANGED <<jobs, file, now, closing, deletion, cleaner, archive, stranded, crashes>>

\* ListReadyBackedUpRecordingSegments and the audit events.
ReadyBackedUp == {s \in Segments : row[s].status = "ready" /\ row[s].backup = "backed_up"}
ListBackedUp(j) ==
    /\ run[j].pc = "marked"
    /\ run' = [run EXCEPT ![j] = [@ EXCEPT !.pc = "deleting", !.todo = ReadyBackedUp]]
    /\ UNCHANGED <<jobs, row, file, now, closing, deletion, cleaner, archive, stranded, crashes>>

\* The mark, the list or an audit event fails.
BackupStepFails(j) ==
    /\ StoreErrors
    /\ run[j].pc \in {"copied", "marked", "deleting"}
    /\ deletion.by # j
    /\ run' = [run EXCEPT ![j].pc = "failing"]
    /\ UNCHANGED <<jobs, row, file, now, closing, deletion, cleaner, archive, stranded, crashes>>

\* DeleteBackedUpRecordingSegmentFile for the oldest segment that is left.
BackupDeletes(j) ==
    /\ run[j].pc = "deleting"
    /\ LockFree
    /\ \E s \in Segments :
         /\ First(s, run[j].todo)
         /\ \/ StageDelete(s, j) /\ UNCHANGED run
            \/ /\ ~MayDelete(s, j)
               /\ run' = [run EXCEPT ![j].pc = "failing"]
               /\ UNCHANGED <<deletion, file>>
    /\ UNCHANGED <<jobs, row, now, closing, cleaner, archive, stranded, crashes>>

\* SucceedJob, or FailJob after any error; both ignore a row that is final.
BackupEnds(j) ==
    /\ \/ run[j].pc = "deleting" /\ run[j].todo = {} /\ RunFinishesJob(j, "succeeded")
       \/ run[j].pc \in {"failing", "invalid"} /\ RunFinishesJob(j, "failed")
    /\ run' = [run EXCEPT ![j] = NoRun]
    /\ UNCHANGED <<row, file, now, closing, deletion, cleaner, archive, stranded, crashes>>

-----------------------------------------------------------------------------
(* Operator, time and the end of the daemon. *)

\* The run is in Runner.active.
Registered(j) == run[j].pc \notin {"none", "created", "started", "invalid"}

\* Runner.Cancel: the context of a registered run, else the row.  A run that is
\* past rclone no longer looks at its context.
OperatorCancels(j) ==
    /\ \/ /\ run[j].pc \in {"listing", "copying"}
          /\ run[j].ctx = "live"
          /\ run' = [run EXCEPT ![j].ctx = "cancelled"]
          /\ UNCHANGED jobs
       \/ ~Registered(j) /\ FinishJob(j, "cancelled") /\ UNCHANGED run
    /\ UNCHANGED <<row, file, now, closing, deletion, cleaner, archive, stranded, crashes>>

\* The routes under /api/jobs and DELETE /api/backup/jobs/{id} move the row only.
OperatorMovesJob(j) ==
    /\ StartJob(j) \/ (\E state \in FinalStates : FinishJob(j, state)) \/ DeleteJob(j)
    /\ UNCHANGED <<row, file, now, closing, deletion, cleaner, run, archive, stranded, crashes>>

\* The timeout of the run's context, which only rclone looks at.
RunTimesOut(j) ==
    /\ run[j].pc \in {"listing", "copying"}
    /\ run[j].ctx = "live"
    /\ run' = [run EXCEPT ![j].ctx = "timed out"]
    /\ UNCHANGED <<jobs, row, file, now, closing, deletion, cleaner, archive, stranded, crashes>>

Tick ==
    /\ now < MaxTime
    /\ now' = now + 1
    /\ UNCHANGED <<jobs, row, file, closing, deletion, cleaner, run, archive, stranded, crashes>>

\* ListRecordingSegmentsByStatus of RecoverInterruptedSegments.
Interrupted == {s \in Segments : row[s].status = "recording"}

\* The daemon is killed and starts again with RecoverInterruptedSegments, which
\* moves the open files to quarantine except those with published fragments and
\* those whose move fails.  Nobody looks for staged files, and no caller of
\* RecoverStaleRunningJobs exists: the jobs stay as they are.
DaemonRestarts ==
    /\ crashes < MaxCrashes
    /\ crashes' = crashes + 1
    /\ row' = [s \in Segments |-> IF s \in Interrupted
                                  THEN [row[s] EXCEPT !.status = "failed", !.updated = now] ELSE row[s]]
    /\ \E moved \in SUBSET Interrupted :
         file' = [s \in Segments |-> IF s \in moved /\ file[s] = "temp" THEN "quarantine" ELSE file[s]]
    /\ stranded' = stranded \cup {s \in Segments : deletion.pc \in {"staged", "marked"} /\ s = deletion.seg}
    /\ closing' = None
    /\ deletion' = NoDeletion
    /\ cleaner' = IdleCleaner
    /\ run' = [j \in JobIds |-> NoRun]
    /\ UNCHANGED <<jobs, now, archive>>

-----------------------------------------------------------------------------
RecorderStep == (\E s \in Segments : OpenSegment(s) \/ MoveToRecordings(s) \/ MoveFails(s)) \/ CloseSegment
DeleteStep == DeleteMarks \/ DeleteRestores \/ DeleteRemoves \/ DeleteTakesFileBack \/ DeleteTakesRowBack
CleanerStep == CleanerStarts \/ CleanerStops \/ CleanerStats \/ CleanerRemoves \/ CleanerMarks
RcloneStep(j) == RcloneLists(j) \/ RcloneCopies(j) \/ RcloneSucceeds(j) \/ RcloneFails(j)
RunStep(j) ==
    \/ BackupStartFails(j) \/ BackupJobStarts(j) \/ BackupLaunches(j)
    \/ RcloneStep(j)
    \/ MarkBackedUp(j) \/ ListBackedUp(j) \/ BackupStepFails(j) \/ BackupDeletes(j) \/ BackupEnds(j)
OperatorStep ==
    \/ \E s \in Segments : OperatorDeletes(s)
    \/ \E j \in JobIds : BackupStarts(j) \/ OperatorCancels(j) \/ OperatorMovesJob(j)

Next ==
    \/ RecorderStep
    \/ DeleteStep
    \/ CleanerStep
    \/ \E j \in JobIds : RunStep(j) \/ RunTimesOut(j)
    \/ OperatorStep
    \/ Tick
    \/ DaemonRestarts

Spec == RetentionInit /\ [][Next]_vars

-----------------------------------------------------------------------------
(* Properties. *)

RowStatuses == {"absent", "recording", "ready", "failed", "deleted"}
FileStates == {"absent", "temp", "final", "staged", "gone", "quarantine"}
RunStates == {"none", "created", "started", "invalid", "listing", "copying", "copied", "marked",
              "deleting", "failing"}

Reasons == {"none", "operator delete", "backup cleanup", "capacity cleanup", "already missing",
            "delete failed"}
Rows == [status : RowStatuses, backup : {"pending", "backed_up"}, updated : 0..MaxTime,
         archived : BOOLEAN, reason : Reasons]
RunRecords == [pc : RunStates, cutoff : 0..MaxTime, ctx : {"live", "cancelled", "timed out"},
               listing : [Segments -> {"final", "staged", "missing"}],
               failed : BOOLEAN, todo : SUBSET Segments]

\* The tables, the directory and the goroutines only hold values the code writes.
TypeOK ==
    /\ jobs \in [JobIds -> JobStates]
    /\ row \in [Segments -> Rows]
    /\ file \in [Segments -> FileStates]
    /\ now \in 0..MaxTime
    /\ closing \in Segments \cup {None}
    /\ deletion \in [pc : {"idle", "staged", "marked", "restored"}, seg : Segments \cup {None},
                     by : JobIds \cup {Operator}]
    /\ deletion.pc # "idle" => deletion.seg \in Segments
    /\ cleaner \in [pc : {"idle", "next", "found", "missing", "removed"}, seg : Segments \cup {None},
                    list : SUBSET Segments]
    /\ run \in [JobIds -> RunRecords]
    /\ archive \subseteq Segments
    /\ stranded \subseteq Segments
    /\ crashes \in 0..MaxCrashes

\* A segment whose local bytes are gone is at the remote, unless the operator
\* deleted it (upload, then mark, then delete; cleanup protects what is not
\* backed up).  Holds across kills, failures, cancelled and overlapping runs.
NoFootageLost ==
    \A s \in Segments :
        file[s] = "gone" => s \in archive \/ row[s].reason = "operator delete"

\* A backed_up mark, and with it the audit event that says so, is true.
BackedUpIsArchived ==
    \A s \in Segments : row[s].backup = "backed_up" => s \in archive

\* Whoever takes the media mutex finds the file where the row says it is, or
\* nowhere because capacity cleanup removed it; and under the staged name it
\* finds only what a kill or a failed rename back left there.
FileWhereRowSays ==
    LockFree =>
        \A s \in Segments :
            /\ row[s].archived /\ row[s].status # "deleted" => file[s] \in {"final", "gone"} \/ s \in stranded
            /\ file[s] = "staged" => s \in stranded

\* A finished job keeps its outcome, whoever reports another one later.
OutcomeIsFinal ==
    [][\A j \in JobIds : jobs[j] \in FinalStates => jobs'[j] \in {jobs[j], "deleted"}]_vars
===============================================================================
