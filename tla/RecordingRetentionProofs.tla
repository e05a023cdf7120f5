----------------------- MODULE RecordingRetentionProofs -----------------------
(******************************************************************************)
(* Proofs about RecordingRetention: no recorded segment is lost before it is  *)
(* at the remote, for any number of segments, jobs, seconds and kills.        *)
(******************************************************************************)
EXTENDS RecordingRetention, TLAPS

\* The staged delete holds the file under its staged name until it removes it
\* or brings it back, and knows why it may.
DeleteInv ==
    /\ closing # None => /\ deletion.pc = "idle"
                         /\ file[closing] = "final" \/ closing \in archive
    /\ deletion.pc # "idle" =>
         /\ deletion.seg \in Segments
         /\ deletion.by # Operator => deletion.seg \in archive
    /\ deletion.pc \in {"staged", "marked"} => file[deletion.seg] = "staged"
    /\ deletion.pc = "marked" =>
         /\ row[deletion.seg].status = "deleted"
         /\ deletion.by = Operator => row[deletion.seg].reason = "operator delete"
    /\ deletion.pc = "restored" => file[deletion.seg] \in {"final", "staged"} \/ deletion.seg \in archive

\* The cleaner's list and every mark name archived segments only.
ArchivedInv ==
    /\ cleaner.list \subseteq archive
    /\ cleaner.pc \in {"found", "missing", "removed"} => cleaner.seg \in archive
    /\ \A s \in Segments : row[s].backup = "backed_up" => s \in archive

\* A ready row has its file in the directory or at the remote; a file that is
\* gone is at the remote or was deleted by the operator; nothing comes before
\* the row.
FileInv ==
    \A s \in Segments :
        /\ row[s].status = "absent" => file[s] = "absent" /\ s \notin archive
        /\ row[s].status = "ready" => InDirectory(s) \/ s \in archive
        /\ file[s] = "gone" =>
             \/ s \in archive
             \/ row[s].status = "deleted" /\ row[s].reason = "operator delete"

\* MarkBackedUp of a run with this cutoff would mark s, now or after a delete
\* that is in progress has given it back.
Due(cutoff, s) ==
    \/ row[s].status = "ready" /\ row[s].updated <= cutoff
    \/ deletion.pc # "idle" /\ deletion.seg = s /\ now <= cutoff

\* What a run will mark is copied, still on rclone's list, or makes rclone fail.
RunInv ==
    /\ \A s \in Segments : row[s].updated <= now
    /\ \A j \in JobIds :
         /\ run[j].cutoff <= now
         /\ run[j].pc \in {"copying", "copied"} =>
              \A s \in Segments : Due(run[j].cutoff, s) =>
                  \/ s \in archive
                  \/ run[j].pc = "copying" /\ (run[j].listing[s] # "missing" \/ run[j].failed)

IInv == TypeOK /\ DeleteInv /\ ArchivedInv /\ FileInv /\ RunInv

-----------------------------------------------------------------------------
\* What an update of a row writes.
LEMMA RowType ==
    ASSUME NEW r \in Rows, NEW status \in RowStatuses, NEW reason \in Reasons, NEW time \in 0..MaxTime
    PROVE  /\ [r EXCEPT !.status = status] \in Rows
           /\ [r EXCEPT !.status = status, !.reason = reason] \in Rows
           /\ [r EXCEPT !.updated = time] \in Rows
           /\ [r EXCEPT !.status = status, !.updated = time] \in Rows
           /\ [r EXCEPT !.backup = "backed_up", !.updated = time] \in Rows
<1>1. /\ [r EXCEPT !.status = status] \in Rows
      /\ [r EXCEPT !.status = status, !.reason = reason] \in Rows
      /\ [r EXCEPT !.updated = time] \in Rows
  BY DEF Rows
<1>2. [r EXCEPT !.status = status, !.updated = time] \in Rows
  BY DEF Rows
<1>3. [r EXCEPT !.backup = "backed_up", !.updated = time] \in Rows
  BY DEF Rows
<1> QED
  BY <1>1, <1>2, <1>3

LEMMA NoRowType ==
    /\ NoRow \in Rows
    /\ \A status \in RowStatuses : [NoRow EXCEPT !.status = status, !.archived = TRUE] \in Rows
<1>1. NoRow \in Rows
  BY BoundsAssumption DEF Rows, NoRow, RowStatuses, Reasons
<1>2. ASSUME NEW status \in RowStatuses
      PROVE  [NoRow EXCEPT !.status = status, !.archived = TRUE] \in Rows
  BY <1>1 DEF Rows
<1> QED
  BY <1>1, <1>2

LEMMA UpdateRowType ==
    ASSUME TypeOK, NEW s, NEW new, s \in Segments => new \in Rows, UpdateRow(s, new)
    PROVE  row' \in [Segments -> Rows]
<1>1. row \in [Segments -> Rows] /\ now \in 0..MaxTime
  BY DEF TypeOK
<1>2. s \in Segments => [new EXCEPT !.updated = now] \in Rows
  BY <1>1, RowType DEF RowStatuses, Reasons
<1> QED
  BY <1>1, <1>2 DEF UpdateRow

\* The actions on rows write rows.
LEMMA RowTypeStep ==
    ASSUME TypeOK, [Next]_vars
    PROVE  row' \in [Segments -> Rows]
<1>0. row \in [Segments -> Rows] /\ now \in 0..MaxTime
  BY DEF TypeOK
<1>s. {"recording", "ready", "failed", "deleted"} \subseteq RowStatuses
  BY DEF RowStatuses
<1>r. {"operator delete", "backup cleanup", "capacity cleanup", "already missing", "delete failed"}
        \subseteq Reasons
  BY DEF Reasons
<1>1. CASE UNCHANGED row
  BY <1>0, <1>1
<1>2. ASSUME NEW s \in Segments, OpenSegment(s) \/ MoveFails(s)  PROVE row' \in [Segments -> Rows]
  <2>1. [row[s] EXCEPT !.status = "recording"] \in Rows /\ [row[s] EXCEPT !.status = "failed"] \in Rows
    BY <1>0, <1>s, RowType DEF Reasons
  <2> QED
    BY <1>2, <2>1, UpdateRowType DEF OpenSegment, MoveFails
<1>3. CASE CloseSegment
  <2>1. CASE UNCHANGED row
    BY <1>0, <2>1
  <2>2. CASE UpdateRow(closing, [row[closing] EXCEPT !.status = "failed"])
    <3>1. closing \in Segments => [row[closing] EXCEPT !.status = "failed"] \in Rows
      BY <1>0, <1>s, RowType DEF Reasons
    <3> QED
      BY <2>2, <3>1, UpdateRowType
  <2>3. ASSUME NEW status \in {"ready", "failed"},
               UpdateRow(closing, [NoRow EXCEPT !.status = status, !.archived = TRUE])
        PROVE  row' \in [Segments -> Rows]
    <3>1. [NoRow EXCEPT !.status = status, !.archived = TRUE] \in Rows
      BY <1>s, NoRowType
    <3> QED
      BY <2>3, <3>1, UpdateRowType
  <2> QED
    BY <1>3, <2>1, <2>2, <2>3 DEF CloseSegment
<1>m. ASSUME NEW s, NEW reason \in Reasons, MarkDeleted(s, reason)  PROVE row' \in [Segments -> Rows]
  <2>1. s \in Segments => [row[s] EXCEPT !.status = "deleted", !.reason = reason] \in Rows
    BY <1>0, <1>s, RowType
  <2> QED
    BY <1>m, <2>1, UpdateRowType DEF MarkDeleted
<1>4. CASE DeleteMarks
  BY <1>4, <1>m, <1>r DEF DeleteMarks, Reason
<1>5. CASE DeleteTakesRowBack
  <2>1. deletion.seg \in Segments =>
          [row[deletion.seg] EXCEPT !.status = "ready", !.reason = "delete failed"] \in Rows
    BY <1>0, <1>s, <1>r, RowType
  <2> QED
    BY <1>0, <1>5, <2>1, UpdateRowType DEF DeleteTakesRowBack
<1>6. CASE CleanerMarks
  BY <1>0, <1>6, <1>m, <1>r DEF CleanerMarks
<1>7. ASSUME NEW j \in JobIds, MarkBackedUp(j)  PROVE row' \in [Segments -> Rows]
  <2> DEFINE marked == PendingBackup(run[j].cutoff)
  <2>1. row' = [s \in Segments |-> IF s \in marked THEN [row[s] EXCEPT !.backup = "backed_up", !.updated = now]
                                                   ELSE row[s]]
    BY <1>7 DEF MarkBackedUp
  <2>2. ASSUME NEW s \in Segments  PROVE row'[s] \in Rows
    <3>1. row[s] \in Rows /\ [row[s] EXCEPT !.backup = "backed_up", !.updated = now] \in Rows
      BY <1>0, RowType DEF RowStatuses, Reasons
    <3> HIDE DEF marked
    <3> QED
      BY <2>1, <3>1
  <2> QED
    BY <2>1, <2>2
<1>8. CASE DaemonRestarts
  <2>1. row' = [s \in Segments |-> IF s \in Interrupted
                                   THEN [row[s] EXCEPT !.status = "failed", !.updated = now] ELSE row[s]]
    BY <1>8 DEF DaemonRestarts
  <2>2. ASSUME NEW s \in Segments  PROVE row'[s] \in Rows
    <3>1. row[s] \in Rows /\ [row[s] EXCEPT !.status = "failed", !.updated = now] \in Rows
      BY <1>0, <1>s, RowType DEF Reasons
    <3> QED
      BY <2>1, <3>1
  <2> QED
    BY <2>1, <2>2
<1> QED
  BY <1>1, <1>2, <1>3, <1>4, <1>5, <1>6, <1>7, <1>8
  DEF vars, Next, RecorderStep, DeleteStep, CleanerStep, RunStep, RcloneStep, OperatorStep,
      MoveToRecordings, DeleteRestores, DeleteRemoves, DeleteTakesFileBack, CleanerStarts, CleanerStops,
      CleanerStats, CleanerRemoves, BackupStartFails, BackupJobStarts, BackupLaunches, RcloneLists,
      RcloneCopies, RcloneSucceeds, RcloneFails, ListBackedUp, BackupStepFails, BackupDeletes, BackupEnds,
      RunTimesOut, OperatorDeletes, BackupStarts, OperatorCancels, OperatorMovesJob, Tick

\* What a run writes into its own record.
LEMMA RunType ==
    ASSUME NEW r \in RunRecords, NEW pc \in RunStates, NEW time \in 0..MaxTime, NEW S \in SUBSET Segments,
           NEW L \in [Segments -> {"final", "staged", "missing"}]
    PROVE  /\ [r EXCEPT !.pc = pc] \in RunRecords
           /\ [r EXCEPT !.todo = S] \in RunRecords
           /\ [r EXCEPT !.pc = pc, !.cutoff = time] \in RunRecords
           /\ [r EXCEPT !.pc = pc, !.listing = L] \in RunRecords
           /\ [r EXCEPT !.pc = pc, !.todo = S] \in RunRecords
           /\ [r EXCEPT !.ctx = "cancelled"] \in RunRecords
           /\ [r EXCEPT !.ctx = "timed out"] \in RunRecords
           /\ [r EXCEPT !.pc = pc, !.ctx = "live"] \in RunRecords
<1>1. /\ [r EXCEPT !.pc = pc] \in RunRecords
      /\ [r EXCEPT !.todo = S] \in RunRecords
      /\ [r EXCEPT !.ctx = "cancelled"] \in RunRecords
      /\ [r EXCEPT !.ctx = "timed out"] \in RunRecords
  BY DEF RunRecords
<1>2. /\ [r EXCEPT !.pc = pc, !.cutoff = time] \in RunRecords
      /\ [r EXCEPT !.pc = pc, !.ctx = "live"] \in RunRecords
  BY DEF RunRecords
<1>3. [r EXCEPT !.pc = pc, !.listing = L] \in RunRecords
  BY DEF RunRecords
<1>4. [r EXCEPT !.pc = pc, !.todo = S] \in RunRecords
  BY DEF RunRecords
<1> QED
  BY <1>1, <1>2, <1>3, <1>4

LEMMA NoRunType == NoRun \in RunRecords
BY BoundsAssumption DEF NoRun, RunRecords, RunStates

LEMMA RunTypeStep ==
    ASSUME TypeOK, [Next]_vars
    PROVE  run' \in [JobIds -> RunRecords]
<1>0. run \in [JobIds -> RunRecords] /\ now \in 0..MaxTime
  BY DEF TypeOK
<1>p. {"created", "started", "invalid", "listing", "copying", "copied", "marked", "deleting", "failing"}
        \subseteq RunStates
  BY DEF RunStates
<1>1. CASE UNCHANGED run
  BY <1>0, <1>1
<1>e. 0 \in 0..MaxTime /\ {} \in SUBSET Segments /\ Listing \in [Segments -> {"final", "staged", "missing"}]
  BY BoundsAssumption DEF Listing, InDirectory
<1>2. CASE \/ DeleteRestores
           \/ DeleteTakesRowBack
  <2>1. deletion.by \in JobIds => [run[deletion.by] EXCEPT !.pc = "failing"] \in RunRecords
    BY <1>0, <1>p, <1>e, RunType
  <2> QED
    BY <1>0, <1>2, <2>1 DEF DeleteRestores, DeleteTakesRowBack, RunAfterFailedDelete
<1>3. CASE DeleteRemoves
  <2>1. deletion.by \in JobIds =>
          [run[deletion.by] EXCEPT !.todo = run[deletion.by].todo \ {deletion.seg}] \in RunRecords
    <3> SUFFICES ASSUME deletion.by \in JobIds
                 PROVE  [run[deletion.by] EXCEPT !.todo = run[deletion.by].todo \ {deletion.seg}] \in RunRecords
      OBVIOUS
    <3>1. run[deletion.by] \in RunRecords
      BY <1>0
    <3>2. run[deletion.by].todo \ {deletion.seg} \in SUBSET Segments
      BY <3>1 DEF RunRecords
    <3> QED
      BY <3>1, <3>2 DEF RunRecords
  <2> QED
    BY <1>0, <1>3, <2>1 DEF DeleteRemoves
<1>4. ASSUME NEW j \in JobIds,
             BackupStarts(j) \/ RunStep(j) \/ RunTimesOut(j) \/ OperatorCancels(j) \/ OperatorMovesJob(j)
      PROVE  run' \in [JobIds -> RunRecords]
  <2>0. run[j] \in RunRecords
    BY <1>0
  <2>1. CASE BackupStarts(j) \/ BackupStartFails(j) \/ BackupJobStarts(j) \/ BackupStepFails(j)
    <3>1. \A pc \in {"created", "started", "invalid", "failing"} : [run[j] EXCEPT !.pc = pc] \in RunRecords
      BY <2>0, <1>p, <1>e, RunType
    <3> QED
      BY <1>0, <2>1, <3>1, NoRunType DEF BackupStarts, BackupStartFails, BackupJobStarts, BackupStepFails
  <2>2. CASE BackupLaunches(j) \/ MarkBackedUp(j)
    <3>1. /\ [run[j] EXCEPT !.pc = "listing", !.cutoff = now] \in RunRecords
          /\ [run[j] EXCEPT !.pc = "marked", !.cutoff = 0] \in RunRecords
      BY <1>0, <2>0, <1>p, <1>e, RunType
    <3> QED
      BY <1>0, <2>2, <3>1 DEF BackupLaunches, MarkBackedUp
  <2>3. CASE RcloneLists(j)
    <3>1. [run[j] EXCEPT !.pc = "copying", !.listing = Listing] \in RunRecords
      BY <1>0, <2>0, <1>p, <1>e, RunType
    <3> QED
      BY <1>0, <2>3, <3>1 DEF RcloneLists
  <2>4. CASE RcloneCopies(j)
    <3>1. PICK s \in Segments :
            run' = [run EXCEPT ![j] = [@ EXCEPT !.listing[s] = "missing",
                                                !.failed = run[j].failed \/ ~(file[s] = run[j].listing[s])]]
      BY <2>4 DEF RcloneCopies
    <3>2. [run[j].listing EXCEPT ![s] = "missing"] \in [Segments -> {"final", "staged", "missing"}]
      BY <2>0 DEF RunRecords
    <3> DEFINE failed == run[j].failed \/ ~(file[s] = run[j].listing[s])
               listing == [run[j].listing EXCEPT ![s] = "missing"]
    <3>3. run' = [run EXCEPT ![j] = [@ EXCEPT !.listing = listing, !.failed = failed]]
      BY <3>1
    <3>4. failed \in BOOLEAN
      OBVIOUS
    <3> HIDE DEF failed, listing
    <3>5. [run[j] EXCEPT !.listing = listing, !.failed = failed] \in RunRecords
      BY <2>0, <3>2, <3>4 DEF RunRecords, listing
    <3> QED
      BY <1>0, <3>3, <3>5
  <2>5. CASE RcloneSucceeds(j) \/ RcloneFails(j) \/ BackupEnds(j)
    <3>1. [run[j] EXCEPT !.pc = "copied", !.ctx = "live"] \in RunRecords
      BY <1>0, <2>0, <1>p, <1>e, RunType
    <3> QED
      BY <1>0, <2>5, <3>1, NoRunType DEF RcloneSucceeds, RcloneFails, BackupEnds
  <2>6. CASE ListBackedUp(j) \/ BackupDeletes(j)
    <3>1. /\ [run[j] EXCEPT !.pc = "deleting", !.todo = ReadyBackedUp] \in RunRecords
          /\ [run[j] EXCEPT !.pc = "failing"] \in RunRecords
      BY <1>0, <2>0, <1>p, <1>e, RunType DEF ReadyBackedUp
    <3> QED
      BY <1>0, <2>6, <3>1 DEF ListBackedUp, BackupDeletes
  <2>7. CASE RunTimesOut(j) \/ OperatorCancels(j) \/ OperatorMovesJob(j)
    <3>1. [run[j] EXCEPT !.ctx = "cancelled"] \in RunRecords /\ [run[j] EXCEPT !.ctx = "timed out"] \in RunRecords
      BY <2>0 DEF RunRecords
    <3> QED
      BY <1>0, <2>7, <3>1 DEF RunTimesOut, OperatorCancels, OperatorMovesJob
  <2> QED
    BY <1>4, <2>1, <2>2, <2>3, <2>4, <2>5, <2>6, <2>7 DEF RunStep, RcloneStep
<1>5. CASE DaemonRestarts
  BY <1>5, NoRunType DEF DaemonRestarts
<1> QED
  BY <1>1, <1>2, <1>3, <1>4, <1>5
  DEF vars, Next, RecorderStep, DeleteStep, CleanerStep, OperatorStep, OpenSegment, MoveToRecordings,
      MoveFails, CloseSegment, DeleteMarks, DeleteTakesFileBack, CleanerStarts, CleanerStops, CleanerStats,
      CleanerRemoves, CleanerMarks, OperatorDeletes, Tick

LEMMA JobsTypeStep ==
    ASSUME TypeOK, [Next]_vars
    PROVE  jobs' \in [JobIds -> JobStates]
<1>0. jobs \in [JobIds -> JobStates]
  BY DEF TypeOK
<1>1. CASE UNCHANGED jobs
  BY <1>0, <1>1
<1>2. ASSUME NEW j \in JobIds, NEW state \in FinalStates,
             CreateJob(j) \/ StartJob(j) \/ FinishJob(j, state) \/ DeleteJob(j)
      PROVE  jobs' \in [JobIds -> JobStates]
  BY <1>0, <1>2 DEF CreateJob, StartJob, FinishJob, DeleteJob, JobStates, ActiveStates
<1>3. ASSUME NEW j \in JobIds, RunStep(j) \/ BackupStarts(j) \/ OperatorCancels(j) \/ OperatorMovesJob(j)
      PROVE  jobs' \in [JobIds -> JobStates]
  BY <1>1, <1>2, <1>3
  DEF RunStep, RcloneStep, BackupStarts, BackupStartFails, BackupJobStarts, BackupLaunches, RcloneLists,
      RcloneCopies, RcloneSucceeds, RcloneFails, RunFinishesJob, FinalStateOf, FinalStates, MarkBackedUp,
      ListBackedUp, BackupStepFails, BackupDeletes, BackupEnds, OperatorCancels, OperatorMovesJob
<1> QED
  BY <1>1, <1>3
  DEF vars, Next, RecorderStep, DeleteStep, CleanerStep, OperatorStep, OpenSegment, MoveToRecordings,
      MoveFails, CloseSegment, DeleteMarks, DeleteRestores, DeleteRemoves, DeleteTakesFileBack,
      DeleteTakesRowBack, CleanerStarts, CleanerStops, CleanerStats, CleanerRemoves, CleanerMarks,
      OperatorDeletes, RunTimesOut, Tick, DaemonRestarts

\* The other variables.
LEMMA OthersTypeStep ==
    ASSUME TypeOK, [Next]_vars
    PROVE  /\ file' \in [Segments -> FileStates]
           /\ now' \in 0..MaxTime
           /\ closing' \in Segments \cup {None}
           /\ deletion' \in [pc : {"idle", "staged", "marked", "restored"}, seg : Segments \cup {None},
                             by : JobIds \cup {Operator}]
           /\ deletion'.pc # "idle" => deletion'.seg \in Segments
           /\ cleaner' \in [pc : {"idle", "next", "found", "missing", "removed"},
                            seg : Segments \cup {None}, list : SUBSET Segments]
           /\ archive' \subseteq Segments
           /\ stranded' \subseteq Segments
           /\ crashes' \in 0..MaxCrashes
<1> DEFINE Others == <<file, now, closing, deletion, cleaner, archive, stranded, crashes>>
           Result == /\ file' \in [Segments -> FileStates]
                     /\ now' \in 0..MaxTime
                     /\ closing' \in Segments \cup {None}
                     /\ deletion' \in [pc : {"idle", "staged", "marked", "restored"},
                                       seg : Segments \cup {None}, by : JobIds \cup {Operator}]
                     /\ deletion'.pc # "idle" => deletion'.seg \in Segments
                     /\ cleaner' \in [pc : {"idle", "next", "found", "missing", "removed"},
                                      seg : Segments \cup {None}, list : SUBSET Segments]
                     /\ archive' \subseteq Segments
                     /\ stranded' \subseteq Segments
                     /\ crashes' \in 0..MaxCrashes
<1> SUFFICES Result
  OBVIOUS
<1>1. CASE UNCHANGED Others
  BY <1>1 DEF TypeOK
<1>2. CASE RecorderStep
  BY <1>2 DEF TypeOK, FileStates, RecorderStep, OpenSegment, MoveToRecordings, MoveFails, CloseSegment
<1>3. CASE DeleteStep
  <2>1. /\ file' \in [Segments -> FileStates]
        /\ UNCHANGED <<now, closing, cleaner, archive, crashes>>
    BY <1>3 DEF TypeOK, FileStates, DeleteStep, DeleteMarks, DeleteRestores, DeleteRemoves, DeleteTakesFileBack,
                DeleteTakesRowBack, RenameBack
  <2>2. /\ deletion' \in [pc : {"idle", "staged", "marked", "restored"}, seg : Segments \cup {None},
                          by : JobIds \cup {Operator}]
        /\ deletion'.pc # "idle" => deletion'.seg \in Segments
    BY <1>3 DEF TypeOK, DeleteStep, DeleteMarks, DeleteRestores, DeleteRemoves, DeleteTakesFileBack,
                DeleteTakesRowBack, NoDeletion
  <2>3. stranded' \subseteq Segments
    BY <1>3 DEF TypeOK, DeleteStep, DeleteMarks, DeleteRestores, DeleteRemoves, DeleteTakesFileBack,
                DeleteTakesRowBack, RenameBack
  <2> QED
    BY <2>1, <2>2, <2>3 DEF TypeOK
<1>4. CASE CleanerStep
  <2>1. /\ file' \in [Segments -> FileStates]
        /\ UNCHANGED <<now, closing, deletion, archive, stranded, crashes>>
    BY <1>4 DEF TypeOK, FileStates, CleanerStep, CleanerStarts, CleanerStops, CleanerStats, CleanerRemoves, CleanerMarks
  <2>2. cleaner' \in [pc : {"idle", "next", "found", "missing", "removed"},
                     seg : Segments \cup {None}, list : SUBSET Segments]
    <3>1. CASE CleanerStarts \/ CleanerStops
      BY <3>1 DEF TypeOK, CleanerStarts, CleanerStops, IdleCleaner, Deletable
    <3>2. CASE CleanerStats
      BY <3>2 DEF TypeOK, CleanerStats
    <3>3. CASE CleanerRemoves
      BY <3>3 DEF TypeOK, CleanerRemoves, IdleCleaner
    <3>4. CASE CleanerMarks
      <4>1. IdleCleaner \in [pc : {"idle", "next", "found", "missing", "removed"},
                            seg : Segments \cup {None}, list : SUBSET Segments]
        BY DEF IdleCleaner
      <4>2. cleaner.list \ {cleaner.seg} \in SUBSET Segments
        BY DEF TypeOK
      <4>3. cleaner' \in {IdleCleaner, [pc |-> "next", seg |-> None, list |-> cleaner.list \ {cleaner.seg}]}
        BY <3>4 DEF CleanerMarks
      <4> QED
        BY <4>1, <4>2, <4>3
    <3> QED
      BY <1>4, <3>1, <3>2, <3>3, <3>4 DEF CleanerStep
  <2> QED
    BY <2>1, <2>2 DEF TypeOK
<1>5. ASSUME NEW s \in Segments, NEW by \in JobIds \cup {Operator}, StageDelete(s, by),
             UNCHANGED <<now, closing, cleaner, archive, stranded, crashes>>
      PROVE  Result
  BY <1>5 DEF TypeOK, FileStates, StageDelete
<1>6. ASSUME NEW j \in JobIds, RunStep(j) \/ RunTimesOut(j)
      PROVE  Result
  <2>1. CASE RcloneCopies(j)
    BY <2>1 DEF TypeOK, RcloneCopies
  <2>2. CASE BackupDeletes(j)
    BY <1>1, <1>5, <2>2 DEF BackupDeletes
  <2> QED
    BY <1>1, <1>6, <2>1, <2>2
    DEF RunStep, RcloneStep, BackupStartFails, BackupJobStarts, BackupLaunches, RcloneLists, RcloneSucceeds,
        RcloneFails, MarkBackedUp, ListBackedUp, BackupStepFails, BackupEnds, RunTimesOut
<1>7. CASE OperatorStep
  BY <1>1, <1>5, <1>7 DEF OperatorStep, OperatorDeletes, BackupStarts, OperatorCancels, OperatorMovesJob
<1>8. CASE Tick
  BY <1>8, BoundsAssumption DEF TypeOK, Tick
<1>9. CASE DaemonRestarts
  <2>1. file' \in [Segments -> FileStates]
    BY <1>9 DEF TypeOK, FileStates, DaemonRestarts
  <2>2. now' \in 0..MaxTime /\ archive' \subseteq Segments
    BY <1>9 DEF TypeOK, DaemonRestarts
  <2>4. stranded' \subseteq Segments
    BY <1>9 DEF TypeOK, DaemonRestarts
  <2>3. crashes' \in 0..MaxCrashes
    <3>1. crashes \in 0..MaxCrashes
      BY DEF TypeOK
    <3>2. crashes < MaxCrashes /\ crashes' = crashes + 1
      BY <1>9 DEF DaemonRestarts
    <3> QED
      BY <3>1, <3>2, BoundsAssumption
  <2> QED
    BY <1>9, <2>1, <2>2, <2>3, <2>4 DEF DaemonRestarts, NoDeletion, IdleCleaner
<1> QED
  BY <1>1, <1>2, <1>3, <1>4, <1>6, <1>7, <1>8, <1>9 DEF Next, vars

LEMMA TypeInit == RetentionInit => TypeOK
<1> SUFFICES ASSUME RetentionInit  PROVE TypeOK
  OBVIOUS
<1>1. jobs \in [JobIds -> JobStates]
  BY DEF RetentionInit, JobsInit, JobStates
<1>2. row \in [Segments -> Rows] /\ run \in [JobIds -> RunRecords]
  BY NoRowType, NoRunType DEF RetentionInit
<1> QED
  BY <1>1, <1>2, BoundsAssumption DEF RetentionInit, TypeOK, FileStates, NoDeletion, IdleCleaner

LEMMA TypeStep == TypeOK /\ [Next]_vars => TypeOK'
<1> SUFFICES ASSUME TypeOK, [Next]_vars  PROVE TypeOK'
  OBVIOUS
<1>1. row' \in [Segments -> Rows] /\ run' \in [JobIds -> RunRecords] /\ jobs' \in [JobIds -> JobStates]
  BY RowTypeStep, RunTypeStep, JobsTypeStep
<1> QED
  BY <1>1, OthersTypeStep DEF TypeOK

\* The tables, the directory and the goroutines keep their types, for every
\* number of segments, jobs, seconds and kills.
THEOREM RetentionTypeCorrect == Spec => []TypeOK
BY TypeInit, TypeStep, PTL DEF Spec

-----------------------------------------------------------------------------
(* The effects of the actions on a row, field by field. *)

Changed(s, status, reason) ==
    /\ s \in Segments
    /\ row'[s].status = status
    /\ row'[s].reason = reason
    /\ row'[s].backup = row[s].backup
    /\ row'[s].updated = now
    /\ \A t \in Segments \ {s} : row'[t] = row[t]

LEMMA UpdateRowChanges ==
    ASSUME TypeOK, NEW s \in Segments, NEW new \in Rows, UpdateRow(s, new)
    PROVE  /\ row'[s].status = new.status
           /\ row'[s].reason = new.reason
           /\ row'[s].backup = new.backup
           /\ row'[s].updated = now
           /\ \A t \in Segments \ {s} : row'[t] = row[t]
BY DEF TypeOK, Rows, UpdateRow

LEMMA MarkDeletedChanges ==
    ASSUME TypeOK, NEW s \in Segments, NEW reason, MarkDeleted(s, reason)
    PROVE  Changed(s, "deleted", reason) /\ row[s].status = "ready"
BY DEF TypeOK, Rows, MarkDeleted, UpdateRow, Changed

LEMMA OpenSegmentChanges ==
    ASSUME TypeOK, NEW s \in Segments, OpenSegment(s)
    PROVE  Changed(s, "recording", row[s].reason)
BY DEF TypeOK, Rows, OpenSegment, UpdateRow, Changed

LEMMA MoveFailsChanges ==
    ASSUME TypeOK, NEW s \in Segments, MoveFails(s)
    PROVE  Changed(s, "failed", row[s].reason)
BY DEF TypeOK, Rows, MoveFails, UpdateRow, Changed

LEMMA TakesRowBackChanges ==
    ASSUME TypeOK, deletion.seg \in Segments, DeleteTakesRowBack
    PROVE  UNCHANGED row \/ Changed(deletion.seg, "ready", "delete failed")
<1> DEFINE s == deletion.seg
           new == [row[s] EXCEPT !.status = "ready", !.reason = "delete failed"]
<1>1. row[s] \in Rows
  BY DEF TypeOK
<1>2. new \in Rows
  BY <1>1 DEF Rows, RowStatuses, Reasons
<1>3. new.status = "ready" /\ new.reason = "delete failed" /\ new.backup = row[s].backup
  BY <1>1 DEF Rows
<1>4. UpdateRow(s, new) \/ UNCHANGED row
  BY DEF DeleteTakesRowBack
<1> HIDE DEF new
<1> QED
  BY <1>2, <1>3, <1>4, UpdateRowChanges DEF Changed

LEMMA CloseSegmentChanges ==
    ASSUME TypeOK, CloseSegment
    PROVE  /\ closing \in Segments
           /\ \A t \in Segments \ {closing} : row'[t] = row[t]
           /\ \/ row'[closing] = row[closing]
              \/ /\ row'[closing].status \in {"ready", "failed"}
                 /\ row'[closing].updated = now
                 /\ row'[closing].backup \in {"pending", row[closing].backup}
<1>1. closing \in Segments /\ row[closing] \in Rows
  BY DEF TypeOK, CloseSegment
<1>2. CASE UNCHANGED row
  BY <1>1, <1>2
<1>3. CASE UpdateRow(closing, [row[closing] EXCEPT !.status = "failed"])
  <2> DEFINE new == [row[closing] EXCEPT !.status = "failed"]
  <2>1. new \in Rows
    BY <1>1 DEF Rows, RowStatuses
  <2>2. new.status = "failed" /\ new.backup = row[closing].backup
    BY <1>1 DEF Rows
  <2> HIDE DEF new
  <2>3. UpdateRow(closing, new)
    BY <1>3 DEF new
  <2> QED
    BY <1>1, <2>1, <2>2, <2>3, UpdateRowChanges
<1>4. ASSUME NEW status \in {"ready", "failed"},
             UpdateRow(closing, [NoRow EXCEPT !.status = status, !.archived = TRUE])
      PROVE  /\ \A t \in Segments \ {closing} : row'[t] = row[t]
             /\ row'[closing].status \in {"ready", "failed"}
             /\ row'[closing].updated = now
             /\ row'[closing].backup = "pending"
  <2> DEFINE new == [NoRow EXCEPT !.status = status, !.archived = TRUE]
  <2>1. new \in Rows
    BY NoRowType DEF RowStatuses
  <2>2. new.status = status /\ new.backup = "pending"
    BY DEF NoRow
  <2> HIDE DEF new
  <2>3. UpdateRow(closing, new)
    BY <1>4 DEF new
  <2> QED
    BY <1>1, <2>1, <2>2, <2>3, UpdateRowChanges
<1> QED
  BY <1>1, <1>2, <1>3, <1>4 DEF CloseSegment

LEMMA MarkBackedUpChanges ==
    ASSUME TypeOK, NEW j \in JobIds, MarkBackedUp(j), NEW s \in Segments
    PROVE  /\ row'[s].status = row[s].status
           /\ row'[s].reason = row[s].reason
           /\ \/ row'[s] = row[s]
              \/ /\ row[s].status = "ready"
                 /\ row[s].updated <= run[j].cutoff
                 /\ row'[s].backup = "backed_up"
                 /\ row'[s].updated = now
<1>1. row[s] \in Rows
  BY DEF TypeOK
<1>2. CASE s \in PendingBackup(run[j].cutoff)
  <2>1. row'[s] = [row[s] EXCEPT !.backup = "backed_up", !.updated = now]
    BY <1>2 DEF MarkBackedUp
  <2>2. row[s].status = "ready" /\ row[s].updated <= run[j].cutoff
    BY <1>2 DEF PendingBackup
  <2>3. /\ row'[s].status = row[s].status /\ row'[s].reason = row[s].reason
        /\ row'[s].backup = "backed_up" /\ row'[s].updated = now
    BY <1>1, <2>1 DEF Rows
  <2> QED
    BY <2>2, <2>3
<1>3. CASE s \notin PendingBackup(run[j].cutoff)
  <2>1. row'[s] = row[s]
    BY <1>3 DEF MarkBackedUp
  <2> QED
    BY <2>1
<1> QED
  BY <1>2, <1>3

LEMMA RestartChanges ==
    ASSUME TypeOK, DaemonRestarts, NEW s \in Segments
    PROVE  /\ row'[s].reason = row[s].reason
           /\ row'[s].backup = row[s].backup
           /\ \/ row'[s] = row[s]
              \/ /\ row[s].status = "recording"
                 /\ row'[s].status = "failed"
                 /\ row'[s].updated = now
<1>1. row[s] \in Rows
  BY DEF TypeOK
<1>2. row'[s] = IF s \in Interrupted
                THEN [row[s] EXCEPT !.status = "failed", !.updated = now] ELSE row[s]
  BY DEF DaemonRestarts
<1>3. CASE row[s].status = "recording"
  <2>1. row'[s] = [row[s] EXCEPT !.status = "failed", !.updated = now]
    BY <1>2, <1>3 DEF Interrupted
  <2>2. /\ row'[s].status = "failed" /\ row'[s].reason = row[s].reason
        /\ row'[s].backup = row[s].backup /\ row'[s].updated = now
    BY <1>1, <2>1 DEF Rows
  <2> QED
    BY <1>3, <2>2
<1>4. CASE row[s].status # "recording"
  BY <1>2, <1>4 DEF Interrupted
<1> QED
  BY <1>3, <1>4

-----------------------------------------------------------------------------
(* The inductive step, one lemma per conjunct. *)

\* What the type invariant says of one segment, and what keeps a segment in hand
\* from being opened.
LEMMA InHand ==
    ASSUME IInv
    PROVE  /\ closing # None => closing \in Segments /\ row[closing].status # "absent"
           /\ deletion.pc # "idle" => deletion.seg \in Segments /\ row[deletion.seg].status # "absent"
           /\ row \in [Segments -> Rows] /\ file \in [Segments -> FileStates] /\ archive \subseteq Segments
<1>1. row \in [Segments -> Rows] /\ file \in [Segments -> FileStates] /\ archive \subseteq Segments
  BY DEF IInv, TypeOK
<1>2. closing # None => closing \in Segments /\ row[closing].status # "absent"
  BY DEF IInv, TypeOK, DeleteInv, FileInv, None
<1>3. deletion.pc # "idle" => deletion.seg \in Segments /\ row[deletion.seg].status # "absent"
  <2> SUFFICES ASSUME deletion.pc # "idle"
               PROVE  deletion.seg \in Segments /\ row[deletion.seg].status # "absent"
    OBVIOUS
  <2>1. deletion.seg \in Segments
    BY DEF IInv, DeleteInv
  <2>2. deletion.pc \in {"staged", "marked", "restored"}
    BY DEF IInv, TypeOK
  <2>3. file[deletion.seg] \in {"final", "staged"} \/ deletion.seg \in archive
    BY <2>2 DEF IInv, DeleteInv
  <2> QED
    BY <2>1, <2>3 DEF IInv, FileInv
<1> QED
  BY <1>1, <1>2, <1>3

\* A delete that is staged holds the lock, alone.
LEMMA StageDeleteInv ==
    ASSUME IInv, NEW s \in Segments, NEW by, StageDelete(s, by), UNCHANGED <<closing, archive, row>>
    PROVE  DeleteInv'
<1>1. closing' = None
  BY DEF StageDelete, LockFree
<1>2. deletion' = [pc |-> "staged", seg |-> s, by |-> by] /\ file'[s] = "staged"
  BY InHand DEF StageDelete
<1>3. by # Operator => s \in archive'
  BY DEF StageDelete, MayDelete, IInv, ArchivedInv
<1> QED
  BY <1>1, <1>2, <1>3 DEF DeleteInv

LEMMA DeleteInvStep ==
    ASSUME IInv, [Next]_vars
    PROVE  DeleteInv'
<1> DEFINE Read == <<closing, deletion, file, archive, row>>
<1>0. /\ DeleteInv
      /\ deletion.pc \in {"idle", "staged", "marked", "restored"}
      /\ closing # None => closing \in Segments /\ row[closing].status # "absent"
      /\ deletion.pc # "idle" => deletion.seg \in Segments /\ row[deletion.seg].status # "absent"
      /\ row \in [Segments -> Rows] /\ file \in [Segments -> FileStates] /\ archive \subseteq Segments
  BY InHand DEF IInv, TypeOK
<1>1. CASE UNCHANGED Read
  BY <1>0, <1>1 DEF DeleteInv
\* An action on the row of a segment that is not being deleted, and on nothing else.
<1>2. ASSUME UNCHANGED <<closing, deletion, file, archive>>, NEW s \in Segments,
             \A t \in Segments \ {s} : row'[t] = row[t],
             deletion.pc # "marked" \/ s # deletion.seg
      PROVE  DeleteInv'
  BY <1>0, <1>2 DEF DeleteInv
<1>3. ASSUME NEW s \in Segments, OpenSegment(s)  PROVE DeleteInv'
  <2>1. \A t \in Segments \ {s} : row'[t] = row[t] /\ file'[t] = file[t]
    BY <1>0, <1>3, OpenSegmentChanges DEF Changed, OpenSegment, IInv
  <2>2. UNCHANGED <<closing, deletion, archive>> /\ row[s].status = "absent"
    BY <1>3 DEF OpenSegment
  <2>3. closing # None => file'[closing] = file[closing]
    BY <1>0, <2>1, <2>2
  <2>4. deletion.pc # "idle" => row'[deletion.seg] = row[deletion.seg] /\ file'[deletion.seg] = file[deletion.seg]
    BY <1>0, <2>1, <2>2
  <2> QED
    BY <1>0, <2>2, <2>3, <2>4 DEF DeleteInv
<1>4. ASSUME NEW s \in Segments, MoveToRecordings(s)  PROVE DeleteInv'
  BY <1>0, <1>4 DEF DeleteInv, MoveToRecordings, LockFree
<1>5. ASSUME NEW s \in Segments, MoveFails(s)  PROVE DeleteInv'
  BY <1>0, <1>5 DEF DeleteInv, MoveFails, LockFree
<1>6. CASE CloseSegment
  BY <1>0, <1>6 DEF DeleteInv, CloseSegment
<1>7. CASE DeleteMarks
  <2>1. Changed(deletion.seg, "deleted", Reason(deletion.by))
    BY <1>0, <1>7, MarkDeletedChanges DEF DeleteMarks, IInv
  <2>2. deletion' = [deletion EXCEPT !.pc = "marked"] /\ deletion.pc = "staged"
        /\ UNCHANGED <<closing, file, archive>>
    BY <1>7 DEF DeleteMarks
  <2>3. deletion'.pc = "marked" /\ deletion'.seg = deletion.seg /\ deletion'.by = deletion.by
    BY <2>2 DEF IInv, TypeOK
  <2>4. closing' = None
    BY <1>0, <2>2 DEF DeleteInv
  <2>5. row'[deletion.seg].status = "deleted"
        /\ (deletion.by = Operator => row'[deletion.seg].reason = "operator delete")
    BY <2>1 DEF Changed, Reason
  <2>6. /\ deletion.seg \in Segments /\ file[deletion.seg] = "staged"
        /\ deletion.by # Operator => deletion.seg \in archive
    BY <2>2 DEF IInv, DeleteInv
  <2>7. file' = file /\ archive' = archive
    BY <2>2
  <2> QED
    BY <2>3, <2>4, <2>5, <2>6, <2>7 DEF DeleteInv
<1>8. CASE DeleteRestores \/ DeleteRemoves \/ DeleteTakesRowBack
  <2>0. deletion.pc # "idle" /\ deletion' = NoDeletion /\ closing' = closing
    BY <1>8 DEF DeleteRestores, DeleteRemoves, DeleteTakesRowBack
  <2>1. deletion'.pc = "idle" /\ closing' = None
    BY <1>0, <2>0 DEF NoDeletion, DeleteInv
  <2> QED
    BY <2>1 DEF DeleteInv
<1>9. CASE DeleteTakesFileBack
  <2>1. deletion'.pc = "restored" /\ deletion'.seg = deletion.seg /\ deletion'.by = deletion.by
    BY <1>9 DEF DeleteTakesFileBack, IInv, TypeOK
  <2>2. closing' = None /\ file'[deletion.seg] \in {"final", "staged"} /\ archive' = archive
    BY <1>0, <1>9 DEF DeleteTakesFileBack, RenameBack, DeleteInv
  <2> QED
    BY <1>0, <1>9, <2>1, <2>2 DEF DeleteInv, DeleteTakesFileBack
<1>10. CASE CleanerRemoves
  <2>1. CASE UNCHANGED file
    BY <1>1, <1>10, <2>1 DEF CleanerRemoves
  <2>2. CASE file[cleaner.seg] = "final" /\ file' = [file EXCEPT ![cleaner.seg] = "gone"]
    <3>1. cleaner.seg \in archive
      BY <1>10 DEF CleanerRemoves, IInv, ArchivedInv
    <3>2. UNCHANGED <<closing, deletion, archive, row>>
      BY <1>10 DEF CleanerRemoves
    <3> QED
      BY <1>0, <2>2, <3>1, <3>2 DEF DeleteInv
  <2> QED
    BY <1>10, <2>1, <2>2 DEF CleanerRemoves
<1>11. CASE CleanerMarks
  <2>1. cleaner.seg \in Segments
    BY <1>0, <1>11 DEF CleanerMarks, IInv, ArchivedInv
  <2>2. CASE UNCHANGED row
    BY <1>1, <1>11, <2>2 DEF CleanerMarks
  <2>3. ASSUME NEW reason, MarkDeleted(cleaner.seg, reason)  PROVE DeleteInv'
    <3>1. Changed(cleaner.seg, "deleted", reason) /\ row[cleaner.seg].status = "ready"
      BY <2>1, <2>3, MarkDeletedChanges DEF IInv
    <3>2. deletion.pc = "marked" => deletion.seg # cleaner.seg
      BY <1>0, <3>1 DEF DeleteInv
    <3> QED
      BY <1>2, <1>11, <2>1, <3>1, <3>2 DEF Changed, CleanerMarks
  <2> QED
    BY <1>11, <2>2, <2>3 DEF CleanerMarks
<1>12. ASSUME NEW j \in JobIds, RcloneCopies(j)  PROVE DeleteInv'
  BY <1>0, <1>12 DEF RcloneCopies, DeleteInv
<1>13. ASSUME NEW j \in JobIds, MarkBackedUp(j)  PROVE DeleteInv'
  <2>1. \A s \in Segments : row'[s].status = row[s].status /\ row'[s].reason = row[s].reason
    BY <1>13, MarkBackedUpChanges DEF IInv
  <2> QED
    BY <1>0, <1>13, <2>1 DEF MarkBackedUp, DeleteInv
<1>14. ASSUME NEW j \in JobIds, BackupDeletes(j)  PROVE DeleteInv'
  BY <1>1, <1>14, StageDeleteInv DEF BackupDeletes
<1>15. ASSUME NEW s \in Segments, OperatorDeletes(s)  PROVE DeleteInv'
  BY <1>15, StageDeleteInv DEF OperatorDeletes
<1>16. CASE DaemonRestarts
  BY <1>16 DEF DaemonRestarts, DeleteInv, NoDeletion
<1> QED
  BY <1>1, <1>3, <1>4, <1>5, <1>6, <1>7, <1>8, <1>9, <1>10, <1>11, <1>12, <1>13, <1>14, <1>15, <1>16
  DEF vars, Next, RecorderStep, DeleteStep, CleanerStep, RunStep, RcloneStep, OperatorStep, CleanerStarts,
      CleanerStops, CleanerStats, BackupStartFails, BackupJobStarts, BackupLaunches, RcloneLists,
      RcloneSucceeds, RcloneFails, ListBackedUp, BackupStepFails, BackupEnds, RunTimesOut, BackupStarts,
      OperatorCancels, OperatorMovesJob, Tick

\* ProtectUnbacked is what keeps the cleaner's list in the archive.
LEMMA ArchivedInvStep ==
    ASSUME IInv, [Next]_vars, ProtectUnbacked = TRUE
    PROVE  ArchivedInv'
<1>0. /\ ArchivedInv
      /\ row \in [Segments -> Rows] /\ archive \subseteq Segments
      /\ TypeOK
  BY DEF IInv, TypeOK
<1>1. CASE UNCHANGED <<cleaner, archive, row>>
  BY <1>0, <1>1 DEF ArchivedInv
\* An action on one row that makes no mark.
<1>2. ASSUME UNCHANGED archive, NEW s \in Segments, \A t \in Segments \ {s} : row'[t] = row[t],
             row'[s].backup \in {"pending", row[s].backup},
             cleaner'.list \subseteq archive,
             cleaner'.pc \in {"found", "missing", "removed"} => cleaner'.seg \in archive
      PROVE  ArchivedInv'
  BY <1>0, <1>2 DEF ArchivedInv
<1>3. ASSUME NEW s \in Segments, OpenSegment(s) \/ MoveFails(s)  PROVE ArchivedInv'
  BY <1>0, <1>2, <1>3, OpenSegmentChanges, MoveFailsChanges DEF Changed, OpenSegment, MoveFails, ArchivedInv
<1>4. CASE CloseSegment
  <2>1. closing \in Segments /\ UNCHANGED <<cleaner, archive>>
    BY <1>0, <1>4, CloseSegmentChanges DEF CloseSegment
  <2>2. row'[closing].backup \in {"pending", row[closing].backup}
        /\ \A t \in Segments \ {closing} : row'[t] = row[t]
    BY <1>0, <1>4, CloseSegmentChanges
  <2> QED
    BY <1>0, <1>2, <2>1, <2>2 DEF ArchivedInv
<1>5. CASE DeleteMarks
  <2>1. deletion.seg \in Segments /\ UNCHANGED <<cleaner, archive>>
    BY <1>5, InHand DEF DeleteMarks
  <2>2. Changed(deletion.seg, "deleted", Reason(deletion.by))
    BY <1>0, <1>5, <2>1, MarkDeletedChanges DEF DeleteMarks
  <2> QED
    BY <1>0, <1>2, <2>1, <2>2 DEF ArchivedInv, Changed
<1>6. CASE DeleteTakesRowBack
  <2>1. deletion.seg \in Segments /\ UNCHANGED <<cleaner, archive>>
    BY <1>6, InHand DEF DeleteTakesRowBack
  <2>2. UNCHANGED row \/ Changed(deletion.seg, "ready", "delete failed")
    BY <1>0, <1>6, <2>1, TakesRowBackChanges
  <2> QED
    BY <1>0, <1>1, <1>2, <2>1, <2>2 DEF ArchivedInv, Changed
<1>7. CASE CleanerStarts
  <2>1. Deletable \subseteq archive
    BY <1>0 DEF Deletable, ArchivedInv
  <2> QED
    BY <1>0, <1>7, <2>1 DEF CleanerStarts, ArchivedInv
<1>8. CASE CleanerStops
  BY <1>0, <1>8 DEF CleanerStops, IdleCleaner, ArchivedInv
<1>9. CASE CleanerStats
  BY <1>0, <1>9 DEF CleanerStats, First, ArchivedInv, TypeOK
<1>10. CASE CleanerRemoves
  BY <1>0, <1>10 DEF CleanerRemoves, IdleCleaner, ArchivedInv, TypeOK
<1>11. CASE CleanerMarks
  <2>1. cleaner.seg \in Segments /\ UNCHANGED archive
    BY <1>0, <1>11 DEF CleanerMarks, ArchivedInv
  <2>2. cleaner'.list \subseteq archive /\ cleaner'.pc \notin {"found", "missing", "removed"}
    <3>1. cleaner' \in {IdleCleaner, [pc |-> "next", seg |-> None, list |-> cleaner.list \ {cleaner.seg}]}
      BY <1>11 DEF CleanerMarks
    <3>2. cleaner.list \subseteq archive
      BY <1>0 DEF ArchivedInv
    <3> QED
      BY <3>1, <3>2 DEF IdleCleaner
  <2>3. CASE UNCHANGED row
    BY <1>0, <2>1, <2>2, <2>3 DEF ArchivedInv
  <2>4. ASSUME NEW reason, MarkDeleted(cleaner.seg, reason)  PROVE ArchivedInv'
    BY <1>0, <1>2, <2>1, <2>2, <2>4, MarkDeletedChanges DEF Changed
  <2> QED
    BY <1>11, <2>3, <2>4 DEF CleanerMarks
<1>12. ASSUME NEW j \in JobIds, RcloneCopies(j)  PROVE ArchivedInv'
  BY <1>0, <1>12 DEF RcloneCopies, ArchivedInv
<1>13. ASSUME NEW j \in JobIds, MarkBackedUp(j)  PROVE ArchivedInv'
  <2>1. UNCHANGED <<cleaner, archive>> /\ run[j].pc = "copied"
    BY <1>13 DEF MarkBackedUp
  <2>2. ASSUME NEW s \in Segments, row'[s].backup = "backed_up"  PROVE s \in archive
    <3>1. CASE row'[s] = row[s]
      BY <1>0, <2>2, <3>1 DEF ArchivedInv
    <3>2. CASE row[s].status = "ready" /\ row[s].updated <= run[j].cutoff
      BY <2>1, <3>2 DEF IInv, RunInv, Due
    <3> QED
      BY <1>0, <1>13, <3>1, <3>2, MarkBackedUpChanges
  <2> QED
    BY <1>0, <2>1, <2>2 DEF ArchivedInv
<1>14. CASE DaemonRestarts
  <2>1. \A s \in Segments : row'[s].backup = row[s].backup
    BY <1>0, <1>14, RestartChanges
  <2> QED
    BY <1>0, <1>14, <2>1 DEF DaemonRestarts, IdleCleaner, ArchivedInv
<1> QED
  BY <1>1, <1>3, <1>4, <1>5, <1>6, <1>7, <1>8, <1>9, <1>10, <1>11, <1>12, <1>13, <1>14
  DEF vars, Next, RecorderStep, DeleteStep, CleanerStep, RunStep, RcloneStep, OperatorStep, MoveToRecordings,
      DeleteRestores, DeleteRemoves, DeleteTakesFileBack, BackupStartFails, BackupJobStarts, BackupLaunches,
      RcloneLists, RcloneSucceeds, RcloneFails, ListBackedUp, BackupStepFails, BackupDeletes, BackupEnds,
      RunTimesOut, OperatorDeletes, BackupStarts, OperatorCancels, OperatorMovesJob, Tick

LEMMA FileInvStep ==
    ASSUME IInv, [Next]_vars
    PROVE  FileInv'
<1>0. /\ FileInv /\ DeleteInv /\ TypeOK
      /\ closing # None => closing \in Segments /\ row[closing].status # "absent"
      /\ deletion.pc # "idle" => deletion.seg \in Segments /\ row[deletion.seg].status # "absent"
      /\ row \in [Segments -> Rows] /\ file \in [Segments -> FileStates] /\ archive \subseteq Segments
  BY InHand DEF IInv
<1> DEFINE At(s) ==
        /\ row[s].status = "absent" => file[s] = "absent" /\ s \notin archive
        /\ row[s].status = "ready" => InDirectory(s) \/ s \in archive
        /\ file[s] = "gone" =>
             \/ s \in archive
             \/ row[s].status = "deleted" /\ row[s].reason = "operator delete"
<1>a. \A s \in Segments : At(s)
  BY <1>0 DEF FileInv
<1>g. (\A s \in Segments : At(s)') => FileInv'
  BY DEF FileInv
\* An action on one segment.
<1>s. ASSUME UNCHANGED archive, NEW s \in Segments,
             \A t \in Segments \ {s} : row'[t] = row[t] /\ file'[t] = file[t], At(s)'
      PROVE  FileInv'
  <2>1. ASSUME NEW t \in Segments \ {s}  PROVE At(t)'
    BY <1>a, <1>s, <2>1 DEF InDirectory
  <2> QED
    BY <1>g, <1>s, <2>1
<1> HIDE DEF At
<1>1. CASE UNCHANGED <<row, file, archive>>
  BY <1>a, <1>g, <1>1 DEF At, InDirectory
<1>2. ASSUME NEW s \in Segments, OpenSegment(s)  PROVE FileInv'
  <2>1. Changed(s, "recording", row[s].reason)
    BY <1>0, <1>2, OpenSegmentChanges
  <2>2. file'[s] = "temp" /\ (\A t \in Segments \ {s} : file'[t] = file[t]) /\ UNCHANGED archive
    BY <1>0, <1>2 DEF OpenSegment
  <2>3. At(s)'
    BY <2>1, <2>2 DEF At, Changed
  <2> QED
    BY <1>s, <2>1, <2>2, <2>3 DEF Changed
<1>3. ASSUME NEW s \in Segments, MoveToRecordings(s)  PROVE FileInv'
  <2>1. file'[s] = "final" /\ (\A t \in Segments \ {s} : file'[t] = file[t]) /\ UNCHANGED <<row, archive>>
    BY <1>0, <1>3 DEF MoveToRecordings
  <2>2. At(s)'
    BY <1>3, <2>1 DEF At, MoveToRecordings, InDirectory
  <2> QED
    BY <1>s, <2>1, <2>2
<1>4. ASSUME NEW s \in Segments, MoveFails(s)  PROVE FileInv'
  <2>1. Changed(s, "failed", row[s].reason) /\ UNCHANGED <<file, archive>> /\ file[s] = "temp"
    BY <1>0, <1>4, MoveFailsChanges DEF MoveFails
  <2>2. At(s)'
    BY <2>1 DEF At, Changed
  <2> QED
    BY <1>s, <2>1, <2>2 DEF Changed
<1>5. CASE CloseSegment
  <2>0. PICK s \in Segments : s = closing
    BY <1>0, <1>5, CloseSegmentChanges
  <2>1. UNCHANGED <<file, archive>>
    BY <1>5 DEF CloseSegment
  <2>2. (\A t \in Segments \ {s} : row'[t] = row[t])
        /\ (row'[s] = row[s] \/ row'[s].status \in {"ready", "failed"})
    BY <1>0, <1>5, <2>0, CloseSegmentChanges
  <2>3. file[s] = "final" \/ s \in archive
    BY <1>0, <1>5, <2>0 DEF CloseSegment, DeleteInv
  <2>4. At(s)'
    BY <1>a, <2>1, <2>2, <2>3 DEF At, InDirectory
  <2> QED
    BY <1>s, <2>1, <2>2, <2>4
\* A deleted mark is put on a ready row only.
<1>m. ASSUME NEW s \in Segments, NEW reason, MarkDeleted(s, reason), UNCHANGED <<file, archive>>
      PROVE  FileInv'
  <2>1. Changed(s, "deleted", reason) /\ row[s].status = "ready"
    BY <1>0, <1>m, MarkDeletedChanges
  <2>2. InDirectory(s) \/ s \in archive
    BY <1>a, <2>1 DEF At
  <2>3. At(s)'
    BY <1>m, <2>1, <2>2 DEF At, Changed, InDirectory
  <2> QED
    BY <1>s, <1>m, <2>1, <2>3 DEF Changed
<1>6. CASE DeleteMarks
  BY <1>0, <1>6, <1>m DEF DeleteMarks
<1>7. CASE DeleteRestores \/ DeleteTakesFileBack
  <2>0. PICK s \in Segments : s = deletion.seg
    BY <1>0, <1>7 DEF DeleteRestores, DeleteTakesFileBack
  <2>1. row[s].status # "absent" /\ file[s] = "staged"
    BY <1>0, <1>7, <2>0 DEF DeleteRestores, DeleteTakesFileBack, DeleteInv
  <2>2. /\ file'[s] \in {"final", "staged"} /\ (\A t \in Segments \ {s} : file'[t] = file[t])
        /\ UNCHANGED <<row, archive>>
    BY <1>0, <1>7, <2>0, <2>1 DEF DeleteRestores, DeleteTakesFileBack, RenameBack
  <2>3. At(s)'
    BY <2>1, <2>2 DEF At, InDirectory
  <2> QED
    BY <1>s, <2>1, <2>2, <2>3
<1>8. CASE DeleteRemoves
  <2>0. PICK s \in Segments : s = deletion.seg
    BY <1>0, <1>8 DEF DeleteRemoves
  <2>1. deletion.pc = "marked"
    BY <1>8 DEF DeleteRemoves
  <2>2. (\A t \in Segments \ {s} : file'[t] = file[t]) /\ UNCHANGED <<row, archive>>
    BY <1>0, <1>8, <2>0 DEF DeleteRemoves
  <2>3. row[s].status = "deleted" /\ (row[s].reason = "operator delete" \/ s \in archive)
    BY <1>0, <2>0, <2>1 DEF DeleteInv
  <2>4. At(s)'
    BY <2>2, <2>3 DEF At
  <2> QED
    BY <1>s, <2>1, <2>2, <2>4
<1>9. CASE DeleteTakesRowBack
  <2>0. PICK s \in Segments : s = deletion.seg
    BY <1>0, <1>9 DEF DeleteTakesRowBack
  <2>1. deletion.pc = "restored" /\ UNCHANGED <<file, archive>>
    BY <1>9 DEF DeleteTakesRowBack
  <2>2. UNCHANGED row \/ Changed(s, "ready", "delete failed")
    BY <1>0, <1>9, <2>0, TakesRowBackChanges
  <2>3. file[s] \in {"final", "staged"} \/ s \in archive
    BY <1>0, <2>0, <2>1 DEF DeleteInv
  <2>4. CASE Changed(s, "ready", "delete failed")
    <3>1. At(s)'
      BY <2>1, <2>3, <2>4 DEF At, Changed, InDirectory
    <3> QED
      BY <1>s, <2>1, <2>4, <3>1 DEF Changed
  <2> QED
    BY <1>1, <2>1, <2>2, <2>4
<1>10. CASE CleanerRemoves
  <2>0. PICK s \in Segments : s = cleaner.seg
    BY <1>0, <1>10 DEF CleanerRemoves, IInv, ArchivedInv
  <2>1. s \in archive /\ UNCHANGED <<row, archive>>
    BY <1>10, <2>0 DEF CleanerRemoves, IInv, ArchivedInv
  <2>2. CASE UNCHANGED file
    BY <1>1, <2>1, <2>2
  <2>3. CASE file[s] = "final" /\ file' = [file EXCEPT ![s] = "gone"]
    <3>1. \A t \in Segments \ {s} : file'[t] = file[t]
      BY <1>0, <2>3
    <3>2. row[s].status # "absent"
      BY <1>0, <1>a, <2>1 DEF At
    <3>3. At(s)'
      BY <2>1, <3>2 DEF At
    <3> QED
      BY <1>s, <2>1, <3>1, <3>2, <3>3
  <2> QED
    BY <1>10, <2>0, <2>2, <2>3 DEF CleanerRemoves
<1>11. CASE CleanerMarks
  <2>1. cleaner.seg \in Segments /\ UNCHANGED <<file, archive>>
    BY <1>0, <1>11 DEF CleanerMarks, IInv, ArchivedInv
  <2> QED
    BY <1>1, <1>m, <1>11, <2>1 DEF CleanerMarks
<1>12. ASSUME NEW j \in JobIds, RcloneCopies(j)  PROVE FileInv'
  <2>1. PICK s \in Segments : /\ run[j].listing[s] # "missing"
                              /\ archive' = IF file[s] = run[j].listing[s] THEN archive \cup {s} ELSE archive
    BY <1>12 DEF RcloneCopies
  <2>2. UNCHANGED <<row, file>>
    BY <1>12 DEF RcloneCopies
  <2>3. run[j].listing[s] \in {"final", "staged", "missing"}
    <3>1. run[j] \in RunRecords
      BY <1>0 DEF TypeOK
    <3> QED
      BY <3>1 DEF RunRecords
  <2>4. ASSUME NEW t \in Segments  PROVE At(t)'
    BY <1>a, <2>1, <2>2, <2>3 DEF At, InDirectory
  <2> QED
    BY <1>g, <2>4
<1>13. ASSUME NEW j \in JobIds, MarkBackedUp(j)  PROVE FileInv'
  <2>1. \A s \in Segments : row'[s].status = row[s].status /\ row'[s].reason = row[s].reason
    BY <1>0, <1>13, MarkBackedUpChanges
  <2>2. UNCHANGED <<file, archive>>
    BY <1>13 DEF MarkBackedUp
  <2> QED
    BY <1>a, <1>g, <2>1, <2>2 DEF At, InDirectory
<1>14. ASSUME NEW s \in Segments, NEW by, StageDelete(s, by), UNCHANGED <<row, archive>>  PROVE FileInv'
  <2>1. file'[s] = "staged" /\ (\A t \in Segments \ {s} : file'[t] = file[t]) /\ row[s].status = "ready"
    BY <1>0, <1>14 DEF StageDelete, MayDelete
  <2>2. At(s)'
    BY <1>14, <2>1 DEF At, InDirectory
  <2> QED
    BY <1>s, <1>14, <2>1, <2>2
<1>15. ASSUME NEW j \in JobIds, BackupDeletes(j)  PROVE FileInv'
  BY <1>1, <1>14, <1>15 DEF BackupDeletes
<1>16. ASSUME NEW s \in Segments, OperatorDeletes(s)  PROVE FileInv'
  BY <1>14, <1>16 DEF OperatorDeletes
<1>17. CASE DaemonRestarts
  <2>1. UNCHANGED archive
    BY <1>17 DEF DaemonRestarts
  <2>2. ASSUME NEW s \in Segments  PROVE At(s)'
    <3>1. file'[s] = file[s] \/ (file[s] = "temp" /\ file'[s] = "quarantine" /\ s \in Interrupted)
      BY <1>17 DEF DaemonRestarts
    <3>2. /\ row'[s].reason = row[s].reason
          /\ \/ row'[s] = row[s]
             \/ row[s].status = "recording" /\ row'[s].status = "failed"
      BY <1>0, <1>17, RestartChanges
    <3> QED
      BY <1>a, <2>1, <3>1, <3>2 DEF At, InDirectory
  <2> QED
    BY <1>g, <2>2
<1> QED
  BY <1>1, <1>2, <1>3, <1>4, <1>5, <1>6, <1>7, <1>8, <1>9, <1>10, <1>11, <1>12, <1>13, <1>15, <1>16, <1>17
  DEF vars, Next, RecorderStep, DeleteStep, CleanerStep, RunStep, RcloneStep, OperatorStep, CleanerStarts,
      CleanerStops, CleanerStats, BackupStartFails, BackupJobStarts, BackupLaunches, RcloneLists,
      RcloneSucceeds, RcloneFails, ListBackedUp, BackupStepFails, BackupEnds, RunTimesOut, BackupStarts,
      OperatorCancels, OperatorMovesJob, Tick

\* updated_at only moves to the present; a row becomes ready when its segment is
\* closed or a delete gives it back.
LEMMA RowStep ==
    ASSUME IInv, [Next]_vars, NEW s \in Segments
    PROVE  /\ row'[s].updated \in {row[s].updated, now}
           /\ row'[s].status = "ready" =>
                \/ row[s].status = "ready"
                \/ CloseSegment /\ row'[s].updated = now
                \/ deletion.pc # "idle" /\ deletion.seg = s /\ row'[s].updated = now
<1> DEFINE Good == /\ row'[s].updated \in {row[s].updated, now}
                   /\ row'[s].status = "ready" =>
                        \/ row[s].status = "ready"
                        \/ CloseSegment /\ row'[s].updated = now
                        \/ deletion.pc # "idle" /\ deletion.seg = s /\ row'[s].updated = now
<1> SUFFICES Good
  OBVIOUS
<1>0. TypeOK
  BY DEF IInv
<1>1. CASE row'[s] = row[s]
  BY <1>1
<1>2. ASSUME NEW t \in Segments, NEW status, NEW reason, Changed(t, status, reason),
             \/ status \in {"recording", "failed", "deleted"}
             \/ deletion.pc # "idle" /\ deletion.seg = t
      PROVE  Good
  BY <1>1, <1>2 DEF Changed
<1>3. ASSUME NEW t \in Segments, OpenSegment(t)  PROVE Good
  BY <1>0, <1>2, <1>3, OpenSegmentChanges
<1>4. ASSUME NEW t \in Segments, MoveFails(t)  PROVE Good
  BY <1>0, <1>2, <1>4, MoveFailsChanges
<1>5. CASE CloseSegment
  <2>1. CASE s = closing
    BY <1>0, <1>5, <2>1, CloseSegmentChanges
  <2>2. CASE s # closing
    BY <1>0, <1>1, <1>5, <2>2, CloseSegmentChanges
  <2> QED
    BY <2>1, <2>2
<1>6. CASE DeleteMarks
  BY <1>0, <1>2, <1>6, InHand, MarkDeletedChanges DEF DeleteMarks
<1>7. CASE DeleteTakesRowBack
  <2>1. deletion.pc # "idle" /\ deletion.seg \in Segments
    BY <1>7, InHand DEF DeleteTakesRowBack
  <2> QED
    BY <1>0, <1>1, <1>2, <1>7, <2>1, TakesRowBackChanges
<1>8. CASE CleanerMarks
  <2>1. cleaner.seg \in Segments
    BY <1>8, <1>0 DEF CleanerMarks, IInv, ArchivedInv, TypeOK
  <2> QED
    BY <1>0, <1>1, <1>2, <1>8, <2>1, MarkDeletedChanges DEF CleanerMarks
<1>9. ASSUME NEW j \in JobIds, MarkBackedUp(j)  PROVE Good
  BY <1>0, <1>9, MarkBackedUpChanges
<1>10. CASE DaemonRestarts
  BY <1>0, <1>10, RestartChanges
<1> QED
  BY <1>1, <1>3, <1>4, <1>5, <1>6, <1>7, <1>8, <1>9, <1>10
  DEF vars, Next, RecorderStep, DeleteStep, CleanerStep, RunStep, RcloneStep, OperatorStep, MoveToRecordings,
      DeleteRestores, DeleteRemoves, DeleteTakesFileBack, CleanerStarts, CleanerStops, CleanerStats,
      CleanerRemoves, BackupStartFails, BackupJobStarts, BackupLaunches, RcloneLists, RcloneCopies,
      RcloneSucceeds, RcloneFails, ListBackedUp, BackupStepFails, BackupDeletes, BackupEnds, RunTimesOut,
      OperatorDeletes, BackupStarts, OperatorCancels, OperatorMovesJob, Tick

\* A delete keeps its segment; a new one takes a ready segment.
LEMMA DeletionStep ==
    ASSUME IInv, [Next]_vars, deletion'.pc # "idle"
    PROVE  \/ deletion.pc # "idle" /\ deletion'.seg = deletion.seg
           \/ deletion'.seg \in Segments /\ row[deletion'.seg].status = "ready"
<1>0. TypeOK
  BY DEF IInv
<1>1. CASE UNCHANGED deletion
  BY <1>1
<1>2. ASSUME NEW s \in Segments, NEW by, StageDelete(s, by)
      PROVE  deletion'.seg \in Segments /\ row[deletion'.seg].status = "ready"
  BY <1>2 DEF StageDelete, MayDelete
<1>3. CASE DeleteMarks \/ DeleteTakesFileBack
  <2>1. deletion.pc # "idle"
    BY <1>3 DEF DeleteMarks, DeleteTakesFileBack
  <2>2. deletion'.seg = deletion.seg
    BY <1>0, <1>3 DEF DeleteMarks, DeleteTakesFileBack, TypeOK
  <2> QED
    BY <2>1, <2>2
<1>4. CASE DeleteRestores \/ DeleteRemoves \/ DeleteTakesRowBack \/ DaemonRestarts
  <2>1. deletion' = NoDeletion
    BY <1>4 DEF DeleteRestores, DeleteRemoves, DeleteTakesRowBack, DaemonRestarts
  <2> QED
    BY <2>1 DEF NoDeletion
<1>5. ASSUME NEW j \in JobIds, BackupDeletes(j)
      PROVE  \/ UNCHANGED deletion
             \/ deletion'.seg \in Segments /\ row[deletion'.seg].status = "ready"
  BY <1>2, <1>5 DEF BackupDeletes
<1>6. ASSUME NEW s \in Segments, OperatorDeletes(s)
      PROVE  deletion'.seg \in Segments /\ row[deletion'.seg].status = "ready"
  BY <1>2, <1>6 DEF OperatorDeletes
<1> QED
  BY <1>1, <1>3, <1>4, <1>5, <1>6
  DEF vars, Next, RecorderStep, DeleteStep, CleanerStep, RunStep, RcloneStep, OperatorStep, OpenSegment,
      MoveToRecordings, MoveFails, CloseSegment, CleanerStarts, CleanerStops, CleanerStats, CleanerRemoves,
      CleanerMarks, BackupStartFails, BackupJobStarts, BackupLaunches, RcloneLists, RcloneCopies,
      RcloneSucceeds, RcloneFails, MarkBackedUp, ListBackedUp, BackupStepFails, BackupEnds, RunTimesOut,
      BackupStarts, OperatorCancels, OperatorMovesJob, Tick

LEMMA Clock ==
    ASSUME TypeOK, [Next]_vars
    PROVE  now \in Nat /\ now' \in Nat /\ now <= now'
<1>1. now \in Nat
  BY BoundsAssumption DEF TypeOK
<1>2. now' = now \/ now' = now + 1
  BY DEF vars, Next, RecorderStep, DeleteStep, CleanerStep, RunStep, RcloneStep, OperatorStep, OpenSegment,
      MoveToRecordings, MoveFails, CloseSegment, DeleteMarks, DeleteRestores, DeleteRemoves,
      DeleteTakesFileBack, DeleteTakesRowBack, CleanerStarts, CleanerStops, CleanerStats, CleanerRemoves,
      CleanerMarks, BackupStartFails, BackupJobStarts, BackupLaunches, RcloneLists, RcloneCopies,
      RcloneSucceeds, RcloneFails, MarkBackedUp, ListBackedUp, BackupStepFails, BackupDeletes, BackupEnds,
      RunTimesOut, OperatorDeletes, BackupStarts, OperatorCancels, OperatorMovesJob, Tick, DaemonRestarts
<1> QED
  BY <1>1, <1>2

\* Nothing new becomes due for a run that has fixed its cutoff.  This is where
\* the resolution of one second matters: a segment closed in the second of the
\* cutoff would.
LEMMA DueStep ==
    ASSUME IInv, [Next]_vars, SameSecond = FALSE,
           NEW cutoff \in PendingCutoffs, cutoff \in Nat, cutoff <= now,
           NEW s \in Segments,
           \/ row'[s].status = "ready" /\ row'[s].updated <= cutoff
           \/ deletion'.pc # "idle" /\ deletion'.seg = s /\ now' <= cutoff
    PROVE  Due(cutoff, s)
<1>1. now \in Nat /\ now' \in Nat /\ now <= now'
  BY Clock DEF IInv
<1>2. row[s].updated \in Nat /\ row[s].updated <= now
  BY BoundsAssumption DEF IInv, TypeOK, Rows, RunInv
<1>3. CASE row'[s].status = "ready" /\ row'[s].updated <= cutoff
  <2>1. CASE row[s].status = "ready"
    BY <1>1, <1>2, <1>3, <2>1, RowStep DEF Due
  <2>2. CASE CloseSegment /\ row'[s].updated = now
    <3>1. now \notin PendingCutoffs
      BY <2>2 DEF CloseSegment
    <3> QED
      BY <1>1, <1>3, <2>2, <3>1
  <2>3. CASE deletion.pc # "idle" /\ deletion.seg = s /\ row'[s].updated = now
    BY <1>3, <2>3 DEF Due
  <2> QED
    BY <1>3, <2>1, <2>2, <2>3, RowStep
<1>4. CASE deletion'.pc # "idle" /\ deletion'.seg = s /\ now' <= cutoff
  <2>1. now <= cutoff
    BY <1>1, <1>4
  <2> QED
    BY <1>1, <1>2, <1>4, <2>1, DeletionStep DEF Due
<1> QED
  BY <1>3, <1>4

\* What a step does to the record of one run.
LEMMA RunRecordStep ==
    ASSUME IInv, [Next]_vars, NEW j \in JobIds
    PROVE  \/ run'[j].pc \notin {"copying", "copied"} /\ run'[j].cutoff \in {0, run[j].cutoff, now}
           \/ /\ run'[j].pc = run[j].pc
              /\ run'[j].cutoff = run[j].cutoff
              /\ run'[j].listing = run[j].listing
              /\ run'[j].failed = run[j].failed
           \/ RcloneLists(j) \/ RcloneCopies(j) \/ RcloneSucceeds(j)
<1> DEFINE Good == \/ run'[j].pc \notin {"copying", "copied"} /\ run'[j].cutoff \in {0, run[j].cutoff, now}
                   \/ /\ run'[j].pc = run[j].pc
                      /\ run'[j].cutoff = run[j].cutoff
                      /\ run'[j].listing = run[j].listing
                      /\ run'[j].failed = run[j].failed
                   \/ RcloneLists(j) \/ RcloneCopies(j) \/ RcloneSucceeds(j)
<1> SUFFICES Good
  OBVIOUS
<1>0. run \in [JobIds -> RunRecords] /\ run[j] \in RunRecords
  BY DEF IInv, TypeOK
<1>1. CASE run'[j] = run[j]
  BY <1>1
<1>2. CASE run'[j] = NoRun
  BY <1>2 DEF NoRun
<1>3. ASSUME NEW pc \in {"created", "started", "invalid", "failing"}, run'[j] = [run[j] EXCEPT !.pc = pc]
      PROVE  Good
  BY <1>0, <1>3 DEF RunRecords
<1>4. CASE DeleteRestores \/ DeleteTakesRowBack
  <2>1. run'[j] = run[j] \/ run'[j] = [run[j] EXCEPT !.pc = "failing"]
    BY <1>0, <1>4 DEF DeleteRestores, DeleteTakesRowBack, RunAfterFailedDelete
  <2> QED
    BY <1>1, <1>3, <2>1
<1>5. CASE DeleteRemoves
  <2>1. run'[j] = run[j] \/ run'[j] = [run[j] EXCEPT !.todo = run[j].todo \ {deletion.seg}]
    BY <1>0, <1>5 DEF DeleteRemoves
  <2> QED
    BY <1>0, <1>1, <2>1 DEF RunRecords
<1>6. ASSUME NEW i \in JobIds,
             BackupStarts(i) \/ RunStep(i) \/ RunTimesOut(i) \/ OperatorCancels(i) \/ OperatorMovesJob(i)
      PROVE  Good
  <2>1. CASE i # j
    <3>1. run'[j] = run[j]
      BY <1>0, <1>6, <2>1
      DEF BackupStarts, RunStep, RcloneStep, BackupStartFails, BackupJobStarts, BackupLaunches, RcloneLists,
          RcloneCopies, RcloneSucceeds, RcloneFails, MarkBackedUp, ListBackedUp, BackupStepFails,
          BackupDeletes, BackupEnds, RunTimesOut, OperatorCancels, OperatorMovesJob
    <3> QED
      BY <1>1, <3>1
  <2>2. CASE i = j
    <3>1. CASE BackupStarts(j) \/ BackupJobStarts(j) \/ BackupStepFails(j) \/ BackupDeletes(j)
      <4>1. \/ run'[j] = run[j]
            \/ \E pc \in {"created", "started", "invalid", "failing"} : run'[j] = [run[j] EXCEPT !.pc = pc]
        BY <1>0, <3>1 DEF BackupStarts, BackupJobStarts, BackupStepFails, BackupDeletes
      <4> QED
        BY <1>1, <1>3, <4>1
    <3>2. CASE BackupStartFails(j) \/ RcloneFails(j) \/ BackupEnds(j)
      BY <1>0, <1>2, <3>2 DEF BackupStartFails, RcloneFails, BackupEnds
    <3>3. CASE BackupLaunches(j)
      <4>1. run'[j] = [run[j] EXCEPT !.pc = "listing", !.cutoff = now]
        BY <1>0, <3>3 DEF BackupLaunches
      <4> QED
        BY <1>0, <4>1 DEF RunRecords
    <3>4. CASE MarkBackedUp(j)
      <4>1. run'[j] = [run[j] EXCEPT !.pc = "marked", !.cutoff = 0]
        BY <1>0, <3>4 DEF MarkBackedUp
      <4> QED
        BY <1>0, <4>1 DEF RunRecords
    <3>5. CASE ListBackedUp(j)
      <4>1. run'[j] = [run[j] EXCEPT !.pc = "deleting", !.todo = ReadyBackedUp]
        BY <1>0, <3>5 DEF ListBackedUp
      <4> QED
        BY <1>0, <4>1 DEF RunRecords
    <3>6. CASE RunTimesOut(j) \/ OperatorCancels(j) \/ OperatorMovesJob(j)
      <4>1. \/ run'[j] = run[j]
            \/ \E ctx \in {"cancelled", "timed out"} : run'[j] = [run[j] EXCEPT !.ctx = ctx]
        BY <1>0, <3>6 DEF RunTimesOut, OperatorCancels, OperatorMovesJob
      <4> QED
        BY <1>0, <1>1, <4>1 DEF RunRecords
    <3> QED
      BY <1>6, <2>2, <3>1, <3>2, <3>3, <3>4, <3>5, <3>6 DEF RunStep, RcloneStep
  <2> QED
    BY <2>1, <2>2
<1>7. CASE DaemonRestarts
  BY <1>2, <1>7 DEF DaemonRestarts
<1> QED
  BY <1>1, <1>4, <1>5, <1>6, <1>7
  DEF vars, Next, RecorderStep, DeleteStep, CleanerStep, OperatorStep, OpenSegment, MoveToRecordings,
      MoveFails, CloseSegment, DeleteMarks, DeleteTakesFileBack, CleanerStarts, CleanerStops, CleanerStats,
      CleanerRemoves, CleanerMarks, OperatorDeletes, Tick

\* Nothing leaves the archive.
LEMMA ArchiveGrows ==
    ASSUME [Next]_vars
    PROVE  archive \subseteq archive'
BY DEF vars, Next, RecorderStep, DeleteStep, CleanerStep, RunStep, RcloneStep, OperatorStep, OpenSegment,
      MoveToRecordings, MoveFails, CloseSegment, DeleteMarks, DeleteRestores, DeleteRemoves,
      DeleteTakesFileBack, DeleteTakesRowBack, CleanerStarts, CleanerStops, CleanerStats, CleanerRemoves,
      CleanerMarks, BackupStartFails, BackupJobStarts, BackupLaunches, RcloneLists, RcloneCopies,
      RcloneSucceeds, RcloneFails, MarkBackedUp, ListBackedUp, BackupStepFails, BackupDeletes, BackupEnds,
      RunTimesOut, OperatorDeletes, BackupStarts, OperatorCancels, OperatorMovesJob, Tick, DaemonRestarts

\* What is due when rclone reads the directory is there, or already copied.
LEMMA ListedWhenDue ==
    ASSUME IInv, NEW s \in Segments, NEW cutoff, Due(cutoff, s)
    PROVE  s \in archive \/ Listing[s] # "missing"
<1>1. Listing[s] # "missing" <=> InDirectory(s)
  BY DEF Listing, InDirectory
<1>2. CASE row[s].status = "ready"
  BY <1>1, <1>2 DEF IInv, FileInv
<1>3. CASE deletion.pc # "idle" /\ deletion.seg = s
  <2>1. deletion.pc \in {"staged", "marked", "restored"}
    BY <1>3 DEF IInv, TypeOK
  <2> QED
    BY <1>1, <1>3, <2>1 DEF IInv, DeleteInv, InDirectory
<1> QED
  BY <1>2, <1>3 DEF Due

LEMMA RunInvStep ==
    ASSUME IInv, [Next]_vars, SameSecond = FALSE
    PROVE  RunInv'
<1>0. TypeOK /\ RunInv /\ run \in [JobIds -> RunRecords]
  BY DEF IInv, TypeOK
<1>1. now \in Nat /\ now' \in Nat /\ now <= now'
  BY <1>0, Clock
<1>2. ASSUME NEW s \in Segments  PROVE row'[s].updated <= now'
  <2>1. row[s].updated \in Nat /\ row[s].updated <= now
    BY <1>0, BoundsAssumption DEF TypeOK, Rows, RunInv
  <2> QED
    BY <1>1, <2>1, RowStep
<1>c. ASSUME NEW j \in JobIds  PROVE run[j].cutoff \in Nat /\ run[j].cutoff <= now
  <2>1. run[j].cutoff \in 0..MaxTime
    BY <1>0 DEF RunRecords
  <2> QED
    BY <1>0, <2>1, BoundsAssumption DEF RunInv
<1>3. ASSUME NEW j \in JobIds
      PROVE  /\ run'[j].cutoff <= now'
             /\ run'[j].pc \in {"copying", "copied"} =>
                  /\ run'[j].cutoff = run[j].cutoff
                  /\ run[j].pc \in {"listing", "copying", "copied"}
  <2>1. run[j] \in RunRecords /\ run[j].cutoff \in Nat /\ run[j].cutoff <= now
    BY <1>0, <1>c
  <2>2. CASE RcloneLists(j)
    <3>1. run'[j] = [run[j] EXCEPT !.pc = "copying", !.listing = Listing] /\ run[j].pc = "listing"
      BY <1>0, <2>2 DEF RcloneLists
    <3>2. run'[j].cutoff = run[j].cutoff
      BY <2>1, <3>1 DEF RunRecords
    <3> QED
      BY <1>1, <2>1, <3>1, <3>2
  <2>3. CASE RcloneCopies(j)
    <3>1. run'[j].cutoff = run[j].cutoff /\ run[j].pc = "copying"
      <4>1. run[j].pc = "copying"
        BY <2>3 DEF RcloneCopies
      <4>2. PICK seg \in Segments : \E failed :
               run' = [run EXCEPT ![j] = [@ EXCEPT !.listing[seg] = "missing", !.failed = failed]]
        BY <2>3 DEF RcloneCopies
      <4>3. PICK failed :
               run' = [run EXCEPT ![j] = [@ EXCEPT !.listing[seg] = "missing", !.failed = failed]]
        BY <4>2
      <4>4. run'[j] = [run[j] EXCEPT !.listing[seg] = "missing", !.failed = failed]
        BY <1>0, <4>3
      <4>5. run'[j].cutoff = run[j].cutoff
        BY <2>1, <4>4 DEF RunRecords
      <4> QED
        BY <4>1, <4>5
    <3> QED
      BY <1>1, <2>1, <3>1
  <2>4. CASE RcloneSucceeds(j)
    <3>1. run'[j] = [run[j] EXCEPT !.pc = "copied", !.ctx = "live"] /\ run[j].pc = "copying"
      BY <1>0, <2>4 DEF RcloneSucceeds
    <3>2. run'[j].cutoff = run[j].cutoff
      BY <2>1, <3>1 DEF RunRecords
    <3> QED
      BY <1>1, <2>1, <3>1, <3>2
  <2> QED
    BY <1>1, <2>1, <2>2, <2>3, <2>4, RunRecordStep
<1>4. ASSUME NEW j \in JobIds, NEW s \in Segments,
             run'[j].pc \in {"copying", "copied"},
             Due(run[j].cutoff, s),
             run[j].pc \in {"copying", "copied"} =>
                 s \in archive \/ (run[j].pc = "copying" /\ (run[j].listing[s] # "missing" \/ run[j].failed))
      PROVE  \/ s \in archive'
             \/ run'[j].pc = "copying" /\ (run'[j].listing[s] # "missing" \/ run'[j].failed)
  <2>1. run[j] \in RunRecords /\ archive \subseteq archive'
    BY <1>0, ArchiveGrows
  <2>2. CASE RcloneLists(j)
    <3>1. run'[j] = [run[j] EXCEPT !.pc = "copying", !.listing = Listing]
      BY <1>0, <2>2 DEF RcloneLists
    <3>2. run'[j].pc = "copying" /\ run'[j].listing = Listing
      BY <2>1, <3>1 DEF RunRecords
    <3> QED
      BY <1>4, <2>1, <3>2, ListedWhenDue
  <2>3. CASE RcloneCopies(j)
    <3>1. PICK t \in Segments :
             /\ run' = [run EXCEPT ![j] = [@ EXCEPT !.listing[t] = "missing",
                                                    !.failed = run[j].failed \/ ~(file[t] = run[j].listing[t])]]
             /\ archive' = IF file[t] = run[j].listing[t] THEN archive \cup {t} ELSE archive
      BY <2>3 DEF RcloneCopies
    <3>2. run[j].pc = "copying"
      BY <2>3 DEF RcloneCopies
    <3>3. /\ run'[j].pc = "copying"
          /\ run'[j].listing = [run[j].listing EXCEPT ![t] = "missing"]
          /\ run'[j].failed = (run[j].failed \/ ~(file[t] = run[j].listing[t]))
      BY <1>0, <2>1, <3>1, <3>2 DEF RunRecords
    <3>4. s # t => run'[j].listing[s] = run[j].listing[s]
      BY <2>1, <3>3 DEF RunRecords
    <3>5. CASE s \in archive \/ run[j].failed
      BY <2>1, <3>3, <3>5
    <3>6. CASE s = t
      BY <3>1, <3>3, <3>6
    <3>7. CASE s # t /\ run[j].listing[s] # "missing"
      BY <3>3, <3>4, <3>7
    <3> QED
      BY <1>4, <3>2, <3>5, <3>6, <3>7
  <2>4. CASE RcloneSucceeds(j)
    <3>1. run[j].pc = "copying" /\ run[j].listing[s] = "missing" /\ ~run[j].failed
      BY <2>4 DEF RcloneSucceeds
    <3> QED
      BY <1>4, <2>1, <3>1
  <2> QED
    BY <1>4, <2>1, <2>2, <2>3, <2>4, RunRecordStep
<1>5. ASSUME NEW j \in JobIds, run'[j].pc \in {"copying", "copied"}, NEW s \in Segments,
             Due(run[j].cutoff, s)'
      PROVE  \/ s \in archive'
             \/ run'[j].pc = "copying" /\ (run'[j].listing[s] # "missing" \/ run'[j].failed)
  <2>1. /\ run[j].cutoff \in PendingCutoffs /\ run[j].cutoff \in Nat /\ run[j].cutoff <= now
        /\ run'[j].cutoff = run[j].cutoff
    BY <1>c, <1>3, <1>5 DEF PendingCutoffs
  <2>2. \/ row'[s].status = "ready" /\ row'[s].updated <= run[j].cutoff
        \/ deletion'.pc # "idle" /\ deletion'.seg = s /\ now' <= run[j].cutoff
    BY <1>5, <2>1 DEF Due
  <2>3. Due(run[j].cutoff, s)
    BY <2>1, <2>2, DueStep
  <2> QED
    BY <1>0, <1>4, <1>5, <2>3 DEF RunInv
<1> QED
  BY <1>2, <1>3, <1>5 DEF RunInv

LEMMA IInvInit == RetentionInit => IInv
<1> SUFFICES ASSUME RetentionInit  PROVE IInv
  OBVIOUS
<1>1. TypeOK
  BY TypeInit
<1>2. DeleteInv
  BY DEF RetentionInit, NoDeletion, DeleteInv
<1>3. ArchivedInv /\ FileInv
  BY DEF RetentionInit, IdleCleaner, NoRow, ArchivedInv, FileInv
<1>4. RunInv
  BY BoundsAssumption DEF RetentionInit, NoRow, NoRun, RunInv
<1> QED
  BY <1>1, <1>2, <1>3, <1>4 DEF IInv

LEMMA RetentionInvariant ==
    ASSUME ProtectUnbacked = TRUE, SameSecond = FALSE
    PROVE  Spec => []IInv
<1>1. IInv /\ [Next]_vars => IInv'
  BY TypeStep, DeleteInvStep, ArchivedInvStep, FileInvStep, RunInvStep DEF IInv
<1> QED
  BY <1>1, IInvInit, PTL DEF Spec

\* With the protection of segments that are not backed up, and no segment closed
\* in the very second in which a backup reads its cutoff, a segment whose bytes
\* are gone is at the remote or was deleted by the operator: for any number of
\* segments, backups, kills and failures of the store.
THEOREM FootageIsNotLost ==
    ASSUME ProtectUnbacked = TRUE, SameSecond = FALSE
    PROVE  Spec => []NoFootageLost
<1>1. IInv => NoFootageLost
  BY DEF IInv, FileInv, NoFootageLost
<1> QED
  BY <1>1, RetentionInvariant, PTL

\* Under the same conditions a segment is marked backed_up only when it is at
\* the remote.
THEOREM MarksAreTrue ==
    ASSUME ProtectUnbacked = TRUE, SameSecond = FALSE
    PROVE  Spec => []BackedUpIsArchived
<1>1. IInv => BackedUpIsArchived
  BY DEF IInv, ArchivedInv, BackedUpIsArchived
<1> QED
  BY <1>1, RetentionInvariant, PTL

\* A finished backup job keeps its outcome, whoever reports another one later:
\* the run, the operator or a route that moves the row.
THEOREM OutcomesAreFinal == Spec => OutcomeIsFinal
<1> DEFINE Keeps == \A j \in JobIds : jobs[j] \in FinalStates => jobs'[j] \in {jobs[j], "deleted"}
<1>1. ASSUME TypeOK, [Next]_vars  PROVE [Keeps]_vars
  <2>0. jobs \in [JobIds -> JobStates]
    BY <1>1 DEF TypeOK
  <2>1. CASE UNCHANGED jobs
    BY <2>1
  <2>2. ASSUME NEW j \in JobIds, NEW state,
               CreateJob(j) \/ StartJob(j) \/ FinishJob(j, state) \/ DeleteJob(j)
        PROVE  Keeps
    BY <2>0, <2>2 DEF CreateJob, StartJob, FinishJob, MayFinish, DeleteJob, FinalStates, ActiveStates
  <2>3. ASSUME NEW j \in JobIds, RunStep(j) \/ BackupStarts(j) \/ OperatorCancels(j) \/ OperatorMovesJob(j)
        PROVE  Keeps
    BY <2>1, <2>2, <2>3
    DEF RunStep, RcloneStep, BackupStarts, BackupStartFails, BackupJobStarts, BackupLaunches, RcloneLists,
        RcloneCopies, RcloneSucceeds, RcloneFails, RunFinishesJob, MarkBackedUp, ListBackedUp,
        BackupStepFails, BackupDeletes, BackupEnds, OperatorCancels, OperatorMovesJob
  <2> QED
    BY <1>1, <2>1, <2>3
    DEF vars, Next, RecorderStep, DeleteStep, CleanerStep, OperatorStep, OpenSegment, MoveToRecordings,
        MoveFails, CloseSegment, DeleteMarks, DeleteRestores, DeleteRemoves, DeleteTakesFileBack,
        DeleteTakesRowBack, CleanerStarts, CleanerStops, CleanerStats, CleanerRemoves, CleanerMarks,
        OperatorDeletes, RunTimesOut, Tick, DaemonRestarts
<1> QED
  BY <1>1, RetentionTypeCorrect, PTL DEF Spec, OutcomeIsFinal

-----------------------------------------------------------------------------
(* Where the files are, whatever the settings.                              *)

\* A segment in hand is one the delete in progress has staged, or is giving back.
InDeletion(s) == deletion.pc # "idle" /\ deletion.seg = s

\* An archived segment that is not deleted is in the directory, gone, in hand or stranded; the
\* delete and the close know where their own segment is.
Placed(s) ==
    /\ row[s].archived /\ row[s].status # "deleted" =>
         file[s] \in {"final", "gone"} \/ InDeletion(s) \/ s \in stranded
    /\ file[s] = "staged" => (InDeletion(s) /\ deletion.pc # "restored") \/ s \in stranded
    /\ row[s].status = "absent" => ~row[s].archived /\ closing # s /\ ~InDeletion(s)

InPlace ==
    /\ \A s \in Segments : Placed(s)
    /\ closing # None => deletion.pc = "idle" /\ file[closing] \in {"final", "gone"}
    /\ deletion.pc # "idle" => deletion.seg \in Segments
    /\ deletion.pc \in {"staged", "marked"} => file[deletion.seg] = "staged"
    /\ deletion.pc = "marked" => row[deletion.seg].status = "deleted"
    /\ deletion.pc = "restored" => file[deletion.seg] \in {"final", "gone"} \/ deletion.seg \in stranded

WhereInv == TypeOK /\ InPlace

\* An update of one row that leaves it archived as it was, and not absent.
LEMMA InPlaceAfterUpdate ==
    ASSUME TypeOK, InPlace, NEW s \in Segments, NEW new \in Rows, UpdateRow(s, new),
           new.archived = row[s].archived, new.status # "absent",
           row[s].status = "deleted" => new.status = "deleted",
           UNCHANGED <<file, closing, deletion, stranded>>
    PROVE  InPlace'
<1>1. /\ row'[s].status = new.status /\ row'[s].archived = row[s].archived
      /\ \A t \in Segments \ {s} : row'[t] = row[t]
  BY DEF TypeOK, Rows, UpdateRow
<1>2. \A t \in Segments : Placed(t)'
  BY <1>1 DEF InPlace, Placed, InDeletion
<1>3. deletion'.pc = "marked" => row'[deletion'.seg].status = "deleted"
  BY <1>1 DEF InPlace
<1> QED
  BY <1>2, <1>3 DEF InPlace

LEMMA InPlaceStep ==
    ASSUME TypeOK, InPlace, [Next]_vars
    PROVE  InPlace'
<1>0. /\ row \in [Segments -> Rows] /\ file \in [Segments -> FileStates]
      /\ closing \in Segments \cup {None} /\ None \notin Segments
      /\ deletion \in [pc : {"idle", "staged", "marked", "restored"}, seg : Segments \cup {None},
                       by : JobIds \cup {Operator}]
  <2>1. None \notin Segments
    BY BoundsAssumption DEF None, Segments
  <2> QED
    BY <2>1 DEF TypeOK
<1>1. CASE UNCHANGED <<row, file, closing, deletion, stranded>>
  BY <1>1 DEF InPlace, Placed, InDeletion
<1>2. ASSUME NEW s \in Segments, OpenSegment(s) PROVE InPlace'
  <2> DEFINE new == [row[s] EXCEPT !.status = "recording"]
  <2>1. row[s].status = "absent" /\ ~row[s].archived /\ closing # s /\ ~InDeletion(s)
    BY <1>2 DEF OpenSegment, InPlace, Placed
  <2>2. /\ row'[s].status = "recording" /\ row'[s].archived = row[s].archived
        /\ \A t \in Segments \ {s} : row'[t] = row[t]
    BY <1>0, <1>2 DEF OpenSegment, UpdateRow, Rows
  <2>3. \A t \in Segments \ {s} : file'[t] = file[t]
    BY <1>0, <1>2 DEF OpenSegment
  <2>4. UNCHANGED <<closing, deletion, stranded>>
    BY <1>2 DEF OpenSegment
  <2>6. file'[s] = "temp"
    BY <1>0, <1>2 DEF OpenSegment
  <2>5. \A t \in Segments : Placed(t)'
    BY <2>1, <2>2, <2>3, <2>4, <2>6 DEF InPlace, Placed, InDeletion
  <2> QED
    BY <1>0, <2>1, <2>2, <2>3, <2>4, <2>5 DEF InPlace, InDeletion
<1>3. ASSUME NEW s \in Segments, MoveToRecordings(s) PROVE InPlace'
  <2>1. /\ file'[s] = "final" /\ \A t \in Segments \ {s} : file'[t] = file[t]
        /\ closing' = s /\ deletion' = deletion /\ row' = row /\ deletion.pc = "idle" /\ stranded' = stranded
        /\ row[s].status # "absent"
    BY <1>0, <1>3 DEF MoveToRecordings, LockFree
  <2>2. \A t \in Segments : Placed(t)'
    BY <2>1 DEF InPlace, Placed, InDeletion
  <2> QED
    BY <2>1, <2>2 DEF InPlace
<1>4. ASSUME NEW s \in Segments, MoveFails(s) PROVE InPlace'
  <2> DEFINE new == [row[s] EXCEPT !.status = "failed"]
  <2>1. new \in Rows /\ new.archived = row[s].archived /\ new.status = "failed" /\ row[s].status = "recording"
    BY <1>0, <1>4 DEF MoveFails, Rows, RowStatuses
  <2>2. UpdateRow(s, new) /\ UNCHANGED <<file, closing, deletion, stranded>>
    BY <1>4 DEF MoveFails
  <2> HIDE DEF new
  <2> QED
    BY <2>1, <2>2, InPlaceAfterUpdate
<1>5. CASE CloseSegment
  <2>1. /\ closing \in Segments /\ deletion.pc = "idle" /\ file[closing] \in {"final", "gone"}
        /\ closing' = None /\ file' = file /\ deletion' = deletion /\ stranded' = stranded
    BY <1>0, <1>5 DEF CloseSegment, InPlace
  <2>2. /\ \A t \in Segments \ {closing} : row'[t] = row[t]
        /\ row'[closing] = row[closing] \/ row'[closing].status \in {"ready", "failed"}
    BY <1>5, CloseSegmentChanges
  <2>3. row[closing].status # "absent"
    BY <1>5 DEF CloseSegment
  <2>4. \A t \in Segments : Placed(t)'
    BY <1>0, <2>1, <2>2, <2>3 DEF InPlace, Placed, InDeletion
  <2> QED
    BY <2>1, <2>4 DEF InPlace
<1>6. ASSUME NEW s \in Segments, NEW by, StageDelete(s, by), UNCHANGED <<row, closing, stranded>> PROVE InPlace'
  <2>1. /\ file'[s] = "staged" /\ \A t \in Segments \ {s} : file'[t] = file[t]
        /\ deletion' = [pc |-> "staged", seg |-> s, by |-> by] /\ closing = None /\ deletion.pc = "idle"
        /\ row[s].status = "ready"
    BY <1>0, <1>6 DEF StageDelete, MayDelete, LockFree
  <2>2. deletion'.pc = "staged" /\ deletion'.seg = s
    BY <2>1
  <2>3. \A t \in Segments : Placed(t)'
    BY <1>6, <2>1, <2>2 DEF InPlace, Placed, InDeletion
  <2> QED
    BY <1>6, <2>1, <2>2, <2>3 DEF InPlace
<1>7. ASSUME NEW s \in Segments, NEW reason \in Reasons, MarkDeleted(s, reason), UNCHANGED <<file, closing, stranded>>,
             \/ deletion' = deletion
             \/ deletion.pc = "staged" /\ deletion.seg = s /\ deletion' = [deletion EXCEPT !.pc = "marked"]
      PROVE  InPlace'
  <2>1. /\ row'[s].status = "deleted" /\ row'[s].archived = row[s].archived /\ row[s].status = "ready"
        /\ \A t \in Segments \ {s} : row'[t] = row[t]
    BY <1>0, <1>7 DEF MarkDeleted, UpdateRow, Rows
  <2>2. /\ deletion'.seg = deletion.seg /\ (deletion'.pc = "idle" <=> deletion.pc = "idle")
        /\ deletion'.pc = "restored" <=> deletion.pc = "restored"
    BY <1>0, <1>7
  <2>3. \A t \in Segments : Placed(t)'
    BY <1>7, <2>1, <2>2 DEF InPlace, Placed, InDeletion
  <2>4. CASE deletion' = deletion
    BY <1>7, <2>1, <2>3, <2>4 DEF InPlace
  <2>5. CASE deletion.pc = "staged" /\ deletion.seg = s /\ deletion' = [deletion EXCEPT !.pc = "marked"]
    <3>1. deletion'.pc = "marked" /\ deletion'.seg = s
      BY <1>0, <2>5
    <3> QED
      BY <1>7, <2>1, <2>3, <2>5, <3>1 DEF InPlace
  <2> QED
    BY <1>7, <2>4, <2>5
<1>8. CASE DeleteMarks
  <2>1. deletion.seg \in Segments /\ Reason(deletion.by) \in Reasons
    BY <1>8 DEF DeleteMarks, InPlace, Reason, Reasons
  <2> QED
    BY <1>7, <1>8, <2>1 DEF DeleteMarks
\* The segment in hand is put somewhere, and is no longer in hand.
<1>9. ASSUME deletion.seg \in Segments, deletion.pc # "idle", NEW place \in {"final", "gone"},
             file' = [file EXCEPT ![deletion.seg] = place], UNCHANGED <<row, closing, stranded>>,
             deletion' = NoDeletion
      PROVE  InPlace'
  <2>1. /\ file'[deletion.seg] = place /\ \A t \in Segments \ {deletion.seg} : file'[t] = file[t]
        /\ deletion'.pc = "idle" /\ closing = None
    BY <1>0, <1>9 DEF NoDeletion, InPlace
  <2>2. \A t \in Segments : Placed(t)'
    BY <1>9, <2>1 DEF InPlace, Placed, InDeletion
  <2> QED
    BY <1>9, <2>1, <2>2 DEF InPlace
<1>10. CASE DeleteRestores
  <2>1. deletion.seg \in Segments /\ deletion.pc # "idle" /\ deletion' = NoDeletion /\ UNCHANGED <<row, closing>>
    BY <1>10 DEF DeleteRestores, InPlace
  <2>2. CASE file' = [file EXCEPT ![deletion.seg] = "final"] /\ UNCHANGED stranded
    BY <1>9, <2>1, <2>2
  <2>3. CASE stranded' = stranded \cup {deletion.seg} /\ UNCHANGED file
    <3>1. deletion'.pc = "idle" /\ closing = None
      BY <1>0, <2>1 DEF NoDeletion, InPlace
    <3>2. \A t \in Segments : Placed(t)'
      BY <2>1, <2>3, <3>1 DEF InPlace, Placed, InDeletion
    <3> QED
      BY <2>1, <3>1, <3>2 DEF InPlace
  <2> QED
    BY <1>10, <2>2, <2>3 DEF DeleteRestores, RenameBack
<1>11. CASE DeleteRemoves
  BY <1>9, <1>11 DEF DeleteRemoves, InPlace
<1>12. CASE DeleteTakesFileBack
  <2>1. /\ deletion'.pc = "restored" /\ deletion'.seg = deletion.seg /\ deletion.seg \in Segments
        /\ UNCHANGED <<row, closing>> /\ deletion.pc = "marked" /\ closing = None
    BY <1>0, <1>12 DEF DeleteTakesFileBack, InPlace
  <2>2. /\ \A t \in Segments \ {deletion.seg} : file'[t] = file[t]
        /\ \/ file'[deletion.seg] = "final" /\ stranded' = stranded
           \/ file'[deletion.seg] = file[deletion.seg] /\ stranded' = stranded \cup {deletion.seg}
    BY <1>0, <1>12, <2>1 DEF DeleteTakesFileBack, RenameBack
  <2>3. \A t \in Segments : Placed(t)'
    BY <2>1, <2>2 DEF InPlace, Placed, InDeletion
  <2> QED
    BY <2>1, <2>2, <2>3 DEF InPlace
<1>13. CASE DeleteTakesRowBack
  <2>1. /\ deletion.seg \in Segments /\ closing = None
        /\ file[deletion.seg] \in {"final", "gone"} \/ deletion.seg \in stranded
        /\ deletion' = NoDeletion /\ UNCHANGED <<file, closing, stranded>> /\ deletion'.pc = "idle"
    BY <1>13 DEF DeleteTakesRowBack, InPlace, NoDeletion
  <2>2. /\ \A t \in Segments \ {deletion.seg} : row'[t] = row[t]
        /\ row'[deletion.seg] = row[deletion.seg] \/ row'[deletion.seg].status = "ready"
    BY <1>13, <2>1, TakesRowBackChanges DEF Changed
  <2>3. \A t \in Segments : Placed(t)'
    BY <1>13, <2>1, <2>2 DEF InPlace, Placed, InDeletion, DeleteTakesRowBack
  <2> QED
    BY <2>1, <2>3 DEF InPlace
<1>14. CASE CleanerRemoves
  <2>1. CASE file' = file
    BY <1>1, <1>14, <2>1 DEF CleanerRemoves
  <2>2. CASE file[cleaner.seg] = "final" /\ file' = [file EXCEPT ![cleaner.seg] = "gone"]
    <3>1. /\ \A t \in Segments : file'[t] = file[t] \/ (file[t] = "final" /\ file'[t] = "gone")
          /\ UNCHANGED <<row, closing, deletion, stranded>>
      BY <1>0, <1>14, <2>2 DEF CleanerRemoves
    <3>2. \A t \in Segments : Placed(t)'
      BY <3>1 DEF InPlace, Placed, InDeletion
    <3>3. closing # None => file'[closing] \in {"final", "gone"}
      BY <1>0, <3>1 DEF InPlace
    <3>4. deletion.pc \in {"staged", "marked"} => file'[deletion.seg] = "staged"
      BY <3>1 DEF InPlace
    <3>5. deletion.pc = "restored" => file'[deletion.seg] \in {"final", "gone"} \/ deletion.seg \in stranded
      BY <3>1 DEF InPlace
    <3> QED
      BY <3>1, <3>2, <3>3, <3>4, <3>5 DEF InPlace
  <2> QED
    BY <1>14, <2>1, <2>2 DEF CleanerRemoves
<1>15. CASE CleanerMarks
  <2>1. CASE row' = row
    BY <1>1, <1>15, <2>1 DEF CleanerMarks
  <2>2. CASE cleaner.seg \in Segments
    <3>1. \/ row' = row
          \/ MarkDeleted(cleaner.seg, "already missing") \/ MarkDeleted(cleaner.seg, "capacity cleanup")
      BY <1>15 DEF CleanerMarks
    <3>2. UNCHANGED <<file, closing, deletion, stranded>> /\ {"already missing", "capacity cleanup"} \subseteq Reasons
      BY <1>15 DEF CleanerMarks, Reasons
    <3> QED
      BY <1>7, <2>1, <2>2, <3>1, <3>2
  <2>3. CASE cleaner.seg \notin Segments
    <3>1. row' = row
      BY <1>0, <1>15, <2>3 DEF CleanerMarks, MarkDeleted, UpdateRow
    <3> QED
      BY <2>1, <3>1
  <2> QED
    BY <2>2, <2>3
<1>16. ASSUME NEW j \in JobIds, MarkBackedUp(j) PROVE InPlace'
  <2>1. \A t \in Segments : row'[t].status = row[t].status /\ row'[t].archived = row[t].archived
    <3> SUFFICES ASSUME NEW t \in Segments
                 PROVE  row'[t].status = row[t].status /\ row'[t].archived = row[t].archived
      OBVIOUS
    <3>1. row[t] \in Rows
      BY <1>0
    <3>2. row'[t] = row[t] \/ row'[t] = [row[t] EXCEPT !.backup = "backed_up", !.updated = now]
      BY <1>16 DEF MarkBackedUp
    <3> QED
      BY <3>1, <3>2 DEF Rows
  <2>2. UNCHANGED <<file, closing, deletion, stranded>>
    BY <1>16 DEF MarkBackedUp
  <2>3. \A t \in Segments : Placed(t)'
    BY <2>1, <2>2 DEF InPlace, Placed, InDeletion
  <2>4. deletion.pc = "marked" => row'[deletion.seg].status = "deleted"
    BY <2>1 DEF InPlace
  <2> QED
    BY <2>2, <2>3, <2>4 DEF InPlace
<1>17. ASSUME NEW j \in JobIds, BackupDeletes(j) PROVE InPlace'
  <2>1. UNCHANGED <<row, closing, stranded>> /\ ((\E s \in Segments : StageDelete(s, j)) \/ UNCHANGED <<deletion, file>>)
    BY <1>17 DEF BackupDeletes
  <2> QED
    BY <1>1, <1>6, <2>1
<1>18. ASSUME NEW s \in Segments, OperatorDeletes(s) PROVE InPlace'
  BY <1>6, <1>18 DEF OperatorDeletes
<1>19. CASE DaemonRestarts
  <2>1. /\ closing' = None /\ deletion'.pc = "idle"
        /\ \A t \in Segments :
             t \in stranded' <=> (t \in stranded \/ (deletion.pc \in {"staged", "marked"} /\ t = deletion.seg))
    BY <1>19 DEF DaemonRestarts, NoDeletion
  <2>2. ASSUME NEW t \in Segments PROVE Placed(t)'
    <3>1. file'[t] = file[t] \/ (file[t] = "temp" /\ file'[t] = "quarantine")
      BY <1>19 DEF DaemonRestarts
    <3>2. /\ row'[t].archived = row[t].archived
          /\ row'[t].status = row[t].status \/ (row[t].status = "recording" /\ row'[t].status = "failed")
      <4>1. row'[t] = row[t] \/ (row[t].status = "recording" /\ row'[t] = [row[t] EXCEPT !.status = "failed", !.updated = now])
        BY <1>19 DEF DaemonRestarts, Interrupted
      <4>2. row[t] \in Rows
        BY <1>0
      <4> QED
        BY <4>1, <4>2 DEF Rows
    <3>3. deletion.pc \in {"idle", "staged", "marked", "restored"} /\ None # t
      BY <1>0
    <3> QED
      BY <2>1, <3>1, <3>2, <3>3 DEF InPlace, Placed, InDeletion
  <2> QED
    BY <2>1, <2>2 DEF InPlace
<1>20. ASSUME NEW j \in JobIds, RunStep(j) \/ BackupStarts(j) \/ OperatorCancels(j) \/ OperatorMovesJob(j) \/ RunTimesOut(j)
       PROVE  InPlace'
  <2>1. \/ UNCHANGED <<row, file, closing, deletion, stranded>> \/ MarkBackedUp(j) \/ BackupDeletes(j)
    BY <1>20
    DEF RunStep, RcloneStep, BackupStarts, BackupStartFails, BackupJobStarts, BackupLaunches, RcloneLists,
        RcloneCopies, RcloneSucceeds, RcloneFails, ListBackedUp, BackupStepFails, BackupEnds,
        OperatorCancels, OperatorMovesJob, RunTimesOut
  <2> QED
    BY <1>1, <1>16, <1>17, <2>1
<1>21. CASE CleanerStarts \/ CleanerStops \/ CleanerStats \/ Tick \/ UNCHANGED vars
  BY <1>1, <1>21 DEF CleanerStarts, CleanerStops, CleanerStats, Tick, vars
<1> QED
  BY <1>2, <1>3, <1>4, <1>5, <1>8, <1>10, <1>11, <1>12, <1>13, <1>14, <1>15, <1>18, <1>19, <1>20, <1>21
  DEF Next, RecorderStep, DeleteStep, CleanerStep, OperatorStep

\* For any settings and any number of segments, jobs and failures of the store: whoever takes the
\* media mutex finds the file where the row says it is, or nowhere because capacity cleanup
\* removed it (WithRecordingMediaLock and the staged delete), and under the staged name only what
\* a kill or a failed rename back left there.
THEOREM FilesAreWhereRowsSay == Spec => []FileWhereRowSays
<1>1. RetentionInit => WhereInv
  <2> SUFFICES ASSUME RetentionInit PROVE WhereInv
    OBVIOUS
  <2>1. TypeOK
    BY TypeInit
  <2>2. /\ \A s \in Segments : row[s] = NoRow
        /\ closing = None /\ deletion.pc = "idle" /\ None \notin Segments
        /\ \A s \in Segments : file[s] = "absent"
    BY BoundsAssumption DEF RetentionInit, NoDeletion, None, Segments
  <2>3. \A s \in Segments : Placed(s)
    BY <2>2 DEF Placed, InDeletion, NoRow
  <2> QED
    BY <2>1, <2>2, <2>3 DEF WhereInv, InPlace
<1>2. WhereInv /\ [Next]_vars => WhereInv'
  <2> SUFFICES ASSUME WhereInv, [Next]_vars PROVE WhereInv'
    OBVIOUS
  <2>1. TypeOK'
    BY TypeStep DEF WhereInv
  <2> QED
    BY <2>1, InPlaceStep DEF WhereInv
<1>3. WhereInv => FileWhereRowSays
  BY DEF WhereInv, InPlace, Placed, InDeletion, FileWhereRowSays, LockFree
<1> QED
  BY <1>1, <1>2, <1>3, PTL DEF Spec
===============================================================================
