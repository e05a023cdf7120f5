------------------------------ MODULE BackupJobs ------------------------------
(*******************************************************************************)
(* The backup rows of the daemon's jobs table (jobs.go, jobs_transitions.go).  *)
(* Every row of this kind carries the same single-flight key, so at most one   *)
(* may be queued or running.  Each operator is one guarded SQL update: a       *)
(* disabled operator is the update that changed no row (ErrJobNotFound) or     *)
(* the insert that was refused (ErrJobAlreadyActive).                          *)
(*******************************************************************************)
EXTENDS Naturals

CONSTANT MaxJobs    \* bound on the jobs ever created

ASSUME MaxJobsAssumption == MaxJobs \in Nat \ {0}

JobIds == 1..MaxJobs

VARIABLE jobs       \* JobState of each row, "absent" before the insert

ActiveStates == {"queued", "running"}
FinalStates  == {"succeeded", "failed", "cancelled"}
JobStates    == {"absent", "deleted"} \cup ActiveStates \cup FinalStates

JobsInit == jobs = [j \in JobIds |-> "absent"]

\* activeJobForKey and the unique index on the key of active rows.
KeyIsFree == \A j \in JobIds : jobs[j] \notin ActiveStates

CreateJob(j) ==
    /\ jobs[j] = "absent"
    /\ \A i \in 1..(j - 1) : jobs[i] # "absent"
    /\ KeyIsFree
    /\ jobs' = [jobs EXCEPT ![j] = "queued"]

StartJob(j) ==
    /\ jobs[j] = "queued"
    /\ jobs' = [jobs EXCEPT ![j] = "running"]

\* WHERE id = ? AND state IN ('queued', 'running') (mutant: any row).
MayFinishAny(j) == jobs[j] # "absent"
MayFinish(j) == jobs[j] \in ActiveStates

\* finishJob, behind SucceedJob, FailJob, TimeoutJob and CancelJob.
FinishJob(j, state) ==
    /\ MayFinish(j)
    /\ jobs' = [jobs EXCEPT ![j] = state]

DeleteJob(j) ==
    /\ jobs[j] \notin {"absent", "deleted"}
    /\ jobs' = [jobs EXCEPT ![j] = "deleted"]

===============================================================================
