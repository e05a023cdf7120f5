----------------------------- MODULE WindowsTarget -----------------------------
(*****************************************************************************)
(* The tool that operates the two Windows PCs over SSH                       *)
(* (scripts/windows/Invoke-CamStationWindowsTarget.mjs).  An operation is a  *)
(* chain of remote calls: checks, an upload, a run that may create a         *)
(* scheduled task and a run directory, the retrieval of the evidence, the    *)
(* removal of what it left, a last audit.  Any call may fail or be given up  *)
(* while the PC goes on with it, and two operations may overlap.             *)
(*****************************************************************************)
EXTENDS Naturals, FiniteSets, Sequences

CONSTANTS
    Operations,    \* the invocations of the tool, all for one PC
    PushesOverlap  \* may two pushes of one artifact name be under way at once?

ASSUME TargetAssumption ==
    /\ IsFiniteSet(Operations) /\ {"none", "partial"} \cap Operations = {}
    /\ PushesOverlap \in BOOLEAN

Tasks == {"none", "control", "setup", "capture", "configure"}
Scripts == {"launcher", "helper"}   \* the control launcher; the other scripts a mode needs

\* first, last: the checks it starts and ends with; needs: the scripts it compares before it
\* runs; clear: whether it refuses to start beside any task; uploads: whether it sends a file
\* first; task: the kind of task its run creates; keeps: whether that leaves a directory.
Mode(first, last, needs, clear, uploads, task, keeps) ==
    [first |-> first, last |-> last, needs |-> needs, clear |-> clear,
     uploads |-> uploads, task |-> task, keeps |-> keeps]

Status == Mode("status", "none", {"launcher"}, FALSE, FALSE, "none", FALSE)
Sync == Mode("preflight", "status", {}, TRUE, TRUE, "none", FALSE)
SetUp == Mode("preflight", "status", Scripts, TRUE, TRUE, "setup", FALSE)
Repair == [SetUp EXCEPT !.uploads = FALSE]   \* setup without an archive
Plan == Mode("status", "status", Scripts, TRUE, TRUE, "control", TRUE)   \* and desktop-capture
Capture == Mode("status", "preflight", Scripts, TRUE, FALSE, "capture", TRUE)
ConfigureViewer == Mode("status", "status", Scripts, TRUE, TRUE, "configure", FALSE)
Cleanup == Mode("preflight", "status", {"launcher"}, FALSE, FALSE, "none", FALSE)
System == Mode("preflight", "preflight", {}, FALSE, TRUE, "none", FALSE)
Push == Mode("preflight", "preflight", {}, TRUE, FALSE, "none", FALSE)
Pull == Mode("preflight", "preflight", {}, TRUE, FALSE, "none", FALSE)

Modes == [status |-> Status, sync |-> Sync, setup |-> SetUp, repair |-> Repair, plan |-> Plan,
          capture |-> Capture, configure |-> ConfigureViewer, cleanup |-> Cleanup, system |-> System,
          push |-> Push, pull |-> Pull]

StepNames == {"idle", "check", "stage", "copy", "run", "undo", "fetch", "tidy", "audit", "complete", "failed"}

VARIABLES
    remote,   \* the PC
    op        \* the processes of the tool

targetVars == <<remote, op>>

TargetTypeOK ==
    /\ remote \in [upload : [Operations -> {"none", "directory", "partial", "whole"}], task : [Operations -> BOOLEAN],
                   kept : [Operations -> BOOLEAN], stale : SUBSET Scripts,
                   artifact : {"none", "partial"} \cup Operations]
    /\ op \in [Operations -> [mode : DOMAIN Modes, at : StepNames, failing : BOOLEAN,
                              job : {"none", "sent", "running", "ok", "bad"}]]

TargetInit ==
    /\ remote \in [upload : [Operations -> {"none"}], task : [Operations -> {FALSE}],
                   kept : [Operations -> {FALSE}], stale : SUBSET Scripts, artifact : {"none"}]
    /\ op = [o \in Operations |-> [mode |-> "status", at |-> "idle", failing |-> FALSE, job |-> "none"]]

--------------------------------------------------------------------------------
Of(o) == Modes[op[o].mode]

Present(kinds) == \E o \in Operations : remote.task[o] /\ Of(o).task \in kinds
Residue == Present(Tasks)
StatusIsGood == "launcher" \notin remote.stale /\ ~Present({"control"})
PassesAs(check) == check = "status" => StatusIsGood

\* The step that follows when the call of this one has succeeded.
NextStep(m, at) ==
    CASE at = "check" -> IF m.uploads THEN "stage" ELSE IF m.task # "none" THEN "run" ELSE "complete"
      [] at = "undo" -> IF m.keeps THEN "fetch" ELSE "audit"
      [] at = "stage" -> "copy"
      [] at = "copy" -> "run"
      [] at = "fetch" -> "tidy"
      [] at = "tidy" -> "audit"
      [] at = "audit" -> "complete"

Goes(o, at) == op' = [op EXCEPT ![o].at = at]
GoesOn(o) == Goes(o, NextStep(Of(o), op[o].at))

\* In a try the finally comes first; elsewhere the exception ends the process.
Throws(o, inTry) == op' = [op EXCEPT ![o].at = IF inTry THEN "undo" ELSE "failed", ![o].failing = TRUE]

Invoke(o, m) ==
    /\ op[o].at = "idle"
    /\ m = "push" /\ ~PushesOverlap =>
          \A x \in Operations \ {o} : op[x].mode = "push" => op[x].at \in {"idle", "complete", "failed"}
    /\ op' = [op EXCEPT ![o].mode = m, ![o].at = "check"]
    /\ UNCHANGED remote

\* The profiles of both PCs are read and validated before any mode: a fault in either refuses all.
ProfilesRefused(o, m) ==
    /\ op[o].at = "idle"
    /\ op' = [op EXCEPT ![o].mode = m, ![o].at = "failed", ![o].failing = TRUE]
    /\ UNCHANGED remote

\* getPreflight or getStatus, and the guards of the mode.
PassesCheck(o) ==
    LET m == Of(o) IN
    /\ op[o].at = "check"
    /\ PassesAs(m.first) /\ (m.needs \cap remote.stale = {}) /\ (m.clear => ~Residue)
    /\ op[o].mode = "cleanup" => ~Present(Tasks \ {"none", "control"})
    /\ CASE op[o].mode = "cleanup" -> Goes(o, "tidy")
         [] op[o].mode = "push" -> Goes(o, "stage")
         [] op[o].mode = "pull" -> Goes(o, "fetch")
         [] OTHER -> GoesOn(o)
    /\ UNCHANGED remote

\* The plan or the configuration is read once the PC has passed, before its name is chosen.
InputRefused(o) ==
    /\ op[o].at = "stage" /\ op[o].mode \in {"plan", "configure"}
    /\ Throws(o, FALSE)
    /\ UNCHANGED remote

\* Any call may fail before it has done anything: a lost connection, a refusal, a bad file.
\* The copies of sync and push are inside the try; those of plan, configure, system and
\* setup come before it.
CopyInTry(o) == op[o].mode \in {"sync", "push"}

RemoteCallFails(o) ==
    /\ op[o].at \in {"check", "stage", "copy", "fetch", "tidy", "audit"}
    /\ Throws(o, op[o].at = "copy" /\ CopyInTry(o))
    /\ UNCHANGED remote

\* A directory of its own, or a free name in a common one.
Stage(o) ==
    /\ op[o].at = "stage" /\ op[o].mode # "push"
    /\ remote' = [remote EXCEPT !.upload[o] = IF op[o].mode \in {"sync", "setup", "system"} THEN "directory" ELSE @]
    /\ GoesOn(o) \/ Throws(o, FALSE)

Copy(o, result) ==
    /\ op[o].at = "copy" /\ op[o].mode # "push"
    /\ result \in {"partial", "whole"}
    /\ remote' = [remote EXCEPT !.upload[o] = result]
    /\ GoesOn(o) \/ Throws(o, CopyInTry(o))

Launch(o) ==
    /\ op[o].at = "run" /\ op[o].job = "none" /\ op[o].mode # "push"
    /\ op' = [op EXCEPT ![o].job = "sent"]
    /\ UNCHANGED remote

\* The PC compares the hash of what was uploaded, and each launcher refuses a second task
\* of its kind (the configuration launcher does not look).
JobStarts(o) ==
    LET m == Of(o) IN
    /\ op[o].job = "sent"
    /\ m.uploads => remote.upload[o] = "whole"
    /\ m.task \in {"control", "setup", "capture"} => ~Present({m.task})
    /\ op' = [op EXCEPT ![o].job = "running"]
    /\ remote' = [remote EXCEPT !.task[o] = m.task # "none", !.kept[o] = m.keeps]

\* sync moves the scripts one by one.
ScriptMoves(o) ==
    /\ op[o].mode = "sync" /\ op[o].job = "running"
    /\ \E s \in remote.stale : remote' = [remote EXCEPT !.stale = @ \ {s}]
    /\ UNCHANGED op

\* The task is deleted and the upload removed, or the script throws. The installer of
\* setup removes the archive and leaves its directory to the local finally.
JobEnds(o) ==
    /\ op[o].job = "running"
    /\ op[o].mode = "sync" => remote.stale = {}
    /\ op' = [op EXCEPT ![o].job = "ok"]
    /\ remote' = [remote EXCEPT !.task[o] = FALSE,
                                !.upload[o] = IF op[o].mode = "setup" /\ @ # "none" THEN "directory" ELSE "none"]

\* Whatever it was doing; what its own finally blocks reach is removed, what they do not stays.
JobBreaks(o) ==
    /\ op[o].job \in {"sent", "running"}
    /\ op' = [op EXCEPT ![o].job = "bad"]
    /\ \E upload \in {"none", remote.upload[o]}, task \in {FALSE, remote.task[o]}, kept \in {FALSE, remote.kept[o]} :
          remote' = [remote EXCEPT !.upload[o] = upload, !.task[o] = task, !.kept[o] = kept]

\* a mutant: an answer that never came is taken for success
RunReturnsAnyway(o) ==
    /\ op[o].at = "run" /\ op[o].job # "none"
    /\ op' = [op EXCEPT ![o].at = "undo"]
    /\ UNCHANGED remote

\* The answer, or the timeout of the local process while the PC works on.
RunReturns(o) ==
    /\ op[o].at = "run" /\ op[o].job # "none"
    /\ op' = [op EXCEPT ![o].at = "undo", ![o].failing = op[o].job # "ok"]
    /\ UNCHANGED remote

\* The finally block: one more attempt to remove the upload, whose failure is swallowed.
Undo(o) ==
    /\ op[o].at = "undo" /\ op[o].mode # "push"
    /\ \E upload \in {"none", remote.upload[o]} : remote' = [remote EXCEPT !.upload[o] = upload]
    /\ IF op[o].failing THEN Goes(o, "failed") ELSE GoesOn(o)

Fetch(o) ==
    /\ op[o].at = "fetch"
    /\ IF op[o].mode = "pull"
       THEN remote.artifact \in Operations /\ Goes(o, "audit")
       ELSE remote.kept[o] /\ GoesOn(o)
    /\ UNCHANGED remote

\* The exact run directory, its own or, for cleanup, any run id the operator gives. The
\* launcher refuses a run whose task exists; what it removed stays removed when the control
\* tasks it then counts, or a lost answer, make the operation fail.
Tidy(o, run) ==
    /\ op[o].at = "tidy"
    /\ run = o \/ (op[o].mode = "cleanup" /\ op[run].mode = "plan")
    /\ ~remote.task[run]
    /\ remote' = [remote EXCEPT !.kept[run] = FALSE]
    /\ \/ (op[o].mode \in {"plan", "cleanup"} => ~Present({"control"})) /\ GoesOn(o)
       \/ Throws(o, FALSE)

Audit(o) ==
    LET m == Of(o) IN
    /\ op[o].at = "audit"
    /\ PassesAs(m.last)
    /\ op[o].mode \in {"capture", "configure"} => ~Present({m.task})
    /\ op[o].mode \in {"push", "pull"} => ~Residue
    /\ GoesOn(o)
    /\ UNCHANGED remote

\* pushArtifact: the name must be free; the copy and its inspection are undone together.
PushStage(o) ==
    /\ op[o].at = "stage" /\ op[o].mode = "push"
    /\ remote.artifact = "none"
    /\ Goes(o, "copy")
    /\ UNCHANGED remote

PushCopy(o, result) ==
    /\ op[o].at = "copy" /\ op[o].mode = "push"
    /\ result \in {"partial", o}
    /\ remote' = [remote EXCEPT !.artifact = result]
    /\ Goes(o, "run") \/ Throws(o, TRUE)

PushInspect(o) ==
    /\ op[o].at = "run" /\ op[o].mode = "push"
    /\ IF remote.artifact = o THEN Goes(o, "audit") \/ Throws(o, TRUE) ELSE Throws(o, TRUE)
    /\ UNCHANGED remote

PushUndo(o) ==
    /\ op[o].at = "undo" /\ op[o].mode = "push"
    /\ \E artifact \in {"none", remote.artifact} : remote' = [remote EXCEPT !.artifact = artifact]
    /\ Goes(o, "failed")

OperationStep(o) ==
    \/ \E m \in DOMAIN Modes : Invoke(o, m) \/ ProfilesRefused(o, m)
    \/ PassesCheck(o) \/ InputRefused(o) \/ RemoteCallFails(o)
    \/ Stage(o) \/ Launch(o) \/ RunReturns(o) \/ Undo(o) \/ Fetch(o) \/ Audit(o)
    \/ \E result \in {"partial", "whole"} : Copy(o, result)
    \/ \E run \in Operations : Tidy(o, run)
    \/ JobStarts(o) \/ ScriptMoves(o) \/ JobEnds(o) \/ JobBreaks(o)
    \/ PushStage(o) \/ PushInspect(o) \/ PushUndo(o)
    \/ \E result \in {"partial", o} : PushCopy(o, result)

TargetNext == \E o \in Operations : OperationStep(o)

TargetSpec == TargetInit /\ [][TargetNext]_targetVars

--------------------------------------------------------------------------------
\* What may lie in the upload directory of an operation whose run has succeeded (the last
\* attempt of setup to remove its own may fail unseen).
Emptied(mode) == {"none"} \cup (IF mode = "setup" THEN {"directory"} ELSE {})

\* An operation that reports completion has left nothing on the PC: no upload, no task, no
\* run directory, nothing still running; one that fails after its run has succeeded leaves
\* at most the run directory; and no later operation, however it fails, takes away an
\* artifact whose push was reported.
ReportsHold ==
    [][\A o \in Operations :
          /\ op'[o].at = "complete" => ~remote'.kept[o] /\ op'[o].job \in {"none", "ok"}
          /\ op'[o].at = "complete" \/ (op'[o].at = "failed" /\ op'[o].job = "ok") =>
                remote'.upload[o] \in Emptied(op'[o].mode) /\ ~remote'.task[o]
          /\ op[o].at = "complete" /\ op[o].mode = "push" => remote'.artifact = o]_targetVars
===============================================================================
