-------------------------- MODULE ViewerCommandEngine --------------------------
(*****************************************************************************)
(* The Windows Viewer Service's command engine: the in-memory queue that     *)
(* feeds it, the durable journal, and the one mutex (engine.mu) under which  *)
(* Handle and Reconcile run.  Every journal save and every report is a step  *)
(* of its own, because the process may die, and the server may act, between  *)
(* any two of them.  A save is atomic (temporary file, fsync, rename).       *)
(*                                                                           *)
(* The environment delivers any command at any time, any number of times,    *)
(* with any payload (the type), and answers each report with success or      *)
(* failure.  ViewerControl composes the engine with the real server.         *)
(*****************************************************************************)
EXTENDS ViewerCommands

CONSTANTS
    MaxRetained,      \* MaxRetainedCommandRecords, 256 in the source
    QueueCapacity,    \* capacity of commandQueue, 16 in the source
    MaxBoots,         \* bound on the boot generations explored
    StorageMayFail    \* whether journal loads and saves may fail

ASSUME MaxRetainedAssumption    == MaxRetained \in Nat \ {0}
ASSUME QueueCapacityAssumption  == QueueCapacity \in Nat \ {0}
ASSUME MaxBootsAssumption       == MaxBoots \in Nat \ {0}
ASSUME StorageMayFailAssumption == StorageMayFail \in BOOLEAN

VARIABLES
    journal,       \* durable: one record per command id, "absent" when there is none
    boot,          \* durable boot generation, the running process's own while it is up
    completions,   \* orders CompletedAt times
    up,            \* whether the service process is alive
    engine,        \* where the holder of engine.mu stands
    queue,         \* commandQueue
    sweep,         \* Reconcile's progress: whether it holds engine.mu, the records to visit
                   \* and those marked reported in its copy of the journal only
    restarting,    \* the restart helper has been launched
    viewerLapsed,  \* ids whose TTL has passed on the Viewer's clock
    executions,    \* history: how often a command's side effect was begun
    pruned         \* history: ids whose record the journal bound has dropped

engineVars == <<journal, boot, completions, up, engine, queue, sweep, restarting,
                viewerLapsed, executions, pruned>>
durable == <<journal, boot, completions, pruned>>

LocalStates == {"absent"} \cup ResultStates
Records == [type : CommandTypes \cup {"none"}, state : LocalStates, code : Codes, key : Keys,
            accepted : Nat, target : Nat, completed : Nat, reported : BOOLEAN]
NoRecord == [type |-> "none", state |-> "absent", code |-> "", key |-> NoKey,
             accepted |-> 0, target |-> 0, completed |-> 0, reported |-> FALSE]

\* Where the holder of engine.mu stands; idle means that it is free, unless a
\* sweep is active.  The record travels along: it is the in-memory copy that is
\* saved or reported next.
EnginePcs == {"acknowledging", "starting", "announcing", "executing", "running",
              "finishing", "reporting", "confirming", "answering"}
IdleEngine == [pc |-> "idle", id |-> 0, record |-> NoRecord]
Engines == {IdleEngine} \cup [pc : EnginePcs, id : Ids, record : Records]
At(pc, id, record) == [pc |-> pc, id |-> id, record |-> record]
NoSweep == [active |-> FALSE, todo |-> {}, unsaved |-> {}]

Commands == [id : Ids, type : CommandTypes]
SupportedTypes == OperatorTypes
ExecutionCap == 2   \* executions saturate here: "more than once" is enough to know

EngineInit ==
    /\ journal = [id \in Ids |-> NoRecord]
    /\ boot = 0
    /\ completions = 0
    /\ up = FALSE
    /\ engine = IdleEngine
    /\ queue = <<>>
    /\ sweep = NoSweep
    /\ restarting = FALSE
    /\ viewerLapsed = {}
    /\ executions = [id \in Ids |-> 0]
    /\ pruned = {}

-----------------------------------------------------------------------------
(* The journal. *)

ResultOf(record) == Result(record.state, record.code, record.key)
HasSettledRecord(id) == journal[id].state \in Terminal
HasRecord(id) == journal[id].state # "absent"

\* pruneCommandJournal: drop the terminal records completed longest ago, one
\* for each record over the bound; a record still in progress is never dropped.
PrunedBy(j) ==
    LET kept     == {id \in Ids : j[id].state # "absent"}
        finished == {id \in kept : j[id].state \in Terminal}
        older(id) == {other \in finished : j[other].completed < j[id].completed}
    IN  {id \in finished : Cardinality(kept) > MaxRetained + Cardinality(older(id))}

SaveJournal(j) ==
    /\ journal' = j
    /\ UNCHANGED <<boot, completions, pruned>>

SavePruned(j) ==
    /\ journal' = [id \in Ids |-> IF id \in PrunedBy(j) THEN NoRecord ELSE j[id]]
    /\ pruned' = pruned \cup PrunedBy(j)
    /\ UNCHANGED boot

Outcome(record, state, code) == [record EXCEPT !.state = state, !.code = code]

\* What finish and Reconcile write: completed now, not reported yet.  (Mutant:
\* the report is taken as delivered.)
SettledReported(record) == [record EXCEPT !.completed = completions + 1, !.reported = TRUE]
Settled(record) == [record EXCEPT !.completed = completions + 1, !.reported = FALSE]

\* An answer that leaves no trace in the journal.
Unrecorded(state, code, key) == [Outcome(NoRecord, state, code) EXCEPT !.key = key]
RejectedUnavailable(key) == Unrecorded("rejected", "command_journal_unavailable", key)
JournalUnavailable(key) == Unrecorded("failed", "command_journal_unavailable", key)

StorageFails == StorageMayFail /\ UNCHANGED durable

\* Reconcile keeps one copy of the journal: a mark that could not be saved goes
\* to disk with its next save.  (Handle returns after a failed save.)
Remembered ==
    [id \in Ids |-> IF id \in sweep.unsaved THEN [journal[id] EXCEPT !.reported = TRUE]
                   ELSE journal[id]]

-----------------------------------------------------------------------------
(* Handle, up to its first journal save or report. *)

\* The worker takes the next command; engine.mu must be free.
Takes(command) ==
    /\ up
    /\ engine.pc = "idle"
    /\ ~sweep.active
    /\ queue # <<>>
    /\ command = Head(queue)
    /\ queue' = Tail(queue)
    /\ UNCHANGED <<up, sweep, restarting, viewerLapsed, executions>>

HandleUnsupported(command) ==
    /\ Takes(command)
    /\ command.type \notin SupportedTypes
    /\ engine' = At("answering", command.id, Unrecorded("rejected", "unsupported_command", NoKey))
    /\ UNCHANGED durable

HandleUnreadable(command) ==
    /\ Takes(command)
    /\ command.type \in SupportedTypes
    /\ StorageFails
    /\ engine' = At("answering", command.id, JournalUnavailable(NoKey))

TakesKnown(command) ==
    /\ Takes(command)
    /\ command.type \in SupportedTypes
    /\ HasRecord(command.id)
    /\ UNCHANGED durable

HandleChanged(command) ==
    /\ TakesKnown(command)
    /\ journal[command.id].type # command.type
    /\ engine' = At("answering", command.id,
                    Unrecorded("rejected", "command_payload_changed", journal[command.id].key))

TakesDuplicate(command) ==
    /\ TakesKnown(command)
    /\ journal[command.id].type = command.type

\* reportTerminal says nothing about a result the server has already taken.
ReportTerminal(id, record) ==
    engine' = IF record.reported THEN IdleEngine ELSE At("reporting", id, record)

HandleTerminal(command) ==
    /\ TakesDuplicate(command)
    /\ journal[command.id].state \in Terminal
    /\ ReportTerminal(command.id, journal[command.id])

\* Mutant: any command that was running is taken for a completed restart.
RestartedAny(record) == record.state = "running" /\ boot >= record.target

\* A restart_service command that was running when its target boot began.
Restarted(record) ==
    /\ record.type = "restart_service"
    /\ record.state = "running"
    /\ record.target > 0
    /\ boot >= record.target

HandleRestarted(command) ==
    /\ TakesDuplicate(command)
    /\ Restarted(journal[command.id])
    /\ engine' = At("finishing", command.id, Outcome(journal[command.id], "succeeded", ""))

HandleInProgress(command) ==
    /\ TakesDuplicate(command)
    /\ journal[command.id].state \notin Terminal
    /\ ~Restarted(journal[command.id])
    /\ engine' = IF journal[command.id].accepted = boot
                 THEN At("answering", command.id, journal[command.id])
                 ELSE At("finishing", command.id,
                         Outcome(journal[command.id], "failed", "command_interrupted"))

TakesNew(command) ==
    /\ Takes(command)
    /\ command.type \in SupportedTypes
    /\ ~HasRecord(command.id)

ExpiredRecordUncoded(command) ==
    [NoRecord EXCEPT !.type = command.type, !.state = "expired", !.code = "expired",
                     !.key = <<"command", command.id>>, !.completed = completions + 1]
ExpiredRecord(command) ==
    [NoRecord EXCEPT !.type = command.type, !.state = "expired", !.code = "command_expired",
                     !.key = <<"command", command.id>>, !.completed = completions + 1]

HandleExpired(command) ==
    /\ TakesNew(command)
    /\ command.id \in viewerLapsed
    /\ \/ /\ SavePruned([journal EXCEPT ![command.id] = ExpiredRecord(command)])
          /\ completions' = completions + 1
          /\ engine' = At("reporting", command.id, ExpiredRecord(command))
       \/ /\ StorageFails
          /\ engine' = IdleEngine

AcceptedRecord(command) ==
    LET restart == command.type = "restart_service"
    IN  [NoRecord EXCEPT !.type = command.type, !.state = "acknowledged",
                         !.accepted = boot,
                         !.target = IF restart THEN boot + 1 ELSE 0,
                         !.key = IF restart THEN <<"service-generation", boot + 1>>
                                 ELSE <<"command", command.id>>]

HandleAccept(command) ==
    /\ TakesNew(command)
    /\ command.id \notin viewerLapsed
    /\ \/ /\ SavePruned([journal EXCEPT ![command.id] = AcceptedRecord(command)])
          /\ UNCHANGED completions
          /\ engine' = At("acknowledging", command.id, AcceptedRecord(command))
       \/ /\ StorageFails
          /\ engine' = At("answering", command.id, JournalUnavailable(NoKey))

Handle(command) ==
    \/ HandleUnsupported(command) \/ HandleUnreadable(command) \/ HandleChanged(command)
    \/ HandleTerminal(command) \/ HandleRestarted(command) \/ HandleInProgress(command)
    \/ HandleExpired(command) \/ HandleAccept(command)

-----------------------------------------------------------------------------
(* The rest of Handle, one save, report or side effect at a time. *)

Held == <<up, queue, sweep, viewerLapsed>>

\* The request to the server returned: ok is whether it took the result.
Report(ok) ==
    /\ engine.pc \in {"acknowledging", "announcing", "reporting", "answering"}
    /\ engine' =
         CASE engine.pc = "acknowledging"     -> [engine EXCEPT !.pc = "starting"]
           [] engine.pc = "announcing"        -> [engine EXCEPT !.pc = "executing"]
           [] engine.pc = "reporting" /\ ok   -> [engine EXCEPT !.pc = "confirming"]
           [] OTHER                           -> IdleEngine
    /\ UNCHANGED <<durable, Held, restarting, executions>>

\* Mutant: announce and execute without the second save.
AnnounceRunning ==
    /\ engine.pc = "starting"
    /\ engine' = At("announcing", engine.id, [engine.record EXCEPT !.state = "running"])
    /\ UNCHANGED <<durable, Held, restarting, executions>>

SaveRunning ==
    /\ engine.pc = "starting"
    /\ LET record == [engine.record EXCEPT !.state = "running"]
       IN  \/ /\ SaveJournal([journal EXCEPT ![engine.id] = record])
              /\ engine' = At("announcing", engine.id, record)
           \/ /\ StorageFails
              /\ engine' = At("answering", engine.id, JournalUnavailable(record.key))
    /\ UNCHANGED <<Held, restarting, executions>>

\* The adapter refuses before touching anything: no lease, no session.
ExecuteRefused ==
    /\ engine.pc = "executing"
    /\ engine' = At("finishing", engine.id,
                    Outcome(engine.record, "rejected", "viewer_unavailable"))
    /\ UNCHANGED <<durable, Held, restarting, executions>>

ExecuteBegin ==
    /\ engine.pc = "executing"
    /\ engine' = [engine EXCEPT !.pc = "running"]
    /\ executions' = [executions EXCEPT ![engine.id] = IF @ = ExecutionCap THEN @ ELSE @ + 1]
    /\ UNCHANGED <<durable, Held, restarting>>

\* A launched restart leaves the record running; any other success finishes.
ExecuteEnd ==
    /\ engine.pc = "running"
    /\ IF engine.record.type = "restart_service"
       THEN engine' = IdleEngine /\ restarting' = TRUE
       ELSE /\ engine' = At("finishing", engine.id, Outcome(engine.record, "succeeded", ""))
            /\ UNCHANGED restarting
    /\ UNCHANGED <<durable, Held, executions>>

ExecuteFails ==
    /\ engine.pc = "running"
    /\ engine' = At("finishing", engine.id, Outcome(engine.record, "failed", "execution_failed"))
    /\ UNCHANGED <<durable, Held, restarting, executions>>

Finish ==
    /\ engine.pc = "finishing"
    /\ \/ /\ SavePruned([journal EXCEPT ![engine.id] = Settled(engine.record)])
          /\ completions' = completions + 1
          /\ engine' = At("reporting", engine.id, Settled(engine.record))
       \/ /\ StorageFails
          /\ engine' = IdleEngine
    /\ UNCHANGED <<Held, restarting, executions>>

\* ResultReportedAt is written from the in-memory record, without pruning.
Confirm ==
    /\ engine.pc = "confirming"
    /\ \/ /\ SaveJournal([Remembered EXCEPT ![engine.id] = [engine.record EXCEPT !.reported = TRUE]])
          /\ sweep' = [sweep EXCEPT !.unsaved = {}]
       \/ /\ StorageFails
          /\ sweep' = IF sweep.active THEN [sweep EXCEPT !.unsaved = @ \cup {engine.id}] ELSE sweep
    /\ engine' = IdleEngine
    /\ UNCHANGED <<up, queue, viewerLapsed, restarting, executions>>

-----------------------------------------------------------------------------
(* Reconcile, run by SetCommandReporter each time the control loop starts. *)

ReconcileBegin ==
    /\ up
    /\ engine.pc = "idle"
    /\ ~sweep.active
    /\ sweep' = [NoSweep EXCEPT !.active = TRUE, !.todo = {id \in Ids : HasRecord(id)}]
    /\ UNCHANGED <<durable, up, engine, queue, restarting, viewerLapsed, executions>>

\* Mutants of Stale: settled records count too; only restart_service counts.
StaleWhateverState(record) == record.accepted < boot
StaleRestartOnly(record) ==
    record.state = "running" /\ record.accepted < boot /\ record.type = "restart_service"
Stale(record) == record.state \in {"acknowledged", "running"} /\ record.accepted < boot

Reconciled(record) ==
    Settled(IF Restarted(record) THEN Outcome(record, "succeeded", "")
            ELSE Outcome(record, "failed", "command_interrupted"))

Visits(id) ==
    /\ sweep.active
    /\ engine.pc = "idle"
    /\ id \in sweep.todo
    /\ UNCHANGED <<up, queue, restarting, viewerLapsed, executions>>

Visited(id) == [sweep EXCEPT !.todo = @ \ {id}]

ReconcileStale(id) ==
    /\ Visits(id)
    /\ Stale(journal[id])
    /\ \/ /\ journal' = [Remembered EXCEPT ![id] = Reconciled(journal[id])]
          /\ completions' = completions + 1
          /\ UNCHANGED <<boot, pruned>>
          /\ engine' = At("reporting", id, Reconciled(journal[id]))
          /\ sweep' = [Visited(id) EXCEPT !.unsaved = {}]
       \/ /\ StorageFails
          /\ UNCHANGED engine
          /\ sweep' = [sweep EXCEPT !.todo = {}]

ReconcileOther(id) ==
    /\ Visits(id)
    /\ ~Stale(journal[id])
    /\ sweep' = Visited(id)
    /\ IF journal[id].state \in Terminal
       THEN ReportTerminal(id, journal[id])
       ELSE UNCHANGED engine
    /\ UNCHANGED durable

ReconcileEnd ==
    /\ sweep.active
    /\ engine.pc = "idle"
    /\ sweep.todo = {}
    /\ sweep' = NoSweep
    /\ UNCHANGED <<durable, up, engine, queue, restarting, viewerLapsed, executions>>

-----------------------------------------------------------------------------
(* The process and its environment. *)

Start ==
    /\ ~up
    /\ boot < MaxBoots
    /\ up' = TRUE
    /\ boot' = boot + 1
    /\ journal' = [id \in Ids |-> IF id \in PrunedBy(journal) THEN NoRecord ELSE journal[id]]
    /\ pruned' = pruned \cup PrunedBy(journal)
    /\ UNCHANGED <<completions, engine, queue, sweep, restarting, viewerLapsed, executions>>

\* The process ends: a crash, a power loss, an SCM stop or the restart helper.
\* The bound on boots leaves no end after which nothing could start again.
Stop ==
    /\ up
    /\ boot < MaxBoots
    /\ up' = FALSE
    /\ engine' = IdleEngine
    /\ queue' = <<>>
    /\ sweep' = NoSweep
    /\ restarting' = FALSE
    /\ UNCHANGED <<durable, viewerLapsed, executions>>

DeliverViewerCommand(command) ==
    /\ up
    /\ Len(queue) < QueueCapacity
    /\ queue' = Append(queue, command)
    /\ UNCHANGED <<durable, up, engine, sweep, restarting, viewerLapsed, executions>>

ViewerLapse(id) ==
    /\ viewerLapsed' = viewerLapsed \cup {id}
    /\ UNCHANGED <<durable, up, engine, queue, sweep, restarting, executions>>

\* Steps of the goroutine that holds engine.mu, except reports.
EngineStep ==
    \/ \E command \in Commands : Handle(command)
    \/ SaveRunning \/ ExecuteRefused \/ ExecuteBegin \/ ExecuteEnd \/ ExecuteFails
    \/ Finish \/ Confirm
    \/ \E id \in Ids : ReconcileStale(id) \/ ReconcileOther(id)

EngineNext ==
    \/ EngineStep
    \/ \E ok \in BOOLEAN : Report(ok)
    \/ ReconcileBegin \/ ReconcileEnd
    \/ Start \/ Stop
    \/ \E command \in Commands : DeliverViewerCommand(command)
    \/ \E id \in Ids : ViewerLapse(id)

EngineSpec == EngineInit /\ [][EngineNext]_engineVars

-----------------------------------------------------------------------------
(* Properties. *)

EngineTypeOK ==
    /\ journal \in [Ids -> Records]
    /\ boot \in Nat
    /\ completions \in Nat
    /\ up \in BOOLEAN
    /\ engine \in Engines
    /\ queue \in Seq(Commands)
    /\ sweep \in [active : BOOLEAN, todo : SUBSET Ids, unsaved : SUBSET Ids]
    /\ restarting \in BOOLEAN
    /\ viewerLapsed \subseteq Ids
    /\ executions \in [Ids -> 0 .. ExecutionCap]
    /\ pruned \subseteq Ids

\* However often a command is delivered, and wherever the process dies, its
\* side effect begins at most once as long as the bounded journal has not
\* dropped its record (command_engine.go, Handle).
AtMostOnce == \A id \in Ids : executions[id] <= 1 \/ id \in pruned

\* A side effect that has begun is on disk as running or settled: no crash can
\* make the Service forget that it acted (running is saved before the effect).
EffectIsJournaled ==
    \A id \in Ids : executions[id] > 0 =>
        journal[id].state \in {"running"} \cup Terminal \/ id \in pruned

\* restart_service is recorded as succeeded only in a later boot than the one
\* that accepted it, the boot generation its operation key names.
RestartProvenByBoot(id) ==
    /\ journal[id].accepted < journal[id].target
    /\ journal[id].target <= boot

\* A recorded success was earned by executing the command, and a recorded
\* refusal or expiry was not preceded by a side effect.  restart_service is the
\* exception: a later boot proves it, whoever caused that boot.
OutcomeIsTruthful ==
    \A id \in Ids :
        /\ journal[id].state = "succeeded" =>
              IF journal[id].type = "restart_service" THEN RestartProvenByBoot(id)
              ELSE executions[id] = 1 \/ id \in pruned
        /\ journal[id].state \in {"rejected", "expired"} => executions[id] = 0 \/ id \in pruned

\* A settled outcome is final: crash, redelivery, changed payload or Reconcile
\* never turns it into another; it can only be dropped by the journal bound.
SettledIsFinal ==
    [][\A id \in Ids : journal[id].state \in Terminal =>
          ResultOf(journal'[id]) = ResultOf(journal[id]) \/ id \in pruned']_journal
===============================================================================
