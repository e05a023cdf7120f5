----------------------- MODULE ViewerCommandEngineProofs -----------------------
(*****************************************************************************)
(* Proofs about the command engine, for every number of commands, journal    *)
(* bound, queue capacity and number of boots, with and without failing       *)
(* storage.                                                                  *)
(*                                                                           *)
(* AtMostOnce is not inductive: a second execution is excluded because of    *)
(* where the holder of engine.mu stands.  IInv adds what each place knows    *)
(* about the journal: between the first save and the effect, the record on   *)
(* disk is the one in memory, and the command has had no effect unless its   *)
(* record was once dropped by the journal bound.                             *)
(*                                                                           *)
(* The outcomes need a second chain: what the journal says of a command is   *)
(* what has happened to it, wherever the record is at that moment, in memory,*)
(* on disk or in a report that is being made.                                *)
(*****************************************************************************)
EXTENDS ViewerCommandEngine, TLAPS

Unexecuted(id) == executions[id] = 0 \/ id \in pruned

\* What the goroutine that holds engine.mu knows at each place.
PlaceInv ==
    /\ engine.pc # "idle" => engine.id \in Ids
    /\ engine.pc \in {"acknowledging", "starting"} =>
          journal[engine.id] = engine.record /\ engine.record.state = "acknowledged"
    /\ engine.pc \in {"announcing", "executing"} =>
          /\ journal[engine.id] = engine.record /\ engine.record.state = "running"
          /\ Unexecuted(engine.id)
    /\ engine.pc = "running" =>
          journal[engine.id] = engine.record /\ engine.record.state = "running"
    /\ engine.pc \in {"finishing", "reporting", "confirming"} =>
          engine.record.state \in Terminal

IInv == EngineTypeOK /\ AtMostOnce /\ EffectIsJournaled /\ PlaceInv

-----------------------------------------------------------------------------
(* Records: what the constructors of journal records build. *)

LEMMA NoRecordType == NoRecord \in Records
BY DEF NoRecord, Records, LocalStates, ResultStates, Terminal, Codes, Keys, NoKey

LEMMA OutcomeType ==
    ASSUME NEW r \in Records, NEW s \in LocalStates, NEW c \in Codes
    PROVE  /\ Outcome(r, s, c) \in Records
           /\ Outcome(r, s, c).state = s
BY DEF Outcome, Records

LEMMA OutcomeState ==
    ASSUME NEW r \in Records, NEW s \in LocalStates, NEW c
    PROVE  Outcome(r, s, c).state = s
BY DEF Outcome, Records

LEMMA ReportedType ==
    ASSUME NEW r \in Records
    PROVE  /\ [r EXCEPT !.reported = TRUE] \in Records
           /\ [r EXCEPT !.reported = TRUE].state = r.state
BY Zenon DEF Records

LEMMA SettledType ==
    ASSUME NEW r \in Records, completions \in Nat
    PROVE  Settled(r) \in Records /\ Settled(r).state = r.state
<1>1. completions + 1 \in Nat
  OBVIOUS
<1>2. ASSUME NEW n \in Nat
      PROVE  /\ [r EXCEPT !.completed = n, !.reported = FALSE] \in Records
             /\ [r EXCEPT !.completed = n, !.reported = FALSE].state = r.state
  BY Zenon DEF Records
<1> QED
  BY <1>1, <1>2 DEF Settled

LEMMA UnrecordedType ==
    ASSUME NEW s \in LocalStates, NEW c \in Codes, NEW k \in Keys
    PROVE  Unrecorded(s, c, k) \in Records
<1>1. Outcome(NoRecord, s, c) \in Records
  BY NoRecordType, OutcomeType
<1> QED
  BY <1>1 DEF Unrecorded, Records

LEMMA JournalUnavailableType ==
    ASSUME NEW k \in Keys
    PROVE  JournalUnavailable(k) \in Records
BY UnrecordedType DEF JournalUnavailable, LocalStates, ResultStates, Terminal, Codes

LEMMA ExpiredRecordType ==
    ASSUME NEW command \in Commands, completions \in Nat
    PROVE  /\ ExpiredRecord(command) \in Records
           /\ ExpiredRecord(command).state = "expired"
<1> DEFINE type == command.type
           key == <<"command", command.id>>
           now == completions + 1
           r == ExpiredRecord(command)
<1>1. /\ type \in CommandTypes \cup {"none"}
      /\ "expired" \in LocalStates
      /\ key \in Keys
      /\ now \in Nat
  BY MaxCommandsAssumption DEF Commands, LocalStates, ResultStates, Terminal, Keys, Ids
<1>2. "command_expired" \in Codes
  BY Zenon DEF Codes
<1>3. r = [NoRecord EXCEPT !.type = type, !.state = "expired", !.code = "command_expired",
                           !.key = key, !.completed = now]
  BY DEF ExpiredRecord
<1> HIDE DEF type, key, now, r
<1>4. r = [type |-> type, state |-> "expired", code |-> "command_expired", key |-> key,
           accepted |-> NoRecord.accepted, target |-> NoRecord.target, completed |-> now,
           reported |-> NoRecord.reported]
  BY <1>3, NoRecordType DEF Records
<1>5. r \in Records
  BY <1>1, <1>2, <1>4, NoRecordType DEF Records
<1>6. r.state = "expired"
  BY <1>4
<1> QED
  BY <1>5, <1>6 DEF r

LEMMA AcceptedRecordType ==
    ASSUME NEW command \in Commands, boot \in Nat
    PROVE  /\ AcceptedRecord(command) \in Records
           /\ AcceptedRecord(command).state = "acknowledged"
<1> DEFINE type == command.type
           target == IF command.type = "restart_service" THEN boot + 1 ELSE 0
           key == IF command.type = "restart_service" THEN <<"service-generation", boot + 1>>
                  ELSE <<"command", command.id>>
<1>1. /\ type \in CommandTypes \cup {"none"}
      /\ "acknowledged" \in LocalStates
      /\ key \in Keys /\ target \in Nat
  BY MaxCommandsAssumption DEF Commands, LocalStates, ResultStates, Terminal, Keys, Ids
<1>2. AcceptedRecord(command) =
        [NoRecord EXCEPT !.type = type, !.state = "acknowledged", !.accepted = boot,
                         !.target = target, !.key = key]
  BY DEF AcceptedRecord
<1> HIDE DEF type, target, key
<1> QED
  BY <1>1, <1>2, NoRecordType DEF Records

LEMMA ReconciledType ==
    ASSUME NEW r \in Records, completions \in Nat
    PROVE  Reconciled(r) \in Records /\ Reconciled(r).state \in Terminal
<1> DEFINE o == IF Restarted(r) THEN Outcome(r, "succeeded", "")
                ELSE Outcome(r, "failed", "command_interrupted")
<1>1. o \in Records /\ o.state \in Terminal
  <2>1. /\ {"succeeded", "failed"} \subseteq LocalStates \cap Terminal
        /\ {"", "command_interrupted"} \subseteq Codes
    BY DEF LocalStates, ResultStates, Terminal, Codes
  <2> QED
    BY <2>1, OutcomeType
<1> QED
  BY <1>1, SettledType DEF Reconciled

LEMMA RememberedType ==
    ASSUME journal \in [Ids -> Records]
    PROVE  /\ Remembered \in [Ids -> Records]
           /\ \A id \in Ids : Remembered[id].state = journal[id].state
BY DEF Remembered, Records

LEMMA NoKeyType == NoKey \in Keys
BY DEF NoKey, Keys

\* The journal bound drops settled records only.
LEMMA PrunedIsTerminal ==
    ASSUME NEW j
    PROVE  PrunedBy(j) \subseteq {id \in Ids : j[id].state \in Terminal}
BY DEF PrunedBy

LEMMA PlaceType ==
    ASSUME NEW pc \in EnginePcs, NEW id \in Ids, NEW r \in Records
    PROVE  At(pc, id, r) \in Engines
BY DEF At, Engines

LEMMA IdleType == IdleEngine \in Engines
BY DEF Engines

\* The durable part of EngineTypeOK, which every save must keep.
DurableTypeOK ==
    /\ journal \in [Ids -> Records]
    /\ boot \in Nat
    /\ completions \in Nat
    /\ pruned \subseteq Ids

LEMMA ReportTerminalType ==
    ASSUME NEW id \in Ids, NEW r \in Records, ReportTerminal(id, r)
    PROVE  engine' \in Engines
<1>1. At("reporting", id, r) \in Engines
  BY PlaceType DEF EnginePcs
<1> QED
  BY <1>1, IdleType DEF ReportTerminal

LEMMA SaveJournalType ==
    ASSUME EngineTypeOK, NEW j \in [Ids -> Records], SaveJournal(j)
    PROVE  DurableTypeOK'
BY DEF SaveJournal, EngineTypeOK, DurableTypeOK

LEMMA SavePrunedType ==
    ASSUME EngineTypeOK, NEW j \in [Ids -> Records], SavePruned(j),
           completions' \in {completions, completions + 1}
    PROVE  DurableTypeOK'
<1>1. completions' \in Nat
  BY DEF EngineTypeOK
<1> QED
  BY <1>1, NoRecordType, PrunedIsTerminal DEF SavePruned, EngineTypeOK, DurableTypeOK

LEMMA StorageFailsType ==
    ASSUME EngineTypeOK, StorageFails
    PROVE  DurableTypeOK'
BY DEF StorageFails, EngineTypeOK, DurableTypeOK, durable

-----------------------------------------------------------------------------
(* Type correctness. *)

LEMMA UnchangedDurable == EngineTypeOK /\ UNCHANGED durable => DurableTypeOK'
BY DEF EngineTypeOK, DurableTypeOK, durable

LEMMA TypeInit == EngineInit => EngineTypeOK
<1> SUFFICES ASSUME EngineInit PROVE EngineTypeOK
  OBVIOUS
<1>1. journal \in [Ids -> Records]
  BY NoRecordType DEF EngineInit
<1>2. engine \in Engines
  BY IdleType DEF EngineInit
<1>3. sweep \in [active : BOOLEAN, todo : SUBSET Ids, unsaved : SUBSET Ids]
  BY DEF EngineInit, NoSweep
<1>4. executions \in [Ids -> 0 .. ExecutionCap]
  BY DEF EngineInit, ExecutionCap
<1>5. queue \in Seq(Commands)
  BY DEF EngineInit
<1> QED
  BY <1>1, <1>2, <1>3, <1>4, <1>5 DEF EngineInit, EngineTypeOK

\* Every way to go on with the head of the queue.
LEMMA HandleType ==
    ASSUME EngineTypeOK, NEW command \in Commands, Handle(command)
    PROVE  EngineTypeOK'
<1> USE DEF EngineTypeOK
<1>0. command.id \in Ids /\ command.type \in CommandTypes
  BY DEF Commands
<1>1. Takes(command) /\ DurableTypeOK' /\ engine' \in Engines
  <2>1. CASE HandleUnsupported(command)
    <3>1. Unrecorded("rejected", "unsupported_command", NoKey) \in Records
      BY UnrecordedType, NoKeyType DEF LocalStates, ResultStates, Terminal, Codes
    <3> QED
      BY <2>1, <3>1, <1>0, PlaceType, UnchangedDurable DEF HandleUnsupported, EnginePcs
  <2>2. CASE HandleUnreadable(command)
    <3>1. JournalUnavailable(NoKey) \in Records
      BY JournalUnavailableType, NoKeyType
    <3> QED
      BY <2>2, <3>1, <1>0, PlaceType, StorageFailsType DEF HandleUnreadable, EnginePcs
  <2>3. CASE HandleChanged(command)
    <3>1. journal[command.id].key \in Keys
      BY <1>0 DEF Records
    <3>2. Unrecorded("rejected", "command_payload_changed", journal[command.id].key) \in Records
      BY <3>1, UnrecordedType DEF LocalStates, ResultStates, Terminal, Codes
    <3> QED
      BY <2>3, <3>2, <1>0, PlaceType, UnchangedDurable DEF HandleChanged, TakesKnown, EnginePcs
  <2>4. CASE HandleTerminal(command)
    BY <2>4, <1>0, ReportTerminalType, UnchangedDurable
    DEF HandleTerminal, TakesDuplicate, TakesKnown
  <2>5. CASE HandleRestarted(command)
    <3>1. Outcome(journal[command.id], "succeeded", "") \in Records
      BY <1>0, OutcomeType DEF LocalStates, ResultStates, Terminal, Codes
    <3> QED
      BY <2>5, <3>1, <1>0, PlaceType, UnchangedDurable
      DEF HandleRestarted, TakesDuplicate, TakesKnown, EnginePcs
  <2>6. CASE HandleInProgress(command)
    <3>1. Outcome(journal[command.id], "failed", "command_interrupted") \in Records
      BY <1>0, OutcomeType DEF LocalStates, ResultStates, Terminal, Codes
    <3>2. At("answering", command.id, journal[command.id]) \in Engines
      BY <1>0, PlaceType DEF EnginePcs
    <3>3. At("finishing", command.id,
             Outcome(journal[command.id], "failed", "command_interrupted")) \in Engines
      BY <3>1, <1>0, PlaceType DEF EnginePcs
    <3> QED
      BY <2>6, <3>2, <3>3, UnchangedDurable DEF HandleInProgress, TakesDuplicate, TakesKnown
  <2>7. CASE HandleExpired(command)
    <3>1. [journal EXCEPT ![command.id] = ExpiredRecord(command)] \in [Ids -> Records]
      BY <1>0, ExpiredRecordType
    <3>2. At("reporting", command.id, ExpiredRecord(command)) \in Engines
      BY <1>0, ExpiredRecordType, PlaceType DEF EnginePcs
    <3> QED
      BY <2>7, <3>1, <3>2, SavePrunedType, StorageFailsType, IdleType
      DEF HandleExpired, TakesNew
  <2>8. CASE HandleAccept(command)
    <3>1. [journal EXCEPT ![command.id] = AcceptedRecord(command)] \in [Ids -> Records]
      BY <1>0, AcceptedRecordType
    <3>2. At("acknowledging", command.id, AcceptedRecord(command)) \in Engines
      BY <1>0, AcceptedRecordType, PlaceType DEF EnginePcs
    <3>3. At("answering", command.id, JournalUnavailable(NoKey)) \in Engines
      BY <1>0, JournalUnavailableType, NoKeyType, PlaceType DEF EnginePcs
    <3> QED
      BY <2>8, <3>1, <3>2, <3>3, SavePrunedType, StorageFailsType
      DEF HandleAccept, TakesNew
  <2> QED
    BY <2>1, <2>2, <2>3, <2>4, <2>5, <2>6, <2>7, <2>8
    DEF Handle, HandleUnsupported, HandleUnreadable, HandleChanged, HandleTerminal,
        HandleRestarted, HandleInProgress, HandleExpired, HandleAccept, TakesDuplicate,
        TakesKnown, TakesNew
<1>2. queue' \in Seq(Commands)
  BY <1>1 DEF Takes
<1> QED
  BY <1>1, <1>2 DEF Takes, DurableTypeOK

LEMMA EngineStepType ==
    ASSUME EngineTypeOK, EngineStep
    PROVE  EngineTypeOK'
<1> USE DEF EngineTypeOK
<1>0. engine.pc # "idle" =>
        engine.record \in Records /\ engine.id \in Ids /\ engine.pc \in EnginePcs
  BY DEF Engines, IdleEngine
<1> DEFINE Sweeps == [active : BOOLEAN, todo : SUBSET Ids, unsaved : SUBSET Ids]
<1>1. CASE \E command \in Commands : Handle(command)
  BY <1>1, HandleType
<1>2. CASE SaveRunning
  <2> DEFINE record == [engine.record EXCEPT !.state = "running"]
  <2>0. engine.record \in Records /\ engine.id \in Ids
    BY <1>0, <1>2 DEF SaveRunning
  <2>1. record \in Records
    BY <2>0 DEF Records, LocalStates, ResultStates
  <2>2. At("announcing", engine.id, record) \in Engines
    BY <2>0, <2>1, PlaceType DEF EnginePcs
  <2>3. At("answering", engine.id, JournalUnavailable(record.key)) \in Engines
    <3>1. record.key \in Keys
      BY <2>1 DEF Records
    <3> QED
      BY <3>1, <2>0, JournalUnavailableType, PlaceType DEF EnginePcs
  <2>4. [journal EXCEPT ![engine.id] = record] \in [Ids -> Records]
    BY <2>1
  <2> HIDE DEF record
  <2>5. engine' \in Engines /\ DurableTypeOK'
    BY <1>2, <2>2, <2>3, <2>4, SaveJournalType, StorageFailsType DEF SaveRunning, record
  <2> QED
    BY <1>2, <2>5 DEF SaveRunning, Held, DurableTypeOK
<1>3. CASE ExecuteRefused
  <2>1. Outcome(engine.record, "rejected", "viewer_unavailable") \in Records
    BY <1>0, <1>3, OutcomeType DEF ExecuteRefused, LocalStates, ResultStates, Terminal, Codes
  <2> QED
    BY <1>3, <2>1, <1>0, PlaceType DEF ExecuteRefused, EnginePcs, durable, Held
<1>4. CASE ExecuteBegin
  <2>1. engine' \in Engines
    BY <1>4, <1>0 DEF ExecuteBegin, Engines, EnginePcs, IdleEngine
  <2>2. executions' \in [Ids -> 0 .. ExecutionCap]
    <3>1. ASSUME NEW n \in 0 .. ExecutionCap
          PROVE  (IF n = ExecutionCap THEN n ELSE n + 1) \in 0 .. ExecutionCap
      BY DEF ExecutionCap
    <3> QED
      BY <1>4, <3>1 DEF ExecuteBegin
  <2> QED
    BY <1>4, <2>1, <2>2 DEF ExecuteBegin, durable, Held
<1>5. CASE ExecuteEnd
  <2>1. Outcome(engine.record, "succeeded", "") \in Records
    BY <1>0, <1>5, OutcomeType DEF ExecuteEnd, LocalStates, ResultStates, Terminal, Codes
  <2>2. At("finishing", engine.id, Outcome(engine.record, "succeeded", "")) \in Engines
    BY <2>1, <1>0, <1>5, PlaceType DEF ExecuteEnd, EnginePcs
  <2>3. engine' \in Engines /\ restarting' \in BOOLEAN
    BY <1>5, <2>2, IdleType DEF ExecuteEnd
  <2> QED
    BY <1>5, <2>3 DEF ExecuteEnd, durable, Held
<1>6. CASE ExecuteFails
  <2>1. Outcome(engine.record, "failed", "execution_failed") \in Records
    BY <1>0, <1>6, OutcomeType DEF ExecuteFails, LocalStates, ResultStates, Terminal, Codes
  <2> QED
    BY <1>6, <2>1, <1>0, PlaceType DEF ExecuteFails, EnginePcs, durable, Held
<1>7. CASE Finish
  <2>1. engine.id \in Ids /\ Settled(engine.record) \in Records
    BY <1>0, <1>7, SettledType DEF Finish
  <2>2. [journal EXCEPT ![engine.id] = Settled(engine.record)] \in [Ids -> Records]
    BY <2>1
  <2>3. At("reporting", engine.id, Settled(engine.record)) \in Engines
    BY <2>1, PlaceType DEF EnginePcs
  <2>4. engine' \in Engines /\ DurableTypeOK'
    BY <1>7, <2>2, <2>3, SavePrunedType, StorageFailsType, IdleType DEF Finish
  <2> QED
    BY <1>7, <2>4 DEF Finish, Held, DurableTypeOK
<1>8. CASE Confirm
  <2>1. engine.id \in Ids /\ [engine.record EXCEPT !.reported = TRUE] \in Records
    <3>1. engine.id \in Ids /\ engine.record \in Records
      BY <1>0, <1>8 DEF Confirm
    <3> QED
      BY <3>1 DEF Records
  <2>2. [Remembered EXCEPT ![engine.id] = [engine.record EXCEPT !.reported = TRUE]]
          \in [Ids -> Records]
    BY <2>1, RememberedType
  <2>3. DurableTypeOK'
    BY <1>8, <2>2, SaveJournalType, StorageFailsType DEF Confirm
  <2>4. sweep' \in Sweeps
    <3>1. [sweep EXCEPT !.unsaved = {}] \in Sweeps
      OBVIOUS
    <3>2. [sweep EXCEPT !.unsaved = @ \cup {engine.id}] \in Sweeps
      BY <2>1
    <3> QED
      BY <1>8, <3>1, <3>2 DEF Confirm
  <2> QED
    BY <1>8, <2>3, <2>4, IdleType DEF Confirm, DurableTypeOK
<1>9. ASSUME NEW id \in Ids, ReconcileStale(id)
      PROVE  EngineTypeOK'
  <2>1. Reconciled(journal[id]) \in Records
    BY ReconciledType
  <2>2. [Remembered EXCEPT ![id] = Reconciled(journal[id])] \in [Ids -> Records]
    BY <2>1, RememberedType
  <2>3. At("reporting", id, Reconciled(journal[id])) \in Engines
    BY <2>1, PlaceType DEF EnginePcs
  <2>4. completions + 1 \in Nat
    OBVIOUS
  <2>5. DurableTypeOK' /\ engine' \in Engines
    BY <1>9, <2>2, <2>3, <2>4, StorageFailsType DEF ReconcileStale, DurableTypeOK
  <2>6. sweep' \in Sweeps
    BY <1>9 DEF ReconcileStale, Visited
  <2> QED
    BY <1>9, <2>5, <2>6 DEF ReconcileStale, Visits, DurableTypeOK
<1>10. ASSUME NEW id \in Ids, ReconcileOther(id)
       PROVE  EngineTypeOK'
  <2>1. engine' \in Engines
    BY <1>10, ReportTerminalType DEF ReconcileOther
  <2>2. sweep' \in [active : BOOLEAN, todo : SUBSET Ids, unsaved : SUBSET Ids]
    BY <1>10 DEF ReconcileOther, Visited
  <2> QED
    BY <1>10, <2>1, <2>2 DEF ReconcileOther, Visits, durable
<1> QED
  BY <1>1, <1>2, <1>3, <1>4, <1>5, <1>6, <1>7, <1>8, <1>9, <1>10 DEF EngineStep

LEMMA TypeStep == EngineTypeOK /\ [EngineNext]_engineVars => EngineTypeOK'
<1> SUFFICES ASSUME EngineTypeOK, [EngineNext]_engineVars PROVE EngineTypeOK'
  OBVIOUS
<1> USE DEF EngineTypeOK
<1>1. CASE EngineStep
  BY <1>1, EngineStepType
<1>2. ASSUME NEW ok \in BOOLEAN, Report(ok)
      PROVE  EngineTypeOK'
  <2>1. engine.record \in Records /\ engine.id \in Ids
    BY <1>2 DEF Report, Engines, IdleEngine
  <2>2. \A pc \in EnginePcs : [engine EXCEPT !.pc = pc] \in Engines
    BY <1>2, <2>1 DEF Report, Engines, IdleEngine
  <2>3. engine' \in Engines
    BY <1>2, <2>2, IdleType DEF Report, EnginePcs
  <2> QED
    BY <1>2, <2>3 DEF Report, durable, Held
<1>3. CASE ReconcileBegin
  <2>1. sweep' \in [active : BOOLEAN, todo : SUBSET Ids, unsaved : SUBSET Ids]
    BY <1>3 DEF ReconcileBegin, NoSweep
  <2> QED
    BY <1>3, <2>1 DEF ReconcileBegin, durable
<1>4. CASE ReconcileEnd
  <2>1. sweep' \in [active : BOOLEAN, todo : SUBSET Ids, unsaved : SUBSET Ids]
    BY <1>4 DEF ReconcileEnd, NoSweep
  <2> QED
    BY <1>4, <2>1 DEF ReconcileEnd, durable
<1>5. CASE Start
  <2>1. journal' \in [Ids -> Records]
    BY <1>5, NoRecordType DEF Start
  <2>2. boot' \in Nat /\ pruned' \subseteq Ids
    BY <1>5, PrunedIsTerminal DEF Start
  <2> QED
    BY <1>5, <2>1, <2>2 DEF Start
<1>6. CASE Stop
  <2>1. sweep' \in [active : BOOLEAN, todo : SUBSET Ids, unsaved : SUBSET Ids]
    BY <1>6 DEF Stop, NoSweep
  <2>2. engine' \in Engines /\ queue' \in Seq(Commands)
    BY <1>6, IdleType DEF Stop
  <2> QED
    BY <1>6, <2>1, <2>2 DEF Stop, durable
<1>7. ASSUME NEW command \in Commands, DeliverViewerCommand(command)
      PROVE  EngineTypeOK'
  <2>1. queue' \in Seq(Commands)
    BY <1>7 DEF DeliverViewerCommand
  <2> QED
    BY <1>7, <2>1 DEF DeliverViewerCommand, durable
<1>8. ASSUME NEW id \in Ids, ViewerLapse(id)
      PROVE  EngineTypeOK'
  BY <1>8 DEF ViewerLapse, durable
<1>9. CASE UNCHANGED engineVars
  BY <1>9 DEF engineVars
<1> QED
  BY <1>1, <1>2, <1>3, <1>4, <1>5, <1>6, <1>7, <1>8, <1>9 DEF EngineNext

\* Type correctness of the command engine, whatever the environment delivers
\* and wherever it stops.
THEOREM EngineTypeCorrect == EngineSpec => []EngineTypeOK
<1>1. EngineInit => EngineTypeOK
  BY TypeInit
<1>2. EngineTypeOK /\ [EngineNext]_engineVars => EngineTypeOK'
  BY TypeStep
<1> QED
  BY <1>1, <1>2, PTL DEF EngineSpec

-----------------------------------------------------------------------------
(* At most one execution. *)

Evidence == {"running"} \cup Terminal

\* What every step but ExecuteBegin does: no effect begins, and no evidence of
\* an earlier one goes, except with a record the journal bound drops.
KeepsEvidence ==
    /\ executions' = executions
    /\ pruned \subseteq pruned'
    /\ \A id \in Ids :
          journal[id].state \in Evidence => journal'[id].state \in Evidence \/ id \in pruned'

LEMMA EvidenceSuffices ==
    ASSUME AtMostOnce, EffectIsJournaled, KeepsEvidence
    PROVE  AtMostOnce' /\ EffectIsJournaled'
BY DEF AtMostOnce, EffectIsJournaled, KeepsEvidence, Evidence

LEMMA StorageFailsEvidence ==
    ASSUME UNCHANGED executions, StorageFails \/ UNCHANGED durable
    PROVE  KeepsEvidence
BY DEF KeepsEvidence, StorageFails, durable

\* A save that changes one record, to one that is evidence or from one that is not.
LEMMA SavePrunedEvidence ==
    ASSUME EngineTypeOK, NEW id \in Ids, NEW r \in Records,
           SavePruned([journal EXCEPT ![id] = r]), UNCHANGED executions,
           r.state \in Evidence \/ journal[id].state \notin Evidence
    PROVE  KeepsEvidence
BY DEF KeepsEvidence, SavePruned, EngineTypeOK

\* A record that is not settled is never dropped by the save that writes it.
LEMMA SavePrunedKeeps ==
    ASSUME EngineTypeOK, NEW id \in Ids, NEW r \in Records,
           SavePruned([journal EXCEPT ![id] = r]), r.state \notin Terminal
    PROVE  journal'[id] = r
BY PrunedIsTerminal DEF SavePruned, EngineTypeOK

LEMMA SaveJournalEvidence ==
    ASSUME EngineTypeOK, NEW id \in Ids, NEW r \in Records,
           journal' = [Remembered EXCEPT ![id] = r], UNCHANGED <<executions, pruned>>,
           r.state \in Evidence
    PROVE  KeepsEvidence
BY RememberedType DEF KeepsEvidence, EngineTypeOK

\* A command that has no record, or one that is not evidence, had no effect.
LEMMA NoEvidence ==
    ASSUME EngineTypeOK, EffectIsJournaled, NEW id \in Ids, journal[id].state \notin Evidence
    PROVE  Unexecuted(id)
BY DEF EngineTypeOK, EffectIsJournaled, Evidence, Unexecuted, ExecutionCap

LEMMA StatesDiffer ==
    /\ "absent" \notin Evidence /\ "acknowledged" \notin Evidence
    /\ "running" \in Evidence /\ "running" \notin Terminal /\ "acknowledged" \notin Terminal
    /\ Terminal \subseteq Evidence
    /\ {"succeeded", "failed", "rejected", "expired"} \subseteq Terminal
BY DEF Evidence, Terminal

\* Places that know nothing about the journal.
LEMMA PlacedSettled ==
    ASSUME NEW id \in Ids, NEW r, r.state \in Terminal,
           NEW pc \in {"finishing", "reporting", "confirming"}, engine' = At(pc, id, r)
    PROVE  PlaceInv'
BY DEF PlaceInv, At

LEMMA PlacedAnswering ==
    ASSUME NEW id \in Ids, NEW r, engine' = At("answering", id, r)
    PROVE  PlaceInv'
BY DEF PlaceInv, At

LEMMA PlacedIdle ==
    ASSUME engine' = IdleEngine
    PROVE  PlaceInv'
BY DEF PlaceInv, IdleEngine

LEMMA HandleInv ==
    ASSUME IInv, NEW command \in Commands, Handle(command)
    PROVE  AtMostOnce' /\ EffectIsJournaled' /\ PlaceInv'
<1> USE DEF IInv
<1>0. command.id \in Ids /\ UNCHANGED executions
  BY DEF Commands, Handle, HandleUnsupported, HandleUnreadable, HandleChanged, HandleTerminal,
         HandleRestarted, HandleInProgress, HandleExpired, HandleAccept, TakesDuplicate,
         TakesKnown, TakesNew, Takes
<1>1. KeepsEvidence /\ PlaceInv'
  <2>1. CASE HandleUnsupported(command)
    BY <2>1, <1>0, StorageFailsEvidence DEF HandleUnsupported, PlaceInv, At
  <2>2. CASE HandleUnreadable(command)
    BY <2>2, <1>0, StorageFailsEvidence DEF HandleUnreadable, PlaceInv, At
  <2>3. CASE HandleChanged(command)
    BY <2>3, <1>0, StorageFailsEvidence DEF HandleChanged, TakesKnown, PlaceInv, At
  <2>4. CASE HandleTerminal(command)
    BY <2>4, <1>0, StorageFailsEvidence
    DEF HandleTerminal, TakesDuplicate, TakesKnown, ReportTerminal, PlaceInv, At, IdleEngine
  <2>5. CASE HandleRestarted(command)
    <3>0. journal[command.id] \in Records /\ "succeeded" \in Terminal \cap LocalStates
      BY <1>0, StatesDiffer DEF EngineTypeOK, LocalStates, ResultStates
    <3>1. Outcome(journal[command.id], "succeeded", "").state \in Terminal
      BY <3>0, OutcomeState
    <3>2. /\ UNCHANGED durable
          /\ engine' = At("finishing", command.id, Outcome(journal[command.id], "succeeded", ""))
      BY <2>5 DEF HandleRestarted, TakesDuplicate, TakesKnown
    <3>3. KeepsEvidence
      BY <3>2, <1>0, StorageFailsEvidence
    <3> QED
      BY <3>1, <3>2, <3>3, <1>0, PlacedSettled, PlacedAnswering
  <2>6. CASE HandleInProgress(command)
    <3>0. journal[command.id] \in Records /\ "failed" \in Terminal \cap LocalStates
      BY <1>0, StatesDiffer DEF EngineTypeOK, LocalStates, ResultStates
    <3>1. Outcome(journal[command.id], "failed", "command_interrupted").state \in Terminal
      BY <3>0, OutcomeState
    <3>2. /\ UNCHANGED durable
          /\ \/ engine' = At("answering", command.id, journal[command.id])
             \/ engine' = At("finishing", command.id,
                             Outcome(journal[command.id], "failed", "command_interrupted"))
      BY <2>6 DEF HandleInProgress, TakesDuplicate, TakesKnown
    <3>3. KeepsEvidence
      BY <3>2, <1>0, StorageFailsEvidence
    <3> QED
      BY <3>1, <3>2, <3>3, <1>0, PlacedSettled, PlacedAnswering
  <2>7. CASE HandleExpired(command)
    <3>1. ExpiredRecord(command) \in Records /\ ExpiredRecord(command).state = "expired"
      BY ExpiredRecordType DEF EngineTypeOK
    <3>2. KeepsEvidence
      <4>1. CASE SavePruned([journal EXCEPT ![command.id] = ExpiredRecord(command)])
        BY <4>1, <3>1, <1>0, StatesDiffer, SavePrunedEvidence
      <4>2. CASE StorageFails
        BY <4>2, <1>0, StorageFailsEvidence
      <4> QED
        BY <2>7, <4>1, <4>2 DEF HandleExpired
    <3>3. PlaceInv'
      BY <2>7, <3>1, <1>0, StatesDiffer DEF HandleExpired, PlaceInv, At, IdleEngine
    <3> QED
      BY <3>2, <3>3
  <2>8. CASE HandleAccept(command)
    <3>1. /\ AcceptedRecord(command) \in Records
          /\ AcceptedRecord(command).state = "acknowledged"
      BY AcceptedRecordType DEF EngineTypeOK
    <3>2. journal[command.id].state \notin Evidence
      BY <2>8, StatesDiffer DEF HandleAccept, TakesNew, HasRecord
    <3>3. CASE /\ SavePruned([journal EXCEPT ![command.id] = AcceptedRecord(command)])
               /\ engine' = At("acknowledging", command.id, AcceptedRecord(command))
      <4>1. KeepsEvidence
        BY <3>3, <3>1, <3>2, <1>0, SavePrunedEvidence
      <4>2. journal'[command.id] = AcceptedRecord(command)
        BY <3>3, <3>1, <1>0, StatesDiffer, SavePrunedKeeps
      <4> QED
        BY <3>3, <3>1, <4>1, <4>2, <1>0 DEF PlaceInv, At
    <3>4. CASE /\ StorageFails
               /\ engine' = At("answering", command.id, JournalUnavailable(NoKey))
      BY <3>4, <1>0, StorageFailsEvidence DEF PlaceInv, At
    <3> QED
      BY <2>8, <3>3, <3>4 DEF HandleAccept
  <2> QED
    BY <2>1, <2>2, <2>3, <2>4, <2>5, <2>6, <2>7, <2>8 DEF Handle
<1> QED
  BY <1>1, EvidenceSuffices

LEMMA EngineStepInv ==
    ASSUME IInv, EngineStep
    PROVE  AtMostOnce' /\ EffectIsJournaled' /\ PlaceInv'
<1> USE DEF IInv
<1>0. engine.pc # "idle" =>
        engine.record \in Records /\ engine.id \in Ids /\ engine.pc \in EnginePcs
  BY DEF EngineTypeOK, Engines, IdleEngine
<1>1. ASSUME NEW command \in Commands, Handle(command)
      PROVE  AtMostOnce' /\ EffectIsJournaled' /\ PlaceInv'
  BY <1>1, HandleInv
<1>2. CASE SaveRunning
  <2> DEFINE r == [engine.record EXCEPT !.state = "running"]
  <2>1. /\ engine.id \in Ids /\ engine.record \in Records
        /\ journal[engine.id] = engine.record /\ engine.record.state = "acknowledged"
        /\ UNCHANGED <<executions, pruned>>
    BY <1>0, <1>2 DEF SaveRunning, SaveJournal, StorageFails, durable, PlaceInv
  <2>2. r \in Records /\ r.state = "running"
    BY <2>1 DEF Records, LocalStates, ResultStates
  <2>3. Unexecuted(engine.id)
    BY <2>1, StatesDiffer, NoEvidence
  <2>4. \/ /\ journal' = [journal EXCEPT ![engine.id] = r]
           /\ engine' = At("announcing", engine.id, r)
        \/ /\ StorageFails
           /\ engine' = At("answering", engine.id, JournalUnavailable(r.key))
    BY <1>2 DEF SaveRunning, SaveJournal
  <2> HIDE DEF r
  <2>5. CASE /\ journal' = [journal EXCEPT ![engine.id] = r]
             /\ engine' = At("announcing", engine.id, r)
    <3>1. KeepsEvidence
      BY <2>1, <2>2, <2>5, StatesDiffer DEF KeepsEvidence, EngineTypeOK
    <3>2. journal'[engine.id] = r
      BY <2>1, <2>5 DEF EngineTypeOK
    <3>3. PlaceInv'
      BY <2>1, <2>2, <2>3, <2>5, <3>2 DEF PlaceInv, At, Unexecuted
    <3> QED
      BY <3>1, <3>3, EvidenceSuffices
  <2>6. CASE /\ StorageFails
             /\ engine' = At("answering", engine.id, JournalUnavailable(r.key))
    <3>1. KeepsEvidence
      BY <2>1, <2>6, StorageFailsEvidence
    <3> QED
      BY <2>1, <2>6, <3>1, EvidenceSuffices, PlacedAnswering
  <2> QED
    BY <2>4, <2>5, <2>6
<1>3. CASE ExecuteRefused
  <2>1. KeepsEvidence
    BY <1>3, StorageFailsEvidence DEF ExecuteRefused
  <2>2. engine.record \in Records /\ engine.id \in Ids /\ "rejected" \in Terminal \cap LocalStates
    BY <1>0, <1>3, StatesDiffer DEF ExecuteRefused, LocalStates, ResultStates
  <2>3. Outcome(engine.record, "rejected", "viewer_unavailable").state \in Terminal
    BY <2>2, OutcomeState
  <2> QED
    BY <1>3, <2>1, <2>2, <2>3, EvidenceSuffices, PlacedSettled DEF ExecuteRefused
<1>4. CASE ExecuteBegin
  <2>1. /\ engine.id \in Ids /\ Unexecuted(engine.id)
        /\ journal[engine.id] = engine.record /\ engine.record.state = "running"
    BY <1>0, <1>4 DEF ExecuteBegin, PlaceInv
  <2>2. /\ executions'[engine.id] <= 1 \/ engine.id \in pruned
        /\ \A id \in Ids \ {engine.id} : executions'[id] = executions[id]
    BY <1>4, <2>1 DEF ExecuteBegin, EngineTypeOK, Unexecuted, ExecutionCap
  <2>3. UNCHANGED <<journal, pruned>>
    BY <1>4 DEF ExecuteBegin, durable
  <2>4. engine' = [engine EXCEPT !.pc = "running"]
    BY <1>4 DEF ExecuteBegin
  <2>5. AtMostOnce'
    BY <2>2, <2>3 DEF AtMostOnce
  <2>6. EffectIsJournaled'
    BY <2>1, <2>2, <2>3 DEF EffectIsJournaled
  <2>7. engine'.pc = "running" /\ engine'.id = engine.id /\ engine'.record = engine.record
    BY <2>4 DEF EngineTypeOK, Engines, IdleEngine
  <2>8. PlaceInv'
    BY <2>1, <2>3, <2>7 DEF PlaceInv
  <2> QED
    BY <2>5, <2>6, <2>8
<1>5. CASE ExecuteEnd
  <2>1. KeepsEvidence
    BY <1>5, StorageFailsEvidence DEF ExecuteEnd
  <2>2. engine.record \in Records /\ engine.id \in Ids /\ "succeeded" \in Terminal \cap LocalStates
    BY <1>0, <1>5, StatesDiffer DEF ExecuteEnd, LocalStates, ResultStates
  <2>3. Outcome(engine.record, "succeeded", "").state \in Terminal
    BY <2>2, OutcomeState
  <2>4. \/ engine' = IdleEngine
        \/ engine' = At("finishing", engine.id, Outcome(engine.record, "succeeded", ""))
    BY <1>5 DEF ExecuteEnd
  <2> QED
    BY <2>1, <2>2, <2>3, <2>4, EvidenceSuffices, PlacedSettled, PlacedIdle
<1>6. CASE ExecuteFails
  <2>1. KeepsEvidence
    BY <1>6, StorageFailsEvidence DEF ExecuteFails
  <2>2. engine.record \in Records /\ engine.id \in Ids /\ "failed" \in Terminal \cap LocalStates
    BY <1>0, <1>6, StatesDiffer DEF ExecuteFails, LocalStates, ResultStates
  <2>3. Outcome(engine.record, "failed", "execution_failed").state \in Terminal
    BY <2>2, OutcomeState
  <2> QED
    BY <1>6, <2>1, <2>2, <2>3, EvidenceSuffices, PlacedSettled DEF ExecuteFails
<1>7. CASE Finish
  <2>1. /\ engine.id \in Ids /\ engine.record \in Records
        /\ engine.record.state \in Terminal /\ UNCHANGED executions
    BY <1>0, <1>7 DEF Finish, PlaceInv
  <2>2. Settled(engine.record) \in Records /\ Settled(engine.record).state \in Terminal
    BY <2>1, SettledType DEF EngineTypeOK
  <2>3. CASE /\ SavePruned([journal EXCEPT ![engine.id] = Settled(engine.record)])
             /\ engine' = At("reporting", engine.id, Settled(engine.record))
    <3>1. KeepsEvidence
      BY <2>1, <2>2, <2>3, StatesDiffer, SavePrunedEvidence
    <3> QED
      BY <2>1, <2>2, <2>3, <3>1, EvidenceSuffices, PlacedSettled
  <2>4. CASE StorageFails /\ engine' = IdleEngine
    BY <2>1, <2>4, StorageFailsEvidence, EvidenceSuffices, PlacedIdle
  <2> QED
    BY <1>7, <2>3, <2>4 DEF Finish
<1>8. CASE Confirm
  <2> DEFINE r == [engine.record EXCEPT !.reported = TRUE]
  <2>1. /\ engine.id \in Ids /\ engine.record \in Records
        /\ engine.record.state \in Terminal /\ UNCHANGED executions /\ engine' = IdleEngine
    BY <1>0, <1>8 DEF Confirm, PlaceInv
  <2>2. r \in Records /\ r.state = engine.record.state
    BY <2>1, ReportedType
  <2>3. \/ journal' = [Remembered EXCEPT ![engine.id] = r] /\ UNCHANGED pruned
        \/ StorageFails
    BY <1>8 DEF Confirm, SaveJournal
  <2> HIDE DEF r
  <2>4. KeepsEvidence
    BY <2>1, <2>2, <2>3, StatesDiffer, SaveJournalEvidence, StorageFailsEvidence
  <2> QED
    BY <2>1, <2>4, EvidenceSuffices, PlacedIdle
<1>9. ASSUME NEW id \in Ids, ReconcileStale(id)
      PROVE  AtMostOnce' /\ EffectIsJournaled' /\ PlaceInv'
  <2>1. Reconciled(journal[id]) \in Records /\ Reconciled(journal[id]).state \in Terminal
    BY ReconciledType DEF EngineTypeOK
  <2>2. UNCHANGED executions
    BY <1>9 DEF ReconcileStale, Visits
  <2>3. CASE /\ journal' = [Remembered EXCEPT ![id] = Reconciled(journal[id])]
             /\ UNCHANGED pruned
             /\ engine' = At("reporting", id, Reconciled(journal[id]))
    <3>1. KeepsEvidence
      BY <2>1, <2>2, <2>3, StatesDiffer, SaveJournalEvidence
    <3> QED
      BY <2>1, <2>3, <3>1, EvidenceSuffices, PlacedSettled
  <2>4. CASE StorageFails /\ UNCHANGED engine
    <3>1. KeepsEvidence
      BY <2>2, <2>4, StorageFailsEvidence
    <3>2. PlaceInv'
      BY <2>2, <2>4 DEF PlaceInv, Unexecuted, StorageFails, durable
    <3> QED
      BY <3>1, <3>2, EvidenceSuffices
  <2> QED
    BY <1>9, <2>3, <2>4 DEF ReconcileStale
<1>10. ASSUME NEW id \in Ids, ReconcileOther(id)
       PROVE  AtMostOnce' /\ EffectIsJournaled' /\ PlaceInv'
  <2>1. UNCHANGED durable /\ UNCHANGED executions
    BY <1>10 DEF ReconcileOther, Visits
  <2>2. KeepsEvidence
    BY <2>1, StorageFailsEvidence
  <2>3. \/ UNCHANGED engine
        \/ engine' = IdleEngine
        \/ journal[id].state \in Terminal /\ engine' = At("reporting", id, journal[id])
    BY <1>10 DEF ReconcileOther, ReportTerminal
  <2>4. UNCHANGED engine => PlaceInv'
    BY <2>1 DEF PlaceInv, Unexecuted, durable
  <2> QED
    BY <2>2, <2>3, <2>4, EvidenceSuffices, PlacedSettled, PlacedIdle
<1> QED
  BY <1>1, <1>2, <1>3, <1>4, <1>5, <1>6, <1>7, <1>8, <1>9, <1>10 DEF EngineStep

LEMMA IInvInit == EngineInit => IInv
<1> SUFFICES ASSUME EngineInit PROVE IInv
  OBVIOUS
<1>1. EngineTypeOK
  BY TypeInit
<1>2. AtMostOnce /\ EffectIsJournaled
  BY DEF EngineInit, AtMostOnce, EffectIsJournaled
<1>3. PlaceInv
  BY DEF EngineInit, PlaceInv, IdleEngine
<1> QED
  BY <1>1, <1>2, <1>3 DEF IInv

LEMMA IInvStep == IInv /\ [EngineNext]_engineVars => IInv'
<1> SUFFICES ASSUME IInv, [EngineNext]_engineVars
             PROVE  AtMostOnce' /\ EffectIsJournaled' /\ PlaceInv'
  BY TypeStep DEF IInv
<1> USE DEF IInv
<1>1. CASE EngineStep
  BY <1>1, EngineStepInv
<1>2. ASSUME NEW ok \in BOOLEAN, Report(ok)
      PROVE  AtMostOnce' /\ EffectIsJournaled' /\ PlaceInv'
  <2>1. UNCHANGED durable /\ UNCHANGED executions
    BY <1>2 DEF Report
  <2>2. KeepsEvidence
    BY <2>1, StorageFailsEvidence
  <2>3. /\ engine.id \in Ids /\ engine \in [pc : EnginePcs, id : Ids, record : Records]
        /\ engine.pc \in {"acknowledging", "announcing", "reporting", "answering"}
    BY <1>2 DEF Report, EngineTypeOK, Engines, IdleEngine
  <2>4. ASSUME engine' = IdleEngine
        PROVE  PlaceInv'
    BY <2>4, PlacedIdle
  <2>5. ASSUME engine.pc = "acknowledging" /\ engine' = [engine EXCEPT !.pc = "starting"]
        PROVE  PlaceInv'
    <3>1. engine'.pc = "starting" /\ engine'.id = engine.id /\ engine'.record = engine.record
      BY <2>3, <2>5
    <3> QED
      BY <2>1, <2>3, <2>5, <3>1 DEF PlaceInv, durable
  <2>6. ASSUME engine.pc = "announcing" /\ engine' = [engine EXCEPT !.pc = "executing"]
        PROVE  PlaceInv'
    <3>1. engine'.pc = "executing" /\ engine'.id = engine.id /\ engine'.record = engine.record
      BY <2>3, <2>6
    <3> QED
      BY <2>1, <2>3, <2>6, <3>1 DEF PlaceInv, durable, Unexecuted
  <2>7. ASSUME engine.pc = "reporting" /\ engine' = [engine EXCEPT !.pc = "confirming"]
        PROVE  PlaceInv'
    <3>1. engine'.pc = "confirming" /\ engine'.id = engine.id /\ engine'.record = engine.record
      BY <2>3, <2>7
    <3> QED
      BY <2>1, <2>3, <2>7, <3>1 DEF PlaceInv, durable
  <2>8. PlaceInv'
    <3>1. \/ engine' = IdleEngine
          \/ engine.pc = "acknowledging" /\ engine' = [engine EXCEPT !.pc = "starting"]
          \/ engine.pc = "announcing" /\ engine' = [engine EXCEPT !.pc = "executing"]
          \/ engine.pc = "reporting" /\ engine' = [engine EXCEPT !.pc = "confirming"]
      BY <1>2, <2>3 DEF Report
    <3> QED
      BY <3>1, <2>4, <2>5, <2>6, <2>7
  <2> QED
    BY <2>2, <2>8, EvidenceSuffices
<1>3. CASE Start
  <2>1. /\ UNCHANGED <<engine, executions>> /\ pruned \subseteq pruned'
        /\ \A id \in Ids : journal[id].state \notin Terminal => journal'[id] = journal[id]
    BY <1>3, PrunedIsTerminal DEF Start, EngineTypeOK
  <2>2. KeepsEvidence
    BY <1>3, <2>1 DEF Start, KeepsEvidence
  <2>3. PlaceInv'
    BY <2>1, StatesDiffer DEF PlaceInv, Unexecuted
  <2> QED
    BY <2>2, <2>3, EvidenceSuffices
<1>4. CASE Stop
  BY <1>4, StorageFailsEvidence, EvidenceSuffices, PlacedIdle DEF Stop
<1>5. ASSUME UNCHANGED <<durable, engine, executions>>
      PROVE  AtMostOnce' /\ EffectIsJournaled' /\ PlaceInv'
  <2>1. KeepsEvidence
    BY <1>5, StorageFailsEvidence
  <2>2. PlaceInv'
    BY <1>5 DEF PlaceInv, Unexecuted, durable
  <2> QED
    BY <2>1, <2>2, EvidenceSuffices
<1>6. CASE \/ ReconcileBegin \/ ReconcileEnd
           \/ \E command \in Commands : DeliverViewerCommand(command)
           \/ \E id \in Ids : ViewerLapse(id)
           \/ UNCHANGED engineVars
  BY <1>5, <1>6
  DEF ReconcileBegin, ReconcileEnd, DeliverViewerCommand, ViewerLapse, engineVars, durable
<1> QED
  BY <1>1, <1>2, <1>3, <1>4, <1>6 DEF EngineNext

LEMMA EngineInvariant == EngineSpec => []IInv
BY IInvInit, IInvStep, PTL DEF EngineSpec

\* However often, in whatever order and with whatever payload commands are
\* delivered, wherever the process dies and whether or not storage fails: a
\* side effect begins at most once while the journal retains its record.
THEOREM ExecutesAtMostOnce == EngineSpec => []AtMostOnce
<1>1. IInv => AtMostOnce
  BY DEF IInv
<1> QED
  BY <1>1, EngineInvariant, PTL

\* Write-ahead: no side effect without a record on disk, at any point of any
\* behaviour, that it was started or settled.
THEOREM EffectsAreJournaled == EngineSpec => []EffectIsJournaled
<1>1. IInv => EffectIsJournaled
  BY DEF IInv
<1> QED
  BY <1>1, EngineInvariant, PTL

-----------------------------------------------------------------------------
(* Outcomes: what a settled record says is true, and stays. *)

\* What a record of command id says, and how its target relates to the boot
\* that accepted it.
Truthful(id, r) ==
    /\ r.state = "succeeded" =>
          IF r.type = "restart_service" THEN r.accepted < r.target /\ r.target <= boot
          ELSE executions[id] = 1 \/ id \in pruned
    /\ r.state \in {"rejected", "expired"} => Unexecuted(id)
Proper(r) == r.type = "restart_service" /\ r.target > 0 => r.accepted < r.target
Sound(id, r) == Truthful(id, r) /\ Proper(r)

\* The record about to be saved, reported or confirmed is sound; until it is saved
\* the journal holds no outcome, afterwards it holds this one, unless dropped.
SettlingInv ==
    /\ engine.pc = "running" => executions[engine.id] = 1 \/ engine.id \in pruned
    /\ engine.pc \in {"finishing", "reporting", "confirming"} => Sound(engine.id, engine.record)
    /\ engine.pc = "finishing" => journal[engine.id].state \notin Terminal
    /\ engine.pc \in {"reporting", "confirming"} =>
          journal[engine.id] = engine.record \/ engine.id \in pruned

JournalSound == \A id \in Ids : Sound(id, journal[id])

OutcomeInv == IInv /\ JournalSound /\ SettlingInv

Final(id) ==
    journal[id].state \in Terminal =>
        ResultOf(journal'[id]) = ResultOf(journal[id]) \/ id \in pruned'

\* What every step does to the outcomes on disk.
KeepsOutcomes ==
    /\ JournalSound'
    /\ pruned \subseteq pruned'
    /\ \A id \in Ids : Final(id)

LEMMA NoRecordFields == NoRecord.state = "absent" /\ NoRecord.type = "none"
BY DEF NoRecord

LEMMA DurableOutcome ==
    ASSUME EngineTypeOK, JournalSound, UNCHANGED durable, UNCHANGED executions
    PROVE  KeepsOutcomes
BY DEF KeepsOutcomes, JournalSound, Sound, Truthful, Proper, Unexecuted, Final, durable

LEMMA SavePrunedOutcome ==
    ASSUME EngineTypeOK, JournalSound, NEW id \in Ids, NEW r \in Records,
           SavePruned([journal EXCEPT ![id] = r]), UNCHANGED executions,
           Sound(id, r), journal[id].state \notin Terminal
    PROVE  KeepsOutcomes /\ (journal'[id] = r \/ id \in pruned')
<1> DEFINE j == [journal EXCEPT ![id] = r]
<1>1. /\ journal' = [other \in Ids |-> IF other \in PrunedBy(j) THEN NoRecord ELSE j[other]]
      /\ pruned' = pruned \cup PrunedBy(j)
      /\ boot' = boot /\ boot \in Nat
  BY DEF SavePruned, EngineTypeOK
<1>2. j[id] = r /\ \A other \in Ids \ {id} : j[other] = journal[other]
  BY DEF EngineTypeOK
<1> HIDE DEF j
<1>3. ASSUME NEW other \in Ids
      PROVE  Sound(other, journal[other])' /\ Final(other)
  <2>1. CASE other \in PrunedBy(j)
    <3>1. journal'[other] = NoRecord /\ other \in pruned'
      BY <1>1, <2>1
    <3> QED
      BY <3>1, NoRecordFields DEF Final, Sound, Truthful, Proper
  <2>2. CASE other \notin PrunedBy(j)
    <3>1. journal'[other] = j[other] /\ j[other] \in Records /\ Sound(other, j[other])
      BY <1>1, <1>2, <2>2 DEF JournalSound, EngineTypeOK
    <3>2. Final(other)
      BY <1>2, <3>1 DEF Final
    <3> QED
      BY <1>1, <3>1, <3>2 DEF Sound, Truthful, Proper, Unexecuted
  <2> QED
    BY <2>1, <2>2
<1> QED
  BY <1>1, <1>2, <1>3 DEF KeepsOutcomes, JournalSound

LEMMA RememberedSound ==
    ASSUME EngineTypeOK, JournalSound, NEW id \in Ids
    PROVE  Sound(id, Remembered[id]) /\ ResultOf(Remembered[id]) = ResultOf(journal[id])
<1>1. journal[id] \in Records /\ Sound(id, journal[id])
  BY DEF EngineTypeOK, JournalSound
<1>2. Remembered[id] \in {journal[id], [journal[id] EXCEPT !.reported = TRUE]}
  BY DEF Remembered
<1>3. /\ Remembered[id].state = journal[id].state /\ Remembered[id].type = journal[id].type
      /\ Remembered[id].code = journal[id].code /\ Remembered[id].key = journal[id].key
      /\ Remembered[id].accepted = journal[id].accepted
      /\ Remembered[id].target = journal[id].target
  BY <1>1, <1>2 DEF Records
<1> QED
  BY <1>1, <1>3 DEF Sound, Truthful, Proper, ResultOf

LEMMA SaveRememberedOutcome ==
    ASSUME EngineTypeOK, JournalSound, NEW id \in Ids, NEW r \in Records,
           journal' = [Remembered EXCEPT ![id] = r], UNCHANGED <<executions, boot, pruned>>,
           Sound(id, r),
           \/ journal[id].state \notin Terminal
           \/ ResultOf(r) = ResultOf(journal[id])
           \/ id \in pruned
    PROVE  KeepsOutcomes /\ journal'[id] = r
<1>1. journal'[id] = r /\ \A other \in Ids \ {id} : journal'[other] = Remembered[other]
  BY RememberedType DEF EngineTypeOK
<1>2. ASSUME NEW other \in Ids
      PROVE  Sound(other, journal'[other]) /\ Final(other)
  BY <1>1, RememberedSound DEF Final
<1>3. ASSUME NEW other \in Ids
      PROVE  Sound(other, journal[other])'
  BY <1>2 DEF Sound, Truthful, Proper, Unexecuted
<1> QED
  BY <1>1, <1>2, <1>3 DEF KeepsOutcomes, JournalSound

\* A step that neither saves nor executes, by where it leaves the engine.
LEMMA SettlingIdle ==
    ASSUME engine' = IdleEngine
    PROVE  SettlingInv'
BY DEF SettlingInv, IdleEngine

LEMMA SettlingElsewhere ==
    ASSUME NEW id, NEW r, NEW pc \in EnginePcs, engine' = At(pc, id, r),
           pc \notin {"running", "finishing", "reporting", "confirming"}
    PROVE  SettlingInv'
BY DEF SettlingInv, At

LEMMA SettlingFinishing ==
    ASSUME OutcomeInv, NEW id \in Ids, NEW r \in Records, engine' = At("finishing", id, r),
           UNCHANGED <<durable, executions>>, Sound(id, r), journal[id].state \notin Terminal
    PROVE  SettlingInv'
<1>1. engine'.pc = "finishing" /\ engine'.id = id /\ engine'.record = r
  BY DEF At
<1> QED
  BY <1>1 DEF SettlingInv, Sound, Truthful, Proper, Unexecuted, durable

LEMMA SettlingReporting ==
    ASSUME NEW id \in Ids, NEW r \in Records, engine' = At("reporting", id, r),
           UNCHANGED <<boot, executions>>, pruned \subseteq pruned', Sound(id, r),
           journal'[id] = r \/ id \in pruned'
    PROVE  SettlingInv'
<1>1. engine'.pc = "reporting" /\ engine'.id = id /\ engine'.record = r
  BY DEF At
<1> QED
  BY <1>1 DEF SettlingInv, Sound, Truthful, Proper, Unexecuted

LEMMA OutcomeFields ==
    ASSUME NEW r \in Records, NEW s \in LocalStates, NEW c \in Codes
    PROVE  /\ Outcome(r, s, c) \in Records
           /\ Outcome(r, s, c).state = s
           /\ Outcome(r, s, c).type = r.type
           /\ Outcome(r, s, c).accepted = r.accepted
           /\ Outcome(r, s, c).target = r.target
<1> DEFINE o == Outcome(r, s, c)
<1>1. o = [r EXCEPT !.state = s, !.code = c]
  BY DEF Outcome
<1> HIDE DEF o
<1>2. o \in Records
  BY <1>1 DEF Records
<1>3. o.state = s /\ o.type = r.type
  BY <1>1 DEF Records
<1>4. o.accepted = r.accepted /\ o.target = r.target
  BY <1>1 DEF Records
<1> QED
  BY <1>2, <1>3, <1>4 DEF o

\* The states and the error categories that the engine writes.
LEMMA OutcomeNames ==
    /\ "succeeded" \in LocalStates /\ "failed" \in LocalStates /\ "rejected" \in LocalStates
    /\ "command_interrupted" \in Codes /\ "viewer_unavailable" \in Codes
    /\ "execution_failed" \in Codes
<1>1. "succeeded" \in LocalStates /\ "failed" \in LocalStates /\ "rejected" \in LocalStates
  BY DEF LocalStates, ResultStates, Terminal
<1>2. "command_interrupted" \in Codes
  BY Zenon DEF Codes
<1>3. "viewer_unavailable" \in Codes
  BY Zenon DEF Codes
<1>4. "execution_failed" \in Codes
  BY Zenon DEF Codes
<1> QED
  BY <1>1, <1>2, <1>3, <1>4

LEMMA NoErrorIsCode == "" \in Codes
BY Zenon DEF Codes

\* A running restart_service whose target boot has begun has succeeded.
LEMMA RestartedSound ==
    ASSUME EngineTypeOK, NEW id \in Ids, NEW r \in Records, Sound(id, r), Restarted(r)
    PROVE  Sound(id, Outcome(r, "succeeded", ""))
<1> DEFINE none == ""
           s == Outcome(r, "succeeded", none)
<1>0. none \in Codes
  BY NoErrorIsCode
<1> HIDE DEF none
<1>1. /\ s.state = "succeeded" /\ s.type = r.type /\ s.accepted = r.accepted
      /\ s.target = r.target
  BY <1>0, OutcomeNames, OutcomeFields
<1> HIDE DEF s
<1>2. r.target \in Nat /\ boot \in Nat /\ r.target <= boot
  BY DEF Records, EngineTypeOK, Restarted
<1>3. Sound(id, s)
  BY <1>1, <1>2 DEF Sound, Truthful, Proper, Restarted
<1> QED
  BY <1>3 DEF s, none

LEMMA FailedSound ==
    ASSUME NEW id \in Ids, NEW r \in Records, Sound(id, r)
    PROVE  Sound(id, Outcome(r, "failed", "command_interrupted"))
<1> DEFINE s == Outcome(r, "failed", "command_interrupted")
<1>1. /\ s.state = "failed" /\ s.type = r.type /\ s.accepted = r.accepted
      /\ s.target = r.target
  BY OutcomeNames, OutcomeFields
<1> HIDE DEF s
<1>2. Sound(id, s)
  BY <1>1 DEF Sound, Truthful, Proper
<1> QED
  BY <1>2 DEF s

LEMMA SettledSound ==
    ASSUME EngineTypeOK, NEW id \in Ids, NEW r \in Records, Sound(id, r)
    PROVE  Settled(r) \in Records /\ Sound(id, Settled(r))
<1> DEFINE now == completions + 1
           s == Settled(r)
<1>1. now \in Nat
  BY DEF EngineTypeOK
<1>2. s = [r EXCEPT !.completed = now, !.reported = FALSE]
  BY DEF Settled
<1> HIDE DEF now, s
<1>3. /\ s \in Records /\ s.state = r.state /\ s.type = r.type /\ s.accepted = r.accepted
      /\ s.target = r.target
  BY <1>1, <1>2, Zenon DEF Records
<1>4. Sound(id, s)
  BY <1>3 DEF Sound, Truthful, Proper
<1> QED
  BY <1>3, <1>4 DEF s

LEMMA ReconciledSound ==
    ASSUME EngineTypeOK, NEW id \in Ids, NEW r \in Records, Sound(id, r)
    PROVE  Sound(id, Reconciled(r))
<1>1. /\ Outcome(r, "succeeded", "") \in Records
      /\ Outcome(r, "failed", "command_interrupted") \in Records
  BY OutcomeType DEF LocalStates, ResultStates, Terminal, Codes
<1> QED
  BY <1>1, RestartedSound, FailedSound, SettledSound DEF Reconciled

LEMMA HandleOutcome ==
    ASSUME OutcomeInv, NEW command \in Commands, Handle(command)
    PROVE  KeepsOutcomes /\ SettlingInv'
<1> DEFINE id == command.id
<1>0. /\ id \in Ids /\ UNCHANGED executions
      /\ EngineTypeOK /\ JournalSound
      /\ journal[id] \in Records /\ Sound(id, journal[id])
  BY DEF Commands, Handle, HandleUnsupported, HandleUnreadable, HandleChanged, HandleTerminal,
         HandleRestarted, HandleInProgress, HandleExpired, HandleAccept, TakesDuplicate,
         TakesKnown, TakesNew, Takes, OutcomeInv, IInv, EngineTypeOK, JournalSound
<1> HIDE DEF id
<1>1. ASSUME UNCHANGED durable, NEW r, engine' = At("answering", id, r)
      PROVE  KeepsOutcomes /\ SettlingInv'
  BY <1>0, <1>1, DurableOutcome, SettlingElsewhere DEF EnginePcs
<1>2. CASE HandleUnsupported(command) \/ HandleUnreadable(command) \/ HandleChanged(command)
  <2>1. UNCHANGED durable /\ \E r : engine' = At("answering", id, r)
    BY <1>2 DEF HandleUnsupported, HandleUnreadable, HandleChanged, TakesKnown, StorageFails, id
  <2> QED
    BY <2>1, <1>1
<1>3. CASE HandleTerminal(command)
  <2>1. /\ UNCHANGED durable
        /\ engine' = IdleEngine \/ engine' = At("reporting", id, journal[id])
    BY <1>3 DEF HandleTerminal, TakesDuplicate, TakesKnown, ReportTerminal, id
  <2>2. KeepsOutcomes
    BY <1>0, <2>1, DurableOutcome
  <2>3. ASSUME engine' = At("reporting", id, journal[id])
        PROVE  SettlingInv'
    BY <1>0, <2>1, <2>3, SettlingReporting DEF durable
  <2> QED
    BY <2>1, <2>2, <2>3, SettlingIdle
<1>4. CASE HandleRestarted(command)
  <2> DEFINE r == Outcome(journal[id], "succeeded", "")
  <2>1. /\ UNCHANGED durable /\ Restarted(journal[id])
        /\ engine' = At("finishing", id, r)
    BY <1>4 DEF HandleRestarted, TakesDuplicate, TakesKnown, id
  <2>2. r \in Records /\ journal[id].state \notin Terminal
    BY <1>0, <2>1, OutcomeType
    DEF LocalStates, ResultStates, Terminal, Codes, Restarted
  <2>3. Sound(id, r)
    BY <1>0, <2>1, RestartedSound
  <2> HIDE DEF r
  <2> QED
    BY <1>0, <2>1, <2>2, <2>3, DurableOutcome, SettlingFinishing
<1>5. CASE HandleInProgress(command)
  <2> DEFINE r == Outcome(journal[id], "failed", "command_interrupted")
  <2>1. /\ UNCHANGED durable /\ journal[id].state \notin Terminal
        /\ \/ engine' = At("answering", id, journal[id])
           \/ engine' = At("finishing", id, r)
    BY <1>5 DEF HandleInProgress, TakesDuplicate, TakesKnown, id
  <2>2. r \in Records
    BY <1>0, OutcomeType DEF LocalStates, ResultStates, Terminal, Codes
  <2>3. Sound(id, r)
    BY <1>0, FailedSound
  <2> HIDE DEF r
  <2> QED
    BY <1>0, <1>1, <2>1, <2>2, <2>3, DurableOutcome, SettlingFinishing
<1>6. CASE HandleExpired(command)
  <2> DEFINE r == ExpiredRecord(command)
  <2>1. /\ journal[id].state = "absent"
        /\ \/ /\ SavePruned([journal EXCEPT ![id] = r])
              /\ engine' = At("reporting", id, r)
           \/ UNCHANGED durable /\ engine' = IdleEngine
    BY <1>6 DEF HandleExpired, TakesNew, HasRecord, StorageFails, id
  <2>2. r \in Records /\ Sound(id, r)
    <3>1. r \in Records /\ r.state = "expired" /\ r.target = 0
      BY <1>0, ExpiredRecordType DEF EngineTypeOK, ExpiredRecord, NoRecord
    <3>2. Unexecuted(id)
      BY <1>0, <2>1, StatesDiffer, NoEvidence DEF OutcomeInv, IInv
    <3> QED
      BY <3>1, <3>2 DEF Sound, Truthful, Proper
  <2> HIDE DEF r
  <2>3. ASSUME SavePruned([journal EXCEPT ![id] = r]), engine' = At("reporting", id, r)
        PROVE  KeepsOutcomes /\ SettlingInv'
    <3>1. KeepsOutcomes /\ (journal'[id] = r \/ id \in pruned')
      BY <1>0, <2>1, <2>2, <2>3, StatesDiffer, SavePrunedOutcome DEF Terminal
    <3>2. boot' = boot /\ pruned \subseteq pruned'
      BY <2>3 DEF SavePruned
    <3> QED
      BY <1>0, <2>2, <2>3, <3>1, <3>2, SettlingReporting
  <2> QED
    BY <1>0, <2>1, <2>3, DurableOutcome, SettlingIdle
<1>7. CASE HandleAccept(command)
  <2> DEFINE r == AcceptedRecord(command)
  <2>1. /\ journal[id].state = "absent"
        /\ \/ /\ SavePruned([journal EXCEPT ![id] = r])
              /\ engine' = At("acknowledging", id, r)
           \/ UNCHANGED durable /\ engine' = At("answering", id, JournalUnavailable(NoKey))
    BY <1>7 DEF HandleAccept, TakesNew, HasRecord, StorageFails, id
  <2>2. r \in Records /\ Sound(id, r)
    <3>1. r \in Records /\ r.state = "acknowledged"
      BY <1>0, AcceptedRecordType DEF EngineTypeOK
    <3>2. Proper(r)
      BY <1>0 DEF Proper, AcceptedRecord, NoRecord, EngineTypeOK
    <3> QED
      BY <3>1, <3>2 DEF Sound, Truthful
  <2> HIDE DEF r
  <2>3. ASSUME SavePruned([journal EXCEPT ![id] = r]), engine' = At("acknowledging", id, r)
        PROVE  KeepsOutcomes /\ SettlingInv'
    BY <1>0, <2>1, <2>2, <2>3, SavePrunedOutcome, SettlingElsewhere DEF Terminal, EnginePcs
  <2> QED
    BY <1>0, <1>1, <2>1, <2>3
<1> QED
  BY <1>2, <1>3, <1>4, <1>5, <1>6, <1>7 DEF Handle

LEMMA EngineStepOutcome ==
    ASSUME OutcomeInv, EngineStep
    PROVE  KeepsOutcomes /\ SettlingInv'
<1> DEFINE id == engine.id
           r  == engine.record
<1>0. /\ EngineTypeOK /\ JournalSound /\ PlaceInv /\ SettlingInv /\ AtMostOnce
      /\ engine.pc # "idle" => r \in Records /\ id \in Ids /\ engine.pc \in EnginePcs
      /\ \A i \in Ids : journal[i] \in Records /\ Sound(i, journal[i])
  BY DEF OutcomeInv, IInv, EngineTypeOK, Engines, IdleEngine, JournalSound
<1>1. ASSUME NEW command \in Commands, Handle(command)
      PROVE  KeepsOutcomes /\ SettlingInv'
  BY <1>1, HandleOutcome
<1>2. CASE SaveRunning
  <2> DEFINE s == [r EXCEPT !.state = "running"]
  <2>1. /\ id \in Ids /\ r \in Records /\ UNCHANGED <<executions, pruned, boot>>
        /\ journal[id] = r /\ r.state = "acknowledged"
    BY <1>0, <1>2 DEF SaveRunning, SaveJournal, StorageFails, durable, PlaceInv
  <2>2. \/ journal' = [journal EXCEPT ![id] = s] /\ engine' = At("announcing", id, s)
        \/ /\ UNCHANGED durable
           /\ engine' = At("answering", id, JournalUnavailable(s.key))
    BY <1>2 DEF SaveRunning, SaveJournal, StorageFails
  <2>3. s \in Records /\ Sound(id, s)
    <3>1. s \in Records /\ s.state = "running" /\ s.type = r.type /\ s.accepted = r.accepted
          /\ s.target = r.target
      BY <2>1 DEF Records, LocalStates, ResultStates
    <3>2. Proper(r)
      BY <1>0, <2>1 DEF Sound
    <3> HIDE DEF s
    <3> QED
      BY <3>1, <3>2 DEF Sound, Truthful, Proper
  <2> HIDE DEF s
  <2>4. journal' = [journal EXCEPT ![id] = s] => KeepsOutcomes
    <3> SUFFICES ASSUME journal' = [journal EXCEPT ![id] = s] PROVE KeepsOutcomes
      OBVIOUS
    <3>1. journal'[id] = s /\ \A i \in Ids \ {id} : journal'[i] = journal[i]
      BY <2>1, <1>0 DEF EngineTypeOK
    <3>2. \A i \in Ids : Sound(i, journal'[i]) /\ Final(i)
      BY <1>0, <2>1, <2>3, <3>1, StatesDiffer DEF Final
    <3> QED
      BY <2>1, <3>2 DEF KeepsOutcomes, JournalSound, Sound, Truthful, Proper, Unexecuted
  <2>5. SettlingInv'
    BY <2>2, SettlingElsewhere DEF EnginePcs
  <2> QED
    BY <1>0, <2>1, <2>2, <2>4, <2>5, DurableOutcome
<1>3. CASE ExecuteRefused
  <2> DEFINE s == Outcome(r, "rejected", "viewer_unavailable")
  <2>1. /\ id \in Ids /\ r \in Records /\ UNCHANGED durable /\ UNCHANGED executions
        /\ journal[id] = r /\ r.state = "running" /\ Unexecuted(id)
        /\ engine' = At("finishing", id, s)
    BY <1>0, <1>3 DEF ExecuteRefused, PlaceInv
  <2>2. s \in Records /\ s.state = "rejected" /\ s.type = r.type /\ s.accepted = r.accepted
        /\ s.target = r.target
    <3>1. r \in Records /\ "rejected" \in LocalStates /\ "viewer_unavailable" \in Codes
      BY <2>1, OutcomeNames
    <3> HIDE DEF r
    <3> QED
      BY <3>1, OutcomeFields
  <2> HIDE DEF s
  <2>3. Sound(id, s)
    BY <1>0, <2>1, <2>2 DEF Sound, Truthful, Proper
  <2> QED
    BY <1>0, <2>1, <2>2, <2>3, StatesDiffer, DurableOutcome, SettlingFinishing
<1>4. CASE ExecuteBegin
  <2>1. /\ id \in Ids /\ UNCHANGED durable /\ Unexecuted(id)
        /\ journal[id] = r /\ r.state = "running"
        /\ executions'[id] = 1 \/ id \in pruned
        /\ \A i \in Ids \ {id} : executions'[i] = executions[i]
    BY <1>0, <1>4 DEF ExecuteBegin, PlaceInv, EngineTypeOK, Unexecuted, ExecutionCap
  <2>2. engine'.pc = "running" /\ engine'.id = id
    BY <1>4, <1>0 DEF ExecuteBegin, EngineTypeOK, Engines, IdleEngine
  <2>3. ASSUME NEW i \in Ids
        PROVE  Sound(i, journal[i])' /\ Final(i)
    BY <1>0, <2>1, StatesDiffer
    DEF Sound, Truthful, Proper, Unexecuted, Final, durable, Terminal
  <2> QED
    BY <2>1, <2>2, <2>3 DEF KeepsOutcomes, JournalSound, SettlingInv, durable
<1>5. CASE ExecuteEnd
  <2> DEFINE none == ""
             s == Outcome(r, "succeeded", none)
  <2>0. none \in Codes
    BY NoErrorIsCode
  <2>1. /\ id \in Ids /\ r \in Records /\ UNCHANGED durable /\ UNCHANGED executions
        /\ journal[id] = r /\ r.state = "running" /\ (executions[id] = 1 \/ id \in pruned)
        /\ \/ engine' = IdleEngine
           \/ r.type # "restart_service" /\ engine' = At("finishing", id, s)
    BY <1>0, <1>5 DEF ExecuteEnd, PlaceInv, SettlingInv
  <2>2. s \in Records /\ s.state = "succeeded" /\ s.type = r.type /\ s.accepted = r.accepted
        /\ s.target = r.target
    <3>1. r \in Records /\ "succeeded" \in LocalStates /\ none \in Codes
      BY <2>0, <2>1, OutcomeNames
    <3> HIDE DEF r, none
    <3> QED
      BY <3>1, OutcomeFields
  <2> HIDE DEF s
  <2>3. r.type # "restart_service" => Sound(id, s)
    BY <1>0, <2>1, <2>2, StatesDiffer DEF Sound, Truthful, Proper
  <2> QED
    BY <1>0, <2>1, <2>2, <2>3, StatesDiffer, DurableOutcome, SettlingFinishing, SettlingIdle
<1>6. CASE ExecuteFails
  <2> DEFINE s == Outcome(r, "failed", "execution_failed")
  <2>1. /\ id \in Ids /\ r \in Records /\ UNCHANGED durable /\ UNCHANGED executions
        /\ journal[id] = r /\ r.state = "running"
        /\ engine' = At("finishing", id, s)
    BY <1>0, <1>6 DEF ExecuteFails, PlaceInv
  <2>2. s \in Records /\ s.state = "failed" /\ s.type = r.type /\ s.accepted = r.accepted
        /\ s.target = r.target
    <3>1. r \in Records /\ "failed" \in LocalStates /\ "execution_failed" \in Codes
      BY <2>1, OutcomeNames
    <3> HIDE DEF r
    <3> QED
      BY <3>1, OutcomeFields
  <2> HIDE DEF s
  <2>3. Sound(id, s)
    BY <1>0, <2>1, <2>2 DEF Sound, Truthful, Proper
  <2> QED
    BY <1>0, <2>1, <2>2, <2>3, StatesDiffer, DurableOutcome, SettlingFinishing
<1>7. CASE Finish
  <2> DEFINE s == Settled(r)
  <2>1. /\ id \in Ids /\ r \in Records /\ UNCHANGED executions
        /\ Sound(id, r) /\ journal[id].state \notin Terminal
        /\ \/ SavePruned([journal EXCEPT ![id] = s]) /\ engine' = At("reporting", id, s)
           \/ UNCHANGED durable /\ engine' = IdleEngine
    BY <1>0, <1>7 DEF Finish, SettlingInv, StorageFails
  <2>2. s \in Records /\ Sound(id, s)
    BY <1>0, <2>1, SettledSound
  <2> HIDE DEF s
  <2>3. ASSUME SavePruned([journal EXCEPT ![id] = s]), engine' = At("reporting", id, s)
        PROVE  KeepsOutcomes /\ SettlingInv'
    <3>1. KeepsOutcomes /\ (journal'[id] = s \/ id \in pruned')
      BY <1>0, <2>1, <2>2, <2>3, SavePrunedOutcome
    <3>2. boot' = boot /\ pruned \subseteq pruned'
      BY <2>3 DEF SavePruned
    <3> QED
      BY <2>1, <2>2, <2>3, <3>1, <3>2, SettlingReporting
  <2> QED
    BY <1>0, <2>1, <2>3, DurableOutcome, SettlingIdle
<1>8. CASE Confirm
  <2> DEFINE s == [r EXCEPT !.reported = TRUE]
  <2>1. /\ id \in Ids /\ r \in Records /\ UNCHANGED executions /\ engine' = IdleEngine
        /\ Sound(id, r) /\ (journal[id] = r \/ id \in pruned)
        /\ \/ journal' = [Remembered EXCEPT ![id] = s] /\ UNCHANGED <<boot, pruned>>
           \/ UNCHANGED durable
    BY <1>0, <1>8 DEF Confirm, SettlingInv, StorageFails, SaveJournal
  <2>2. /\ s \in Records /\ s.state = r.state /\ s.type = r.type /\ s.accepted = r.accepted
        /\ s.target = r.target /\ ResultOf(s) = ResultOf(r)
    BY <2>1 DEF Records, ResultOf
  <2> HIDE DEF s
  <2>3. Sound(id, s)
    BY <2>1, <2>2 DEF Sound, Truthful, Proper
  <2>4. journal' = [Remembered EXCEPT ![id] = s] /\ UNCHANGED <<boot, pruned>> => KeepsOutcomes
    BY <1>0, <2>1, <2>2, <2>3, SaveRememberedOutcome
  <2> QED
    BY <1>0, <2>1, <2>4, DurableOutcome, SettlingIdle
<1>9. ASSUME NEW i \in Ids, ReconcileStale(i)
      PROVE  KeepsOutcomes /\ SettlingInv'
  <2> DEFINE s == Reconciled(journal[i])
  <2>1. /\ UNCHANGED executions /\ journal[i].state \notin Terminal /\ engine.pc = "idle"
        /\ \/ /\ journal' = [Remembered EXCEPT ![i] = s] /\ UNCHANGED <<boot, pruned>>
              /\ engine' = At("reporting", i, s)
           \/ UNCHANGED durable /\ UNCHANGED engine
    BY <1>9, StatesDiffer DEF ReconcileStale, Visits, Stale, StorageFails, Terminal
  <2>2. s \in Records /\ Sound(i, s)
    BY <1>0, <2>1, ReconciledSound, ReconciledType DEF EngineTypeOK
  <2> HIDE DEF s
  <2>3. ASSUME journal' = [Remembered EXCEPT ![i] = s], UNCHANGED <<boot, pruned>>,
               engine' = At("reporting", i, s)
        PROVE  KeepsOutcomes /\ SettlingInv'
    <3>1. KeepsOutcomes /\ journal'[i] = s
      BY <1>0, <2>1, <2>2, <2>3, SaveRememberedOutcome
    <3> QED
      BY <2>1, <2>2, <2>3, <3>1, SettlingReporting
  <2>4. UNCHANGED engine => SettlingInv'
    BY <2>1 DEF SettlingInv
  <2> QED
    BY <1>0, <2>1, <2>3, <2>4, DurableOutcome
<1>10. ASSUME NEW i \in Ids, ReconcileOther(i)
       PROVE  KeepsOutcomes /\ SettlingInv'
  <2>1. /\ UNCHANGED durable /\ UNCHANGED executions /\ engine.pc = "idle"
        /\ UNCHANGED engine \/ engine' = IdleEngine \/ engine' = At("reporting", i, journal[i])
    BY <1>10 DEF ReconcileOther, Visits, ReportTerminal
  <2>2. UNCHANGED engine => SettlingInv'
    BY <2>1 DEF SettlingInv
  <2>3. ASSUME engine' = At("reporting", i, journal[i])
        PROVE  SettlingInv'
    BY <1>0, <2>1, <2>3, SettlingReporting DEF durable
  <2> QED
    BY <1>0, <2>1, <2>2, <2>3, DurableOutcome, SettlingIdle
<1> QED
  BY <1>1, <1>2, <1>3, <1>4, <1>5, <1>6, <1>7, <1>8, <1>9, <1>10 DEF EngineStep

LEMMA OutcomeInit == EngineInit => OutcomeInv
<1> SUFFICES ASSUME EngineInit PROVE OutcomeInv
  OBVIOUS
<1>1. JournalSound
  BY DEF EngineInit, JournalSound, Sound, Truthful, Proper, NoRecord
<1>2. SettlingInv
  BY DEF EngineInit, SettlingInv, IdleEngine
<1> QED
  BY <1>1, <1>2, IInvInit DEF OutcomeInv

LEMMA OutcomeStep ==
    ASSUME OutcomeInv, [EngineNext]_engineVars
    PROVE  OutcomeInv' /\ KeepsOutcomes
<1> SUFFICES KeepsOutcomes /\ SettlingInv'
  BY IInvStep DEF OutcomeInv, KeepsOutcomes
<1>0. EngineTypeOK /\ JournalSound /\ SettlingInv
  BY DEF OutcomeInv, IInv
<1>1. CASE EngineStep
  BY <1>1, EngineStepOutcome
<1>2. ASSUME NEW ok \in BOOLEAN, Report(ok)
      PROVE  KeepsOutcomes /\ SettlingInv'
  <2>1. /\ engine.id \in Ids /\ engine \in [pc : EnginePcs, id : Ids, record : Records]
        /\ engine.pc \in {"acknowledging", "announcing", "reporting", "answering"}
        /\ UNCHANGED durable /\ UNCHANGED executions
    BY <1>0, <1>2 DEF Report, EngineTypeOK, Engines, IdleEngine
  <2>2. \/ engine' = IdleEngine
        \/ engine' = [engine EXCEPT !.pc = "starting"]
        \/ engine' = [engine EXCEPT !.pc = "executing"]
        \/ engine.pc = "reporting" /\ engine' = [engine EXCEPT !.pc = "confirming"]
    BY <1>2, <2>1 DEF Report
  <2>3. ASSUME NEW pc \in {"starting", "executing"}, engine' = [engine EXCEPT !.pc = pc]
        PROVE  SettlingInv'
    <3>1. engine'.pc = pc
      BY <2>1, <2>3
    <3> QED
      BY <3>1 DEF SettlingInv
  <2>4. ASSUME engine.pc = "reporting", engine' = [engine EXCEPT !.pc = "confirming"]
        PROVE  SettlingInv'
    <3>1. engine'.pc = "confirming" /\ engine'.id = engine.id /\ engine'.record = engine.record
      BY <2>1, <2>4
    <3> QED
      BY <1>0, <2>1, <2>4, <3>1 DEF SettlingInv, Sound, Truthful, Proper, Unexecuted, durable
  <2> QED
    BY <1>0, <2>1, <2>2, <2>3, <2>4, DurableOutcome, SettlingIdle
<1>3. CASE Start
  <2>1. /\ UNCHANGED <<engine, executions>> /\ pruned \subseteq pruned'
        /\ boot \in Nat /\ boot' = boot + 1
        /\ \A id \in Ids : \/ journal'[id] = journal[id]
                           \/ journal'[id] = NoRecord /\ id \in pruned'
                              /\ journal[id].state \in Terminal
    BY <1>3, <1>0, PrunedIsTerminal DEF Start, EngineTypeOK
  <2>2. ASSUME NEW id \in Ids
        PROVE  Sound(id, journal[id])' /\ Final(id)
    <3>1. CASE journal'[id] = journal[id]
      <4>1. journal[id] \in Records /\ Sound(id, journal[id])
        BY <1>0 DEF JournalSound, EngineTypeOK
      <4> QED
        BY <2>1, <3>1, <4>1 DEF Final, Sound, Truthful, Proper, Unexecuted, Records
    <3>2. CASE journal'[id] = NoRecord /\ id \in pruned'
      BY <3>2, NoRecordFields DEF Final, Sound, Truthful, Proper
    <3> QED
      BY <2>1, <3>1, <3>2
  <2>3. SettlingInv'
    <3>1. engine.pc \in {"running", "finishing", "reporting", "confirming"} =>
            engine.id \in Ids /\ engine.record \in Records
      BY <1>0 DEF EngineTypeOK, Engines, IdleEngine
    <3>2. NoRecord.state \notin Terminal
      BY DEF NoRecord, Terminal
    <3> QED
      BY <1>0, <2>1, <3>1, <3>2
      DEF SettlingInv, Sound, Truthful, Proper, Unexecuted, Records
  <2> QED
    BY <2>1, <2>2, <2>3 DEF KeepsOutcomes, JournalSound
<1>4. CASE Stop
  BY <1>0, <1>4, DurableOutcome, SettlingIdle DEF Stop
<1>5. ASSUME UNCHANGED <<durable, engine, executions>>
      PROVE  KeepsOutcomes /\ SettlingInv'
  <2>1. SettlingInv'
    BY <1>0, <1>5 DEF SettlingInv, Sound, Truthful, Proper, Unexecuted, durable
  <2> QED
    BY <1>0, <1>5, <2>1, DurableOutcome
<1>6. CASE \/ ReconcileBegin \/ ReconcileEnd
           \/ \E command \in Commands : DeliverViewerCommand(command)
           \/ \E id \in Ids : ViewerLapse(id)
           \/ UNCHANGED engineVars
  BY <1>5, <1>6
  DEF ReconcileBegin, ReconcileEnd, DeliverViewerCommand, ViewerLapse, engineVars, durable
<1> QED
  BY <1>1, <1>2, <1>3, <1>4, <1>6 DEF EngineNext

LEMMA OutcomeInvariant == EngineSpec => []OutcomeInv
BY OutcomeInit, OutcomeStep, PTL DEF EngineSpec

\* A recorded success was earned: the command's effect was begun once, or a boot
\* later than the one that accepted a restart_service proves it; a recorded
\* refusal or expiry had no effect.  (A record the journal bound dropped once
\* says nothing about what a second delivery does.)
THEOREM OutcomesAreTruthful == EngineSpec => []OutcomeIsTruthful
<1>1. OutcomeInv => OutcomeIsTruthful
  BY DEF OutcomeInv, JournalSound, Sound, Truthful, Unexecuted, OutcomeIsTruthful,
         RestartProvenByBoot
<1> QED
  BY <1>1, OutcomeInvariant, PTL

\* No crash, redelivery, changed payload, confirmation or sweep turns a settled
\* outcome into another.
THEOREM OutcomesAreKept == EngineSpec => SettledIsFinal
<1>1. OutcomeInv /\ [EngineNext]_engineVars =>
        [\A id \in Ids : journal[id].state \in Terminal =>
            ResultOf(journal'[id]) = ResultOf(journal[id]) \/ id \in pruned']_journal
  BY OutcomeStep DEF KeepsOutcomes, Final
<1> QED
  BY <1>1, OutcomeInvariant, PTL DEF EngineSpec, SettledIsFinal
===============================================================================
