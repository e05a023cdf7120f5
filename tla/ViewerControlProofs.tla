-------------------------- MODULE ViewerControlProofs --------------------------
(*****************************************************************************)
(* Proofs about the remote-control path end to end, for every number of      *)
(* commands, frames, late reports and boots, with and without the poll       *)
(* fallback, failing storage and clocks that disagree.                       *)
(*                                                                           *)
(* Every step of the whole is a step of the command engine or leaves it      *)
(* alone, so what is proved of the engine holds here.  What is added is the  *)
(* other end: which rows may have copies on their way, and why a report says *)
(* what the journal says.                                                    *)
(*****************************************************************************)
EXTENDS ViewerControl, ViewerCommandEngineProofs, FiniteSetTheorems

Known(id, type) == [id |-> id, type |-> type]

\* A set of commands the engine may have been handed: of each id at most one.
WellFormed(S) ==
    /\ S \subseteq Commands
    /\ \A c \in S : c.type \in SupportedTypes
    /\ \A c, d \in S : c.id = d.id => c = d

\* What j holds is about commands in S.
About(j, S) == \A id \in Ids : j[id].state # "absent" => Known(id, j[id].type) \in S
Has(S, id) == \E c \in S : c.id = id

\* The engine holds, keeps, executes and reports nothing but commands in S, and
\* an answer without a record is a failure.
ActsOn(S) ==
    /\ queue \in Seq(S)
    /\ About(journal, S)
    /\ \A id \in Ids : executions[id] > 0 \/ id \in pruned => Has(S, id)
    /\ engine.pc \notin {"idle", "answering"} => Known(engine.id, engine.record.type) \in S
    /\ engine.pc = "answering" =>
          Has(S, engine.id) /\ engine.record.state \in {"failed", "acknowledged", "running"}

\* The same in the next state, for the same S.
ActsOnNext(S) ==
    /\ queue' \in Seq(S)
    /\ About(journal', S)
    /\ \A id \in Ids : executions'[id] > 0 \/ id \in pruned' => Has(S, id)
    /\ engine'.pc \notin {"idle", "answering"} => Known(engine'.id, engine'.record.type) \in S
    /\ engine'.pc = "answering" =>
          Has(S, engine'.id) /\ engine'.record.state \in {"failed", "acknowledged", "running"}

LEMMA SeqWider ==
    ASSUME NEW S, NEW T, S \subseteq T, NEW q \in Seq(S)
    PROVE  q \in Seq(T)
OBVIOUS

LEMMA SavePrunedAbout ==
    ASSUME NEW S, NEW j, SavePruned(j), About(j, S),
           \A id \in Ids : id \in pruned => Has(S, id)
    PROVE  /\ About(journal', S)
           /\ \A id \in Ids : id \in pruned' => Has(S, id)
<1>1. \A id \in Ids : journal'[id] = NoRecord \/ journal'[id] = j[id]
  BY DEF SavePruned
<1>2. \A id \in PrunedBy(j) : id \in Ids /\ j[id].state # "absent"
  BY DEF PrunedBy, Terminal
<1>3. \A id \in Ids : Known(id, j[id].type) \in S => Has(S, id)
  BY DEF Known, Has
<1> QED
  BY <1>1, <1>2, <1>3, NoRecordFields DEF SavePruned, About

LEMMA AboutExcept ==
    ASSUME NEW S, NEW j \in [Ids -> Records], About(j, S),
           NEW id \in Ids, NEW r, Known(id, r.type) \in S
    PROVE  About([j EXCEPT ![id] = r], S)
BY DEF About

LEMMA RememberedAbout ==
    ASSUME NEW S, journal \in [Ids -> Records], About(journal, S)
    PROVE  About(Remembered, S)
<1>1. \A id \in Ids : Remembered[id] \in {journal[id], [journal[id] EXCEPT !.reported = TRUE]}
  BY DEF Remembered
<1>2. \A id \in Ids : /\ Remembered[id].state = journal[id].state
                      /\ Remembered[id].type = journal[id].type
  BY <1>1 DEF Records
<1> QED
  BY <1>2 DEF About

\* The journal and the history of effects are left alone.
LEMMA StillAbout ==
    ASSUME NEW S, ActsOn(S), UNCHANGED durable, UNCHANGED executions
    PROVE  /\ About(journal', S)
           /\ \A id \in Ids : executions'[id] > 0 \/ id \in pruned' => Has(S, id)
BY DEF ActsOn, About, durable

LEMMA UnavailableState ==
    ASSUME NEW k
    PROVE  JournalUnavailable(k).state = "failed"
BY DEF JournalUnavailable, Unrecorded, Outcome, NoRecord

LEMMA ReconciledTypeKept ==
    ASSUME NEW r \in Records
    PROVE  Reconciled(r).type = r.type
<1>1. ASSUME NEW s \in Records
      PROVE  Settled(s).type = s.type
  BY DEF Settled, Records
<1>2. /\ Outcome(r, "succeeded", "") \in Records
      /\ Outcome(r, "succeeded", "").type = r.type
      /\ Outcome(r, "failed", "command_interrupted") \in Records
      /\ Outcome(r, "failed", "command_interrupted").type = r.type
  BY DEF Outcome, Records, LocalStates, ResultStates, Terminal, Codes
<1> QED
  BY <1>1, <1>2 DEF Reconciled

LEMMA HandleActsOn ==
    ASSUME EngineTypeOK, NEW S, WellFormed(S), ActsOn(S), NEW command \in Commands, Handle(command)
    PROVE  ActsOnNext(S)
<1> DEFINE id == command.id
<1>0. /\ command \in S /\ queue' \in Seq(S) /\ UNCHANGED executions
      /\ id \in Ids /\ command = Known(id, command.type) /\ Has(S, id)
      /\ command.type \in SupportedTypes
  <2>1. queue # <<>> /\ command = Head(queue) /\ queue' = Tail(queue) /\ UNCHANGED executions
    BY DEF Handle, HandleUnsupported, HandleUnreadable, HandleChanged, HandleTerminal,
           HandleRestarted, HandleInProgress, HandleExpired, HandleAccept, TakesDuplicate,
           TakesKnown, TakesNew, Takes
  <2>2. command \in S /\ queue' \in Seq(S)
    BY <2>1 DEF ActsOn
  <2> QED
    BY <2>1, <2>2 DEF WellFormed, Commands, Known, Has
<1> HIDE DEF id
<1>1. HasRecord(id) => journal[id].type = command.type /\ Known(id, journal[id].type) \in S
  <2>1. HasRecord(id) => Known(id, journal[id].type) \in S
    BY <1>0 DEF ActsOn, About, HasRecord
  <2> QED
    BY <1>0, <2>1 DEF WellFormed, Known
<1>2. ASSUME UNCHANGED durable, NEW r, engine' = At("answering", id, r),
             r.state \in {"failed", "acknowledged", "running"}
      PROVE  ActsOnNext(S)
  BY <1>0, <1>2, StillAbout DEF ActsOnNext, At
<1>3. ASSUME UNCHANGED durable, NEW r, r.type = command.type,
             \/ engine' = IdleEngine
             \/ \E pc \in EnginePcs \ {"answering"} : engine' = At(pc, id, r)
      PROVE  ActsOnNext(S)
  BY <1>0, <1>3, StillAbout DEF ActsOnNext, At, IdleEngine
<1>4. ASSUME NEW r, r.type = command.type, SavePruned([journal EXCEPT ![id] = r]),
             \E pc \in EnginePcs \ {"answering"} : engine' = At(pc, id, r)
      PROVE  ActsOnNext(S)
  <2>1. About([journal EXCEPT ![id] = r], S)
    BY <1>0, <1>4, AboutExcept DEF ActsOn, EngineTypeOK
  <2>2. About(journal', S) /\ \A i \in Ids : i \in pruned' => Has(S, i)
    BY <1>4, <2>1, SavePrunedAbout DEF ActsOn
  <2> QED
    BY <1>0, <1>4, <2>2 DEF ActsOn, ActsOnNext, At
<1>5. journal[id] \in Records
  BY <1>0 DEF EngineTypeOK
<1>6. CASE HandleUnsupported(command) \/ HandleChanged(command)
  BY <1>0, <1>1, <1>6
  DEF HandleUnsupported, HandleChanged, TakesKnown, id
<1>7. CASE HandleUnreadable(command)
  <2>1. JournalUnavailable(NoKey).state = "failed"
    BY UnavailableState
  <2> QED
    BY <1>2, <1>7, <2>1 DEF HandleUnreadable, StorageFails, id
<1>8. CASE HandleTerminal(command)
  <2>1. /\ UNCHANGED durable /\ HasRecord(id)
        /\ engine' = IdleEngine \/ engine' = At("reporting", id, journal[id])
    BY <1>8 DEF HandleTerminal, TakesDuplicate, TakesKnown, ReportTerminal, id
  <2> QED
    BY <1>1, <1>3, <2>1 DEF EnginePcs
<1>9. CASE HandleRestarted(command)
  <2> DEFINE none == ""
             r == Outcome(journal[id], "succeeded", none)
  <2>1. UNCHANGED durable /\ HasRecord(id) /\ engine' = At("finishing", id, r)
    BY <1>9 DEF HandleRestarted, TakesDuplicate, TakesKnown, id
  <2>2. r.type = journal[id].type
    <3> DEFINE j == journal[id]
    <3>1. none \in Codes
      BY NoErrorIsCode
    <3>2. j \in Records /\ "succeeded" \in LocalStates
      BY <1>5, OutcomeNames
    <3>3. r = Outcome(j, "succeeded", none)
      OBVIOUS
    <3> HIDE DEF none, j, r
    <3>4. r.type = j.type
      BY <3>1, <3>2, <3>3, OutcomeFields
    <3> QED
      BY <3>4 DEF j
  <2> HIDE DEF r
  <2> QED
    BY <1>1, <1>3, <2>1, <2>2 DEF EnginePcs
<1>10. CASE HandleInProgress(command)
  <2> DEFINE r == Outcome(journal[id], "failed", "command_interrupted")
  <2>1. /\ UNCHANGED durable /\ HasRecord(id) /\ journal[id].state \notin Terminal
        /\ \/ engine' = At("answering", id, journal[id])
           \/ engine' = At("finishing", id, r)
    BY <1>10 DEF HandleInProgress, TakesDuplicate, TakesKnown, id
  <2>2. r.type = journal[id].type
    <3> DEFINE j == journal[id]
    <3>1. j \in Records /\ "failed" \in LocalStates /\ "command_interrupted" \in Codes
      BY <1>5, OutcomeNames
    <3>2. r = Outcome(j, "failed", "command_interrupted")
      OBVIOUS
    <3> HIDE DEF j, r
    <3>3. r.type = j.type
      BY <3>1, <3>2, OutcomeFields
    <3> QED
      BY <3>3 DEF j
  <2>3. journal[id].state \in {"failed", "acknowledged", "running"}
    BY <1>5, <2>1 DEF Records, LocalStates, ResultStates, HasRecord
  <2> HIDE DEF r
  <2> QED
    BY <1>1, <1>2, <1>3, <2>1, <2>2, <2>3 DEF EnginePcs
<1>11. CASE HandleExpired(command)
  <2> DEFINE r == ExpiredRecord(command)
  <2>1. \/ SavePruned([journal EXCEPT ![id] = r]) /\ engine' = At("reporting", id, r)
        \/ UNCHANGED durable /\ engine' = IdleEngine
    BY <1>11 DEF HandleExpired, StorageFails, id
  <2>2. r.type = command.type
    BY DEF ExpiredRecord, NoRecord
  <2> HIDE DEF r
  <2> QED
    BY <1>3, <1>4, <2>1, <2>2 DEF EnginePcs
<1>12. CASE HandleAccept(command)
  <2> DEFINE r == AcceptedRecord(command)
  <2>1. \/ SavePruned([journal EXCEPT ![id] = r]) /\ engine' = At("acknowledging", id, r)
        \/ UNCHANGED durable /\ engine' = At("answering", id, JournalUnavailable(NoKey))
    BY <1>12 DEF HandleAccept, StorageFails, id
  <2>2. r.type = command.type
    BY DEF AcceptedRecord, NoRecord
  <2>3. JournalUnavailable(NoKey).state = "failed"
    BY UnavailableState
  <2> HIDE DEF r
  <2> QED
    BY <1>2, <1>4, <2>1, <2>2, <2>3 DEF EnginePcs
<1> QED
  BY <1>6, <1>7, <1>8, <1>9, <1>10, <1>11, <1>12 DEF Handle

LEMMA EngineStepActsOn ==
    ASSUME OutcomeInv, NEW S, WellFormed(S), ActsOn(S), EngineStep
    PROVE  ActsOnNext(S)
<1> DEFINE id == engine.id
           r  == engine.record
<1>0. /\ EngineTypeOK /\ PlaceInv
      /\ engine.pc # "idle" => r \in Records /\ id \in Ids
      /\ engine.pc \notin {"idle", "answering"} => Known(id, r.type) \in S /\ Has(S, id)
      /\ \A i \in Ids : journal[i] \in Records
  BY DEF OutcomeInv, IInv, EngineTypeOK, Engines, IdleEngine, ActsOn, Known, Has
\* The three ways in which such a step ends.
<1>1. ASSUME UNCHANGED <<durable, executions, queue>>,
             NEW k \in Ids, NEW s,
             \/ engine' = IdleEngine
             \/ Known(k, s.type) \in S /\ \E pc \in EnginePcs \ {"answering"} : engine' = At(pc, k, s)
             \/ Has(S, k) /\ s.state = "failed" /\ engine' = At("answering", k, s)
      PROVE  ActsOnNext(S)
  BY <1>1, StillAbout DEF ActsOn, ActsOnNext, At, IdleEngine
<1>2. ASSUME UNCHANGED <<pruned, executions, queue>>,
             NEW k \in Ids, NEW s, Known(k, s.type) \in S,
             \/ journal' = [journal EXCEPT ![k] = s]
             \/ journal' = [Remembered EXCEPT ![k] = s],
             engine' = IdleEngine \/ \E pc \in EnginePcs \ {"answering"} : engine' = At(pc, k, s)
      PROVE  ActsOnNext(S)
  <2>0. /\ journal \in [Ids -> Records] /\ About(journal, S)
        /\ Remembered \in [Ids -> Records] /\ About(Remembered, S)
    BY <1>0, RememberedAbout, RememberedType DEF ActsOn, EngineTypeOK
  <2>1. About(journal', S)
    <3>1. About([journal EXCEPT ![k] = s], S)
      BY <1>2, <2>0, AboutExcept
    <3>2. About([Remembered EXCEPT ![k] = s], S)
      BY <1>2, <2>0, AboutExcept
    <3> QED
      BY <1>2, <3>1, <3>2
  <2> QED
    BY <1>2, <2>1 DEF ActsOn, ActsOnNext, At, IdleEngine
<1>3. ASSUME NEW command \in Commands, Handle(command)
      PROVE  ActsOnNext(S)
  BY <1>0, <1>3, HandleActsOn
<1>4. CASE SaveRunning
  <2> DEFINE s == [r EXCEPT !.state = "running"]
             u == JournalUnavailable(s.key)
  <2>1. /\ UNCHANGED <<pruned, executions, queue>> /\ id \in Ids /\ r \in Records
        /\ Known(id, r.type) \in S /\ Has(S, id)
        /\ \/ journal' = [journal EXCEPT ![id] = s] /\ engine' = At("announcing", id, s)
           \/ UNCHANGED durable /\ engine' = At("answering", id, u)
    BY <1>0, <1>4 DEF SaveRunning, SaveJournal, StorageFails, Held, durable
  <2>2. s.type = r.type /\ u.state = "failed"
    BY <2>1, UnavailableState DEF Records
  <2> HIDE DEF s, u
  <2> QED
    BY <1>1, <1>2, <2>1, <2>2 DEF EnginePcs
<1>5. CASE ExecuteRefused \/ ExecuteEnd \/ ExecuteFails
  <2>1. /\ UNCHANGED <<durable, executions, queue>> /\ id \in Ids /\ r \in Records
        /\ Known(id, r.type) \in S
        /\ \/ engine' = IdleEngine
           \/ engine' = At("finishing", id, Outcome(r, "rejected", "viewer_unavailable"))
           \/ engine' = At("finishing", id, Outcome(r, "succeeded", ""))
           \/ engine' = At("finishing", id, Outcome(r, "failed", "execution_failed"))
    BY <1>0, <1>5 DEF ExecuteRefused, ExecuteEnd, ExecuteFails, Held
  <2>2. /\ Outcome(r, "rejected", "viewer_unavailable").type = r.type
        /\ Outcome(r, "succeeded", "").type = r.type
        /\ Outcome(r, "failed", "execution_failed").type = r.type
    BY <2>1 DEF Outcome, Records
  <2> QED
    BY <1>1, <2>1, <2>2 DEF EnginePcs
<1>6. CASE ExecuteBegin
  <2>1. /\ UNCHANGED <<durable, queue>> /\ id \in Ids /\ Known(id, r.type) \in S /\ Has(S, id)
        /\ engine'.pc = "running" /\ engine'.id = id /\ engine'.record = r
        /\ \A i \in Ids \ {id} : executions'[i] = executions[i]
    BY <1>0, <1>6 DEF ExecuteBegin, Held, EngineTypeOK, Engines, IdleEngine
  <2> QED
    BY <2>1 DEF ActsOn, ActsOnNext, durable
<1>7. CASE Finish
  <2> DEFINE s == Settled(r)
  <2>1. /\ UNCHANGED <<executions, queue>> /\ id \in Ids /\ r \in Records
        /\ Known(id, r.type) \in S
        /\ \/ SavePruned([journal EXCEPT ![id] = s]) /\ engine' = At("reporting", id, s)
           \/ UNCHANGED durable /\ engine' = IdleEngine
    BY <1>0, <1>7 DEF Finish, StorageFails, Held
  <2>2. s.type = r.type
    BY <2>1 DEF Settled, Records
  <2> HIDE DEF s
  <2>3. ASSUME SavePruned([journal EXCEPT ![id] = s]), engine' = At("reporting", id, s)
        PROVE  ActsOnNext(S)
    <3>1. About([journal EXCEPT ![id] = s], S)
      BY <1>0, <2>1, <2>2, AboutExcept DEF ActsOn, EngineTypeOK
    <3>2. About(journal', S) /\ \A i \in Ids : i \in pruned' => Has(S, i)
      BY <2>3, <3>1, SavePrunedAbout DEF ActsOn
    <3> QED
      BY <2>1, <2>2, <2>3, <3>2 DEF ActsOn, ActsOnNext, At
  <2> QED
    BY <1>1, <2>1, <2>3
<1>8. CASE Confirm
  <2> DEFINE s == [r EXCEPT !.reported = TRUE]
  <2>1. /\ UNCHANGED <<pruned, executions, queue>> /\ id \in Ids /\ r \in Records
        /\ Known(id, r.type) \in S /\ engine' = IdleEngine
        /\ \/ journal' = [Remembered EXCEPT ![id] = s]
           \/ UNCHANGED durable
    BY <1>0, <1>8 DEF Confirm, SaveJournal, StorageFails, durable
  <2>2. s.type = r.type
    BY <2>1 DEF Records
  <2> HIDE DEF s
  <2> QED
    BY <1>1, <1>2, <2>1, <2>2
<1>9. ASSUME NEW i \in Ids, ReconcileStale(i)
      PROVE  ActsOnNext(S)
  <2> DEFINE s == Reconciled(journal[i])
  <2>1. /\ UNCHANGED <<executions, pruned, queue>> /\ Stale(journal[i]) /\ engine.pc = "idle"
        /\ \/ /\ journal' = [Remembered EXCEPT ![i] = s] /\ engine' = At("reporting", i, s)
           \/ UNCHANGED <<durable, engine>>
    BY <1>9 DEF ReconcileStale, Visits, StorageFails, durable
  <2>2. s.type = journal[i].type /\ Known(i, journal[i].type) \in S
    <3>1. Known(i, journal[i].type) \in S
      BY <2>1 DEF ActsOn, About, Stale
    <3> QED
      BY <1>0, <3>1, ReconciledTypeKept
  <2> HIDE DEF s
  <2>3. UNCHANGED <<durable, engine>> => ActsOnNext(S)
    BY <2>1, StillAbout DEF ActsOn, ActsOnNext
  <2> QED
    BY <1>2, <2>1, <2>2, <2>3 DEF EnginePcs
<1>10. ASSUME NEW i \in Ids, ReconcileOther(i)
       PROVE  ActsOnNext(S)
  <2>1. /\ UNCHANGED <<durable, executions, queue>> /\ engine.pc = "idle"
        /\ \/ UNCHANGED engine
           \/ engine' = IdleEngine
           \/ journal[i].state \in Terminal /\ engine' = At("reporting", i, journal[i])
    BY <1>10 DEF ReconcileOther, Visits, ReportTerminal
  <2>2. journal[i].state \in Terminal => Known(i, journal[i].type) \in S
    BY DEF ActsOn, About, Terminal
  <2>3. UNCHANGED engine => ActsOnNext(S)
    BY <2>1, StillAbout DEF ActsOn, ActsOnNext
  <2> QED
    BY <1>1, <2>1, <2>2, <2>3 DEF EnginePcs
<1> QED
  BY <1>3, <1>4, <1>5, <1>6, <1>7, <1>8, <1>9, <1>10 DEF EngineStep

\* Every step of the engine and its surroundings that delivers nothing.
LEMMA EngineNextActsOn ==
    ASSUME OutcomeInv, NEW S, WellFormed(S), ActsOn(S),
           \/ EngineStep \/ ReconcileBegin \/ ReconcileEnd \/ Start \/ Stop
           \/ \E ok \in BOOLEAN : Report(ok)
           \/ \E id \in Ids : ViewerLapse(id)
           \/ UNCHANGED engineVars
    PROVE  ActsOnNext(S)
<1>0. EngineTypeOK /\ PlaceInv
  BY DEF OutcomeInv, IInv
<1>1. ASSUME NEW ok \in BOOLEAN, Report(ok)
      PROVE  ActsOnNext(S)
  <2>1. /\ engine \in [pc : EnginePcs, id : Ids, record : Records]
        /\ UNCHANGED <<durable, executions, queue>>
    BY <1>0, <1>1 DEF Report, Held, EngineTypeOK, Engines, IdleEngine
  <2>2. \/ engine' = IdleEngine
        \/ /\ engine.pc \notin {"idle", "answering"}
           /\ \E pc \in EnginePcs \ {"answering"} : engine' = [engine EXCEPT !.pc = pc]
    BY <1>1 DEF Report, EnginePcs
  <2>3. \/ engine' = IdleEngine
        \/ /\ engine.pc \notin {"idle", "answering"} /\ engine'.pc \in EnginePcs \ {"answering"}
           /\ engine'.id = engine.id /\ engine'.record = engine.record
    BY <2>1, <2>2
  <2> QED
    BY <2>1, <2>3, StillAbout DEF ActsOn, ActsOnNext, IdleEngine
<1>2. CASE Start
  <2>1. /\ UNCHANGED <<executions, queue, engine>>
        /\ \A id \in Ids : journal'[id] = journal[id] \/ journal'[id] = NoRecord
        /\ pruned' = pruned \cup PrunedBy(journal)
    BY <1>2 DEF Start
  <2>2. \A id \in PrunedBy(journal) : Has(S, id)
    BY DEF PrunedBy, Terminal, ActsOn, About, Known, Has
  <2> QED
    BY <2>1, <2>2, NoRecordFields DEF ActsOn, ActsOnNext, About
<1>3. CASE Stop
  <2>1. UNCHANGED <<durable, executions>> /\ engine' = IdleEngine /\ queue' = <<>>
    BY <1>3 DEF Stop
  <2> QED
    BY <2>1, StillAbout DEF ActsOnNext, IdleEngine
<1>4. CASE \/ ReconcileBegin \/ ReconcileEnd \/ (\E id \in Ids : ViewerLapse(id))
           \/ UNCHANGED engineVars
  <2>1. UNCHANGED <<durable, executions, queue, engine>>
    BY <1>4 DEF ReconcileBegin, ReconcileEnd, ViewerLapse, engineVars, durable
  <2> QED
    BY <2>1, StillAbout DEF ActsOn, ActsOnNext
<1> QED
  BY <1>1, <1>2, <1>3, <1>4, EngineStepActsOn

\* Handing over one more command of S.
LEMMA DeliveryActsOn ==
    ASSUME NEW S, ActsOn(S), NEW command \in S, DeliverViewerCommand(command)
    PROVE  ActsOnNext(S)
<1>1. /\ UNCHANGED <<durable, executions, engine>>
      /\ queue' = Append(queue, command) /\ queue \in Seq(S)
  BY DEF DeliverViewerCommand, ActsOn
<1> QED
  BY <1>1, StillAbout DEF ActsOn, ActsOnNext

LEMMA ActsOnWider ==
    ASSUME NEW S, NEW T, S \subseteq T, ActsOnNext(S)
    PROVE  ActsOnNext(T)
<1>1. queue' \in Seq(T)
  BY SeqWider DEF ActsOnNext
<1> QED
  BY <1>1 DEF ActsOnNext, About, Has

-----------------------------------------------------------------------------
(* The invariant of the whole. *)

\* A row nobody has been handed; once it is handed out it never comes back here.
Untaken == {"absent", "pending", "cancelled", "deleted"}
HandedOut == {id \in Ids : commands[id].state \notin Untaken}
Handed ==
    {c \in Commands : /\ c.id \in HandedOut
                      /\ c.type = commands[c.id].type
                      /\ c.type \in SupportedTypes}

\* Whatever is on its way, held, recorded or executed was handed out.
FlightInv ==
    /\ \A id \in Ids : commands[id].state # "absent" => commands[id].type \in CommandTypes
    /\ sse.frames \in Seq(HandedOut)
    /\ poll \in HandedOut \cup {0}
    /\ \A report \in late : report.id \in HandedOut
    /\ ActsOn(Handed)

\* A success or a rejection the server knows, or is being told, is the journal's.
Backed(id, state) ==
    state \in {"succeeded", "rejected"} => journal[id].state = state \/ id \in pruned
BackedInv ==
    /\ \A id \in Ids : Backed(id, commands[id].state)
    /\ \A report \in late : Backed(report.id, report.result.state)

ControlInv == TypeOK /\ OutcomeInv /\ FlightInv /\ BackedInv

-----------------------------------------------------------------------------
(* The server's queue. *)

\* Every step of the system, as far as the queue goes.
QueueSteps ==
    \/ UNCHANGED queueVars
    \/ \E id \in Ids, type \in CommandTypes : CreateOperatorViewerCommand(id, type)
    \/ "update_app" \in CommandTypes /\ \E id \in Ids : EnsureViewerUpdateCommand(id)
    \/ \E id \in Ids : CancelViewerCommand(id) \/ DeleteViewerCommand(id) \/ Lapse(id)
    \/ (\E id \in Ids : DeliverNextViewerCommand(id)) \/ DeliverNothing
    \/ \E id \in HandedOut, result \in Results :
          Backed(id, result.state) /\ ApplyViewerCommandResult(id, result)

RowsTyped == \A id \in Ids : commands[id].state # "absent" => commands[id].type \in CommandTypes

\* The ways in which a row moves.
RowMoves(old, new) ==
    \/ new = old
    \/ old.state = "absent" /\ new.state = "pending" /\ new.type \in CommandTypes
    \/ /\ new.type = old.type
       /\ \/ old.state \in Open /\ new.state \in {"delivered", "expired"}
          \/ old.state = "pending" /\ new.state = "cancelled"
          \/ old.state \in {"pending", "cancelled"} /\ new.state = "deleted"
          \/ old.state \in PreviousStates(new.state) /\ new.state \in ResultStates

LEMMA RowMovesForward ==
    ASSUME NEW old \in Rows, NEW new \in Rows, RowMoves(old, new)
    PROVE  /\ Rank(new.state) >= Rank(old.state)
           /\ Rank(old.state) >= 5 => new = old \/ new.state = "deleted"
           /\ old.state # "absent" => new.state # "absent" /\ new.type = old.type
<1>1. CASE new = old
  <2>1. Rank(old.state) \in Nat
    BY DEF Rank
  <2> QED
    BY <1>1, <2>1
<1>2. CASE old.state = "absent" /\ new.state = "pending"
  BY <1>2 DEF Rank
<1>3. CASE new.type = old.type /\ old.state \in Open /\ new.state \in {"delivered", "expired"}
  BY <1>3 DEF Rank, Open
<1>4. CASE new.type = old.type /\ old.state = "pending" /\ new.state = "cancelled"
  BY <1>4 DEF Rank
<1>5. CASE new.type = old.type /\ old.state \in {"pending", "cancelled"} /\ new.state = "deleted"
  BY <1>5 DEF Rank
<1>6. CASE /\ new.type = old.type
           /\ old.state \in PreviousStates(new.state) /\ new.state \in ResultStates
  <2>1. \/ new.state = "acknowledged" /\ old.state \in {"pending", "delivered"}
        \/ new.state = "running" /\ old.state \in {"pending", "delivered", "acknowledged"}
        \/ /\ new.state \in Terminal
           /\ old.state \in {"pending", "delivered", "acknowledged", "running"}
    BY <1>6 DEF PreviousStates, ResultStates, Open
  <2> QED
    BY <1>6, <2>1 DEF Rank, Terminal
<1> QED
  BY <1>1, <1>2, <1>3, <1>4, <1>5, <1>6 DEF RowMoves

LEMMA AfterExpiryRows ==
    ASSUME QueueTypeOK
    PROVE  /\ AfterExpiry \in [Ids -> Rows]
           /\ \A id \in Ids : \/ AfterExpiry[id] = commands[id]
                              \/ /\ commands[id].state \in Open
                                 /\ AfterExpiry[id].state = "expired"
                                 /\ AfterExpiry[id].type = commands[id].type
BY DEF QueueTypeOK, AfterExpiry, Rows, RowStates, ResultStates, Terminal

LEMMA QueueStepMoves ==
    ASSUME QueueTypeOK, QueueSteps
    PROVE  /\ QueueTypeOK'
           /\ \A id \in Ids : RowMoves(commands[id], commands'[id])
<1> USE DEF QueueTypeOK
<1>1. CASE UNCHANGED queueVars
  BY <1>1 DEF queueVars, RowMoves
<1>2. ASSUME NEW id \in Ids, NEW type \in CommandTypes, Insert(id, type)
      PROVE  QueueTypeOK' /\ \A i \in Ids : RowMoves(commands[i], commands'[i])
  <2> DEFINE row == [AbsentRow EXCEPT !.type = type, !.state = "pending"]
  <2>1. row \in Rows /\ row.state = "pending" /\ row.type = type
    BY DEF AbsentRow, Rows, RowStates, Codes, Keys, NoKey
  <2>2. commands' = [commands EXCEPT ![id] = row] /\ commands[id].state = "absent"
    BY <1>2 DEF Insert, NextId
  <2> HIDE DEF row
  <2> QED
    BY <1>2, <2>1, <2>2 DEF RowMoves, Insert
<1>3. ASSUME NEW id \in Ids, CancelViewerCommand(id) \/ DeleteViewerCommand(id)
      PROVE  QueueTypeOK' /\ \A i \in Ids : RowMoves(commands[i], commands'[i])
  <2>1. CASE CancelViewerCommand(id)
    <3> DEFINE row == [commands[id] EXCEPT !.state = "cancelled"]
    <3>1. /\ commands' = [commands EXCEPT ![id] = row] /\ serverLapsed' = serverLapsed
          /\ commands[id].state = "pending"
      BY <2>1 DEF CancelViewerCommand
    <3>2. row \in Rows /\ row.state = "cancelled" /\ row.type = commands[id].type
      BY DEF Rows, RowStates
    <3> HIDE DEF row
    <3> QED
      BY <3>1, <3>2 DEF RowMoves
  <2>2. CASE DeleteViewerCommand(id)
    <3> DEFINE row == [commands[id] EXCEPT !.state = "deleted", !.code = ""]
    <3>1. /\ commands' = [commands EXCEPT ![id] = row] /\ serverLapsed' = serverLapsed
          /\ commands[id].state \in {"pending", "cancelled"}
      BY <2>2 DEF DeleteViewerCommand
    <3>2. row \in Rows /\ row.state = "deleted" /\ row.type = commands[id].type
      BY DEF Rows, RowStates, Codes
    <3> HIDE DEF row
    <3> QED
      BY <3>1, <3>2 DEF RowMoves
  <2> QED
    BY <1>3, <2>1, <2>2
<1>4. ASSUME NEW id \in Ids, Lapse(id)
      PROVE  QueueTypeOK' /\ \A i \in Ids : RowMoves(commands[i], commands'[i])
  BY <1>4 DEF Lapse, RowMoves
<1>5. ASSUME NEW id \in Ids, DeliverNextViewerCommand(id)
      PROVE  QueueTypeOK' /\ \A i \in Ids : RowMoves(commands[i], commands'[i])
  <2> DEFINE row == [AfterExpiry[id] EXCEPT !.state = "delivered"]
  <2>1. /\ commands' = [AfterExpiry EXCEPT ![id] = row] /\ serverLapsed' = serverLapsed
        /\ AfterExpiry[id].state \in Open
    BY <1>5 DEF DeliverNextViewerCommand, Deliverable
  <2>2. AfterExpiry[id] = commands[id]
    BY <2>1, AfterExpiryRows DEF Open
  <2>3. row \in Rows /\ row.state = "delivered" /\ row.type = commands[id].type
    BY <2>2 DEF Rows, RowStates
  <2> HIDE DEF row
  <2> QED
    BY <2>1, <2>2, <2>3, AfterExpiryRows DEF RowMoves
<1>6. CASE DeliverNothing
  BY <1>6, AfterExpiryRows DEF DeliverNothing, RowMoves
<1>7. ASSUME NEW id \in Ids, NEW result \in Results, ApplyViewerCommandResult(id, result)
      PROVE  QueueTypeOK' /\ \A i \in Ids : RowMoves(commands[i], commands'[i])
  <2> DEFINE key == IF result.key = NoKey THEN commands[id].key ELSE result.key
             row == [commands[id] EXCEPT !.state = result.state, !.code = result.code, !.key = key]
  <2>1. /\ result.state \in ResultStates /\ result.code \in Codes /\ result.key \in Keys
        /\ commands[id] \in Rows
    BY DEF Results
  <2>2. key \in Keys
    BY <2>1 DEF Rows
  <2>3. /\ \/ commands' = commands
           \/ Applies(id, result) /\ commands' = [commands EXCEPT ![id] = row]
        /\ serverLapsed' = serverLapsed
    BY <1>7, Zenon DEF ApplyViewerCommandResult
  <2> HIDE DEF key
  <2>4. row \in Rows /\ row.state = result.state /\ row.type = commands[id].type
    BY <2>1, <2>2 DEF Rows, RowStates
  <2> HIDE DEF row
  <2> QED
    BY <2>1, <2>3, <2>4 DEF RowMoves, Applies
<1> QED
  BY <1>1, <1>2, <1>3, <1>4, <1>5, <1>6, <1>7
  DEF QueueSteps, CreateOperatorViewerCommand, EnsureViewerUpdateCommand, HandedOut

LEMMA QueueStepForward ==
    ASSUME QueueTypeOK, RowsTyped, QueueSteps
    PROVE  /\ QueueTypeOK' /\ RowsTyped'
           /\ HandedOut \subseteq HandedOut' /\ Handed \subseteq Handed'
           /\ \A id \in Ids :
                /\ Rank(commands'[id].state) >= Rank(commands[id].state)
                /\ Rank(commands[id].state) >= 5 =>
                      commands'[id] = commands[id] \/ commands'[id].state = "deleted"
<1>1. QueueTypeOK' /\ \A id \in Ids : RowMoves(commands[id], commands'[id])
  BY QueueStepMoves
<1>2. \A id \in Ids : commands[id] \in Rows /\ commands'[id] \in Rows
  BY <1>1 DEF QueueTypeOK
<1>3. ASSUME NEW id \in Ids, commands[id].state \notin Untaken
      PROVE  commands'[id].state \notin Untaken
  <2>1. RowMoves(commands[id], commands'[id])
    BY <1>1
  <2> QED
    BY <1>3, <2>1 DEF RowMoves, Untaken, Open, ResultStates, Terminal
<1>4. RowsTyped'
  <2>1. ASSUME NEW id \in Ids, commands'[id].state # "absent"
        PROVE  commands'[id].type \in CommandTypes
    <3>1. RowMoves(commands[id], commands'[id])
      BY <1>1
    <3> QED
      BY <2>1, <3>1 DEF RowMoves, RowsTyped, Open, PreviousStates
  <2> QED
    BY <2>1 DEF RowsTyped
<1>5. HandedOut \subseteq HandedOut' /\ Handed \subseteq Handed'
  BY <1>1, <1>2, <1>3, RowMovesForward DEF HandedOut, Handed, Untaken
<1> QED
  BY <1>1, <1>2, <1>4, <1>5, RowMovesForward

LEMMA QueueStepBacked ==
    ASSUME QueueTypeOK, QueueSteps, \A id \in Ids : Backed(id, commands[id].state),
           NEW id \in Ids
    PROVE  Backed(id, commands'[id].state)
<1> USE DEF QueueTypeOK
<1>1. CASE \E i \in HandedOut, result \in Results :
              Backed(i, result.state) /\ ApplyViewerCommandResult(i, result)
  <2>1. PICK i \in HandedOut, result \in Results :
              Backed(i, result.state) /\ ApplyViewerCommandResult(i, result)
    BY <1>1
  <2>2. commands'[id].state = commands[id].state \/ (id = i /\ commands'[id].state = result.state)
    BY <2>1 DEF ApplyViewerCommandResult, HandedOut, Rows
  <2> QED
    BY <2>1, <2>2
<1>2. CASE \E i \in Ids : DeliverNextViewerCommand(i)
  <2>1. commands'[id].state = commands[id].state \/ commands'[id].state \in {"delivered", "expired"}
    BY <1>2, AfterExpiryRows DEF DeliverNextViewerCommand, Rows
  <2> QED
    BY <2>1 DEF Backed
<1>3. CASE DeliverNothing
  BY <1>3, AfterExpiryRows DEF DeliverNothing, Backed
<1>4. CASE \/ \E i \in Ids : CancelViewerCommand(i) \/ DeleteViewerCommand(i) \/ Lapse(i)
           \/ UNCHANGED queueVars
  <2>1. commands'[id].state = commands[id].state \/ commands'[id].state \in {"cancelled", "deleted"}
    BY <1>4 DEF CancelViewerCommand, DeleteViewerCommand, Lapse, queueVars, Rows
  <2> QED
    BY <2>1 DEF Backed
<1>5. ASSUME NEW i \in Ids, NEW type, Insert(i, type)
      PROVE  Backed(id, commands'[id].state)
  <2>1. commands'[id].state = commands[id].state \/ commands'[id].state = "pending"
    BY <1>5 DEF Insert, AbsentRow
  <2> QED
    BY <2>1 DEF Backed
<1> QED
  BY <1>1, <1>2, <1>3, <1>4, <1>5
  DEF QueueSteps, CreateOperatorViewerCommand, EnsureViewerUpdateCommand

-----------------------------------------------------------------------------
(* A step of the whole: what it is for each part. *)

LEMMA HandedWellFormed ==
    WellFormed(Handed)
BY DEF WellFormed, Handed, Commands

LEMMA HandedHas ==
    ASSUME NEW id, Has(Handed, id)
    PROVE  id \in HandedOut
BY DEF Has, Handed

\* What a report to the server says.
LEMMA ReportFacts ==
    ASSUME ControlInv, NEW ok \in BOOLEAN, Report(ok)
    PROVE  /\ engine.id \in HandedOut
           /\ ReportOf.result \in Results /\ ReportOf \in Reports
           /\ ReportOf.id = engine.id
           /\ Backed(engine.id, ReportOf.result.state)
<1>0. /\ EngineTypeOK /\ PlaceInv /\ SettlingInv /\ ActsOn(Handed)
  BY DEF ControlInv, OutcomeInv, IInv, FlightInv
<1>1. /\ engine.pc \in {"acknowledging", "announcing", "reporting", "answering"}
      /\ engine.id \in Ids /\ engine.record \in Records
  BY <1>0 DEF Report, EngineTypeOK, Engines, IdleEngine
<1>2. Has(Handed, engine.id)
  BY <1>0, <1>1 DEF ActsOn, Known, Has
<1>3. engine.record.state \in ResultStates
  BY <1>0, <1>1 DEF PlaceInv, ActsOn, ResultStates, Terminal
<1>4. Backed(engine.id, engine.record.state)
  BY <1>0, <1>1 DEF Backed, PlaceInv, SettlingInv, ActsOn
<1>5. ReportOf.result \in Results /\ ReportOf.result.state = engine.record.state
  BY <1>1, <1>3 DEF ReportOf, ResultOf, Result, Results, Records
<1> QED
  BY <1>1, <1>2, <1>4, <1>5, HandedHas DEF ReportOf, Reports

\* A command on its way is one the engine may be handed, unless it is an update.
LEMMA CommandOfHanded ==
    ASSUME ControlInv, NEW id \in HandedOut, commands[id].type # "update_app"
    PROVE  CommandOf(id) \in Handed
<1>1. id \in Ids /\ commands[id].type \in CommandTypes
  BY DEF ControlInv, FlightInv, HandedOut, Untaken
<1>2. commands[id].type \in SupportedTypes
  BY <1>1, CommandTypesAssumption DEF SupportedTypes
<1> QED
  BY <1>1, <1>2 DEF CommandOf, Handed, Commands

UndeliveringSteps ==
    \/ EngineStep \/ ReconcileBegin \/ ReconcileEnd \/ Start \/ Stop
    \/ \E ok \in BOOLEAN : Report(ok)
    \/ \E id \in Ids : ViewerLapse(id)
    \/ UNCHANGED engineVars

EngineMoves(S) == UndeliveringSteps \/ \E command \in S : DeliverViewerCommand(command)

\* The transports carry nothing but what was or is now handed out.
StreamOK ==
    /\ sse' \in [open : BOOLEAN, last : Ids \cup {0}, frames : Seq(Ids)]
    /\ sse'.frames \in Seq(HandedOut')
LateOK ==
    /\ late' \subseteq Reports
    /\ \A report \in late' : report.id \in HandedOut' /\ Backed(report.id, report.result.state)
TransportOK ==
    /\ loop' \in {"down", "starting", "up"}
    /\ fallback' \in BOOLEAN
    /\ poll' \in HandedOut' \cup {0}
    /\ StreamOK
    /\ LateOK

LEMMA TransportKept ==
    ASSUME ControlInv, QueueSteps
    PROVE  /\ loop = loop' => loop' \in {"down", "starting", "up"}
           /\ fallback = fallback' => fallback' \in BOOLEAN
           /\ poll' \in {poll, 0} => poll' \in HandedOut' \cup {0}
           /\ sse' \in {sse, ClosedSSE} => StreamOK
           /\ late' \subseteq late => LateOK
           /\ HandedOut \subseteq HandedOut'
<1>1. HandedOut \subseteq HandedOut'
  BY QueueStepForward DEF ControlInv, TypeOK, FlightInv, RowsTyped
<1>2. sse' = sse => StreamOK
  BY <1>1, SeqWider DEF ControlInv, TypeOK, FlightInv, StreamOK
<1>3. sse' = ClosedSSE => StreamOK
  BY DEF StreamOK, ClosedSSE
<1>4. late' \subseteq late => LateOK
  BY <1>1 DEF ControlInv, TypeOK, FlightInv, BackedInv, LateOK
<1> QED
  BY <1>1, <1>2, <1>3, <1>4 DEF ControlInv, TypeOK, FlightInv

\* A step of the whole, seen by its three parts.
Parts == QueueSteps /\ EngineMoves(Handed) /\ TransportOK

LEMMA QuietQueue == UNCHANGED queueVars => QueueSteps
BY DEF QueueSteps

LEMMA QuietEngine == UNCHANGED engineVars => EngineMoves(Handed)
BY DEF EngineMoves, UndeliveringSteps

LEMMA OperatorParts ==
    ASSUME ControlInv,
           \/ OperatorCreates \/ HeartbeatEnsuresUpdate \/ OperatorRevokes
           \/ \E id \in Ids : TimeToLiveEnds(id)
    PROVE  Parts
<1>1. CASE OperatorCreates \/ HeartbeatEnsuresUpdate \/ OperatorRevokes
  <2>1. QueueSteps /\ UNCHANGED engineVars /\ UNCHANGED transportVars
    BY <1>1 DEF OperatorCreates, HeartbeatEnsuresUpdate, OperatorRevokes, QueueSteps
  <2> QED
    BY <2>1, TransportKept, QuietEngine DEF Parts, TransportOK, transportVars
<1>2. ASSUME NEW id \in Ids, TimeToLiveEnds(id)
      PROVE  Parts
  <2>1. /\ Lapse(id) \/ UNCHANGED queueVars
        /\ ViewerLapse(id) \/ UNCHANGED engineVars
        /\ UNCHANGED transportVars
    BY <1>2 DEF TimeToLiveEnds
  <2>2. QueueSteps /\ EngineMoves(Handed)
    BY <2>1 DEF QueueSteps, EngineMoves, UndeliveringSteps
  <2> QED
    BY <2>1, <2>2, TransportKept DEF Parts, TransportOK, transportVars
<1> QED
  BY <1>1, <1>2

LEMMA LoopParts ==
    ASSUME ControlInv,
           \/ LoopStarts \/ SweepBegins \/ LoopRuns \/ LoopRunsUnswept \/ LoopStops
           \/ SSEConnects \/ SSEEnds \/ SSEKeepalive \/ PollLost
           \/ ServiceStarts \/ ServiceStops \/ EngineSteps
    PROVE  Parts
<1>1. UNCHANGED queueVars /\ late' = late
  BY DEF LoopStarts, SweepBegins, LoopRuns, LoopRunsUnswept, LoopStops, SSEConnects, SSEEnds,
         SSEKeepalive, PollLost, ServiceStarts, ServiceStops, EngineSteps, transportVars
<1>2. EngineMoves(Handed)
  <2>1. \/ UNCHANGED engineVars \/ ReconcileBegin \/ ReconcileEnd \/ Start \/ Stop \/ EngineStep
    BY DEF LoopStarts, SweepBegins, LoopRuns, LoopRunsUnswept, LoopStops, SSEConnects, SSEEnds,
           SSEKeepalive, PollLost, ServiceStarts, ServiceStops, EngineSteps
  <2> QED
    BY <2>1 DEF EngineMoves, UndeliveringSteps
<1>3. /\ loop' = loop \/ loop' \in {"down", "starting", "up"}
      /\ fallback' = fallback \/ fallback' \in BOOLEAN
      /\ poll' \in {poll, 0}
      /\ sse' \in {sse, ClosedSSE} \/ sse' = [ClosedSSE EXCEPT !.open = TRUE]
  BY FlagsAssumption
  DEF LoopStarts, SweepBegins, LoopRuns, LoopRunsUnswept, LoopStops, SSEConnects, SSEEnds,
      SSEKeepalive, PollLost, ServiceStarts, ServiceStops, EngineSteps, transportVars,
      CloseTransports
<1>4. sse' = [ClosedSSE EXCEPT !.open = TRUE] => StreamOK
  <2> DEFINE Streams == [open : BOOLEAN, last : Ids \cup {0}, frames : Seq(Ids)]
  <2>1. ClosedSSE \in Streams /\ ClosedSSE.frames = <<>>
    BY DEF ClosedSSE
  <2>2. /\ [ClosedSSE EXCEPT !.open = TRUE] \in Streams
        /\ [ClosedSSE EXCEPT !.open = TRUE].frames = <<>>
    BY <2>1
  <2> QED
    BY <2>2 DEF StreamOK
<1> QED
  BY <1>1, <1>2, <1>3, <1>4, TransportKept, QuietQueue DEF Parts, TransportOK

LEMMA DeliveryParts ==
    ASSUME ControlInv, SSEWrites \/ PollAnswers
    PROVE  Parts
<1>1. /\ (\E id \in Ids : DeliverNextViewerCommand(id)) \/ DeliverNothing
      /\ UNCHANGED engineVars
  BY DEF SSEWrites, PollAnswers
<1>2. QueueSteps
  BY <1>1 DEF QueueSteps
<1>3. ASSUME NEW id \in Ids, DeliverNextViewerCommand(id)
      PROVE  id \in HandedOut'
  <2>1. commands'[id].state = "delivered"
    <3>1. AfterExpiry[id] \in Rows /\ AfterExpiry \in [Ids -> Rows]
      BY AfterExpiryRows DEF ControlInv, TypeOK
    <3> QED
      BY <1>3, <3>1 DEF DeliverNextViewerCommand, Rows
  <2> QED
    BY <2>1 DEF HandedOut, Untaken
<1>4. CASE SSEWrites
  <2>1. UNCHANGED <<loop, fallback, poll, late>>
    BY <1>4 DEF SSEWrites
  <2>2. StreamOK
    <3>1. CASE UNCHANGED sse
      BY <3>1, <1>2, TransportKept
    <3>2. ASSUME NEW id \in Ids, DeliverNextViewerCommand(id),
                 sse' = [sse EXCEPT !.last = id,
                                    !.frames = IF id = sse.last THEN @ ELSE Append(@, id)]
          PROVE  StreamOK
      <4>1. sse.frames \in Seq(HandedOut')
        BY <1>2, TransportKept, SeqWider DEF ControlInv, FlightInv
      <4>2. Append(sse.frames, id) \in Seq(HandedOut') /\ HandedOut' \subseteq Ids
        BY <1>3, <3>2, <4>1 DEF HandedOut
      <4>3. sse'.frames \in {sse.frames, Append(sse.frames, id)} /\ sse'.open = sse.open
            /\ sse' = [open |-> sse.open, last |-> id, frames |-> sse'.frames]
        BY <3>2 DEF ControlInv, TypeOK
      <4>4. sse'.frames \in Seq(HandedOut') /\ sse'.frames \in Seq(Ids)
        BY <4>1, <4>2, <4>3, SeqWider
      <4> QED
        BY <4>3, <4>4 DEF StreamOK, ControlInv, TypeOK
    <3> QED
      BY <1>4, <3>1, <3>2 DEF SSEWrites
  <2> QED
    BY <1>1, <1>2, <2>1, <2>2, TransportKept, QuietEngine DEF Parts, TransportOK
<1>5. CASE PollAnswers
  <2>1. UNCHANGED <<loop, sse, fallback, late>>
    BY <1>5 DEF PollAnswers
  <2>2. poll' \in HandedOut' \cup {0}
    BY <1>2, <1>3, <1>5, TransportKept DEF PollAnswers
  <2> QED
    BY <1>1, <1>2, <2>1, <2>2, TransportKept, QuietEngine DEF Parts, TransportOK
<1> QED
  BY <1>4, <1>5

LEMMA ReceptionParts ==
    ASSUME ControlInv, SSEReceives \/ PollReceives
    PROVE  Parts
<1>1. UNCHANGED <<queueVars, late>>
  BY DEF SSEReceives, PollReceives, Receives, QueueOverflows
<1>2. ASSUME NEW id \in HandedOut, Receives(id)
      PROVE  EngineMoves(Handed) /\ loop' = loop
  <2>1. CASE UNCHANGED <<engineVars, loop>>
    BY <2>1, QuietEngine
  <2>2. CASE /\ commands[id].type # "update_app"
             /\ DeliverViewerCommand(CommandOf(id))
             /\ UNCHANGED loop
    BY <2>2, CommandOfHanded DEF EngineMoves
  <2> QED
    BY <1>2, <2>1, <2>2 DEF Receives
<1>3. ASSUME NEW id, QueueOverflows(id)
      PROVE  Parts
  <2>1. /\ loop' = "down" /\ sse' = ClosedSSE /\ fallback' = FALSE /\ poll' = 0
        /\ UNCHANGED engineVars
    BY <1>3 DEF QueueOverflows, CloseTransports
  <2> QED
    BY <1>1, <2>1, TransportKept, QuietQueue, QuietEngine DEF Parts, TransportOK
<1>4. ASSUME SSEReceives, ~QueueOverflows(Head(sse.frames))
      PROVE  Parts
  <2> DEFINE id == Head(sse.frames)
  <2>1. /\ Receives(id) /\ sse' = [sse EXCEPT !.frames = Tail(@)] /\ sse.frames # <<>>
        /\ fallback' = FALSE /\ poll' = poll
    BY <1>4 DEF SSEReceives
  <2>2. id \in HandedOut /\ Tail(sse.frames) \in Seq(HandedOut) /\ Tail(sse.frames) \in Seq(Ids)
    BY <2>1 DEF ControlInv, FlightInv, TypeOK
  <2>3. StreamOK
    <3>1. sse' = [open |-> sse.open, last |-> sse.last, frames |-> Tail(sse.frames)]
      BY <2>1 DEF ControlInv, TypeOK
    <3>2. Tail(sse.frames) \in Seq(HandedOut')
      BY <1>1, <2>2, TransportKept, QuietQueue, SeqWider
    <3> QED
      BY <2>2, <3>1, <3>2 DEF StreamOK, ControlInv, TypeOK
  <2> QED
    BY <1>1, <1>2, <2>1, <2>2, <2>3, TransportKept, QuietQueue DEF Parts, TransportOK
<1>5. ASSUME PollReceives, ~QueueOverflows(poll)
      PROVE  Parts
  <2>1. Receives(poll) /\ poll' = 0 /\ UNCHANGED <<sse, fallback>> /\ poll \in HandedOut
    BY <1>5 DEF PollReceives, ControlInv, FlightInv
  <2> QED
    BY <1>1, <1>2, <2>1, TransportKept, QuietQueue DEF Parts, TransportOK
<1> QED
  BY <1>3, <1>4, <1>5

LEMMA ReportParts ==
    ASSUME ControlInv,
           \/ ReportAnswered \/ ReportLost \/ ReportAnswerLost \/ ReportTimesOut
           \/ LateReportArrives
    PROVE  Parts
<1>1. ASSUME NEW ok \in BOOLEAN, Report(ok)
      PROVE  EngineMoves(Handed)
  BY <1>1 DEF EngineMoves, UndeliveringSteps
<1>2. ASSUME NEW ok \in BOOLEAN, Report(ok), UNCHANGED transportVars,
             \/ ApplyViewerCommandResult(engine.id, ReportOf.result)
             \/ UNCHANGED queueVars
      PROVE  Parts
  <2>1. QueueSteps
    BY <1>2, ReportFacts DEF QueueSteps
  <2> QED
    BY <1>1, <1>2, <2>1, TransportKept DEF Parts, TransportOK, transportVars
<1>3. CASE ReportAnswered
  <2>1. Accepted(engine.id, ReportOf.result) \in BOOLEAN
    BY DEF Accepted
  <2> QED
    BY <1>2, <1>3, <2>1 DEF ReportAnswered
<1>4. CASE ReportLost \/ ReportAnswerLost
  BY <1>2, <1>4 DEF ReportLost, ReportAnswerLost
<1>5. CASE ReportTimesOut
  <2>1. /\ Report(FALSE) /\ late' = late \cup {ReportOf}
        /\ UNCHANGED <<queueVars, loop, sse, fallback, poll>>
    BY <1>5 DEF ReportTimesOut
  <2>2. QueueSteps /\ HandedOut \subseteq HandedOut'
    BY <2>1, QuietQueue, TransportKept
  <2>3. LateOK
    <3>1. /\ ReportOf \in Reports /\ ReportOf.id \in HandedOut
          /\ Backed(ReportOf.id, ReportOf.result.state)
      BY <2>1, ReportFacts
    <3> QED
      BY <2>1, <2>2, <3>1 DEF LateOK, ControlInv, TypeOK, FlightInv, BackedInv
  <2> QED
    BY <1>1, <2>1, <2>2, <2>3, TransportKept DEF Parts, TransportOK
<1>6. CASE LateReportArrives
  <2>1. PICK report \in late : /\ ApplyViewerCommandResult(report.id, report.result)
                               /\ late' = late \ {report}
    BY <1>6 DEF LateReportArrives
  <2>2. report.id \in HandedOut /\ report.result \in Results /\ Backed(report.id, report.result.state)
    BY DEF ControlInv, TypeOK, FlightInv, BackedInv, Reports
  <2>3. QueueSteps
    BY <2>1, <2>2 DEF QueueSteps
  <2>4. UNCHANGED <<engineVars, loop, sse, fallback, poll>>
    BY <1>6 DEF LateReportArrives
  <2> QED
    BY <2>1, <2>3, <2>4, TransportKept, QuietEngine DEF Parts, TransportOK
<1> QED
  BY <1>3, <1>4, <1>5, <1>6

LEMMA StepParts == ControlInv /\ [Next]_vars => Parts
<1> SUFFICES ASSUME ControlInv, [Next]_vars PROVE Parts
  OBVIOUS
<1>1. CASE UNCHANGED vars
  <2>1. UNCHANGED <<queueVars, engineVars, transportVars>>
    BY <1>1 DEF vars
  <2> QED
    BY <2>1, TransportKept, QuietQueue, QuietEngine DEF Parts, TransportOK, transportVars
<1> QED
  BY <1>1, OperatorParts, LoopParts, DeliveryParts, ReceptionParts, ReportParts DEF Next

-----------------------------------------------------------------------------
(* The invariant holds. *)

LEMMA MovesAreEngineSteps == EngineMoves(Handed) => [EngineNext]_engineVars
BY DEF EngineMoves, UndeliveringSteps, EngineNext, Handed

LEMMA ControlInit == Init => ControlInv
<1> SUFFICES ASSUME Init PROVE ControlInv
  OBVIOUS
<1> USE DEF Init
<1>1. OutcomeInv
  BY OutcomeInit
<1>2. TypeOK
  <2>1. QueueTypeOK
    BY DEF QueueInit, QueueTypeOK, AbsentRow, Rows, RowStates, Codes, Keys, NoKey
  <2>2. sse \in [open : BOOLEAN, last : Ids \cup {0}, frames : Seq(Ids)]
    BY DEF ClosedSSE
  <2> QED
    BY <1>1, <2>1, <2>2 DEF TypeOK, OutcomeInv, IInv
<1>3. \A id \in Ids : commands[id].state = "absent"
  BY DEF QueueInit, AbsentRow
<1>4. FlightInv
  <2>1. ActsOn(Handed)
    <3>1. /\ queue = <<>> /\ engine.pc = "idle"
          /\ \A id \in Ids : journal[id].state = "absent" /\ ~(executions[id] > 0) /\ id \notin pruned
      BY NoRecordFields DEF EngineInit, IdleEngine
    <3> QED
      BY <3>1 DEF ActsOn, About
  <2>2. sse.frames \in Seq(HandedOut)
    BY DEF ClosedSSE
  <2> QED
    BY <1>3, <2>1, <2>2 DEF FlightInv
<1>5. BackedInv
  BY <1>3 DEF BackedInv, Backed
<1> QED
  BY <1>1, <1>2, <1>4, <1>5 DEF ControlInv

LEMMA ControlStep ==
    ASSUME ControlInv, [Next]_vars
    PROVE  ControlInv' /\ KeepsOutcomes /\ [EngineNext]_engineVars /\ QueueSteps
<1>1. QueueSteps /\ EngineMoves(Handed) /\ TransportOK
  BY StepParts DEF Parts
<1>2. [EngineNext]_engineVars
  BY <1>1, MovesAreEngineSteps
<1>3. OutcomeInv' /\ KeepsOutcomes
  BY <1>2, OutcomeStep DEF ControlInv
<1>4. QueueTypeOK' /\ RowsTyped' /\ HandedOut \subseteq HandedOut' /\ Handed \subseteq Handed'
  BY <1>1, QueueStepForward DEF ControlInv, TypeOK, FlightInv, RowsTyped
<1>5. TypeOK'
  BY <1>1, <1>3, <1>4
  DEF TypeOK, TransportOK, StreamOK, LateOK, OutcomeInv, IInv, HandedOut
<1>6. FlightInv'
  <2>1. ActsOnNext(Handed)
    <3>1. WellFormed(Handed) /\ ActsOn(Handed) /\ OutcomeInv
      BY HandedWellFormed DEF ControlInv, FlightInv
    <3>2. CASE UndeliveringSteps
      BY <3>1, <3>2, EngineNextActsOn DEF UndeliveringSteps
    <3>3. CASE \E command \in Handed : DeliverViewerCommand(command)
      BY <3>1, <3>3, DeliveryActsOn
    <3> QED
      BY <1>1, <3>2, <3>3 DEF EngineMoves
  <2>2. ActsOnNext(Handed')
    BY <1>4, <2>1, ActsOnWider
  <2>3. ActsOn(Handed)'
    BY <2>2 DEF ActsOn, ActsOnNext
  <2> QED
    BY <1>1, <1>4, <2>3 DEF FlightInv, TransportOK, StreamOK, LateOK, RowsTyped
<1>7. BackedInv'
  <2>1. ASSUME NEW id \in Ids, NEW s, Backed(id, s)
        PROVE  s \in {"succeeded", "rejected"} => journal'[id].state = s \/ id \in pruned'
    <3>1. Final(id) /\ pruned \subseteq pruned'
      BY <1>3 DEF KeepsOutcomes
    <3> QED
      BY <2>1, <3>1 DEF Final, Backed, Terminal, ResultOf, Result
  <2>2. \A id \in Ids : Backed(id, commands'[id].state)
    BY <1>1, QueueStepBacked DEF ControlInv, TypeOK, BackedInv
  <2>3. \A report \in late' : report.id \in Ids /\ Backed(report.id, report.result.state)
    BY <1>1 DEF TransportOK, LateOK, HandedOut
  <2> QED
    BY <2>1, <2>2, <2>3 DEF BackedInv, Backed
<1> QED
  BY <1>1, <1>2, <1>3, <1>5, <1>6, <1>7 DEF ControlInv

LEMMA ControlInvariant == Spec => []ControlInv
BY ControlInit, ControlStep, PTL DEF Spec

-----------------------------------------------------------------------------
(* What follows. *)

\* Type correctness of the two ends and the transports between them.
THEOREM ControlTypeCorrect == Spec => []TypeOK
<1>1. ControlInv => TypeOK
  BY DEF ControlInv
<1> QED
  BY <1>1, ControlInvariant, PTL

\* The Service's engine behaves as ViewerCommandEngine says, whatever the server,
\* the transports and the clocks do: what is proved of the engine holds in the
\* composed system.
THEOREM ControlRunsTheEngine == Spec => EngineSpec
<1>1. Init => EngineInit
  BY DEF Init
<1>2. ControlInv /\ [Next]_vars => [EngineNext]_engineVars
  BY ControlStep
<1> QED
  BY <1>1, <1>2, ControlInvariant, PTL DEF Spec, EngineSpec

\* A command's side effect begins at most once, end to end (see ExecutesAtMostOnce).
THEOREM ControlExecutesAtMostOnce == Spec => []AtMostOnce
BY ControlRunsTheEngine, ExecutesAtMostOnce, PTL

\* The operator-visible state of a command never moves backward and a final state
\* is never replaced, whatever reports arrive twice, late or out of order.
THEOREM ServerMovesForward == Spec => ServerNeverBackward
<1>1. ControlInv /\ [Next]_vars =>
        [\A id \in Ids :
            /\ Rank(commands'[id].state) >= Rank(commands[id].state)
            /\ Rank(commands[id].state) >= 5 =>
                  commands'[id] = commands[id] \/ commands'[id].state = "deleted"]_commands
  BY ControlStep, QueueStepForward DEF ControlInv, TypeOK, FlightInv, RowsTyped
<1> QED
  BY <1>1, ControlInvariant, PTL DEF Spec, ServerNeverBackward

\* Revoking a command that was not handed out is a promise kept by every later
\* step: no copy, no record and no effect of it, whatever else is on its way.
THEOREM RevocationIsKept == Spec => []RevocationHolds
<1>1. ASSUME ControlInv, NEW id \in Ids, commands[id].state \in {"cancelled", "deleted"}
      PROVE  /\ executions[id] = 0
             /\ ~HasRecord(id)
             /\ poll # id
             /\ \A i \in 1 .. Len(sse.frames) : sse.frames[i] # id
             /\ \A i \in 1 .. Len(queue) : queue[i].id # id
  <2>1. id \notin HandedOut /\ id # 0
    BY <1>1 DEF HandedOut, Untaken, Ids
  <2>2. ~Has(Handed, id)
    BY <2>1, HandedHas
  <2>3. /\ sse.frames \in Seq(HandedOut) /\ poll \in HandedOut \cup {0} /\ queue \in Seq(Handed)
        /\ About(journal, Handed)
        /\ \A i \in Ids : executions[i] > 0 => Has(Handed, i)
        /\ executions[id] \in 0 .. ExecutionCap
    BY <1>1 DEF ControlInv, FlightInv, ActsOn, OutcomeInv, IInv, EngineTypeOK
  <2>4. executions[id] = 0
    BY <2>2, <2>3 DEF ExecutionCap
  <2>5. ~HasRecord(id)
    BY <2>2, <2>3 DEF About, HasRecord, Known, Has
  <2>6. \A i \in 1 .. Len(queue) : queue[i] \in Handed
    BY <2>3
  <2> QED
    BY <2>1, <2>2, <2>3, <2>4, <2>5, <2>6 DEF Has
<1>2. ControlInv => RevocationHolds
  BY <1>1 DEF RevocationHolds
<1> QED
  BY <1>2, ControlInvariant, PTL

LEMMA TruthfulUnlessDropped ==
    ASSUME ControlInv, NEW id \in Ids, id \notin pruned
    PROVE  ResultIsTruthful(id)
<1>1. Backed(id, commands[id].state) /\ Sound(id, journal[id])
  BY DEF ControlInv, OutcomeInv, JournalSound, BackedInv
<1>2. HasRecord(id) => journal[id].type = commands[id].type
  BY DEF ControlInv, FlightInv, ActsOn, About, HasRecord, Handed, Known
<1> QED
  BY <1>1, <1>2 DEF ResultIsTruthful, Backed, Sound, Truthful, Unexecuted, HasRecord

\* What the operator reads is what happened, for every command whose record the
\* journal bound has not dropped: success means executed (or, for restart_service,
\* proved by a later boot) and recorded, rejection means no effect.
THEOREM ServerTellsWhatHappened == Spec => [](\A id \in Ids \ pruned : ResultIsTruthful(id))
<1>1. ControlInv => \A id \in Ids \ pruned : ResultIsTruthful(id)
  BY TruthfulUnlessDropped
<1> QED
  BY <1>1, ControlInvariant, PTL

-----------------------------------------------------------------------------
(* While the journal holds every command there ever was, nothing is dropped. *)

LEMMA NothingToPrune ==
    ASSUME MaxCommands <= MaxRetained, NEW j
    PROVE  PrunedBy(j) = {}
<1> DEFINE kept == {id \in Ids : j[id].state # "absent"}
<1>1. IsFiniteSet(Ids) /\ Cardinality(Ids) = MaxCommands
  BY MaxCommandsAssumption, FS_Interval DEF Ids
<1>2. IsFiniteSet(kept) /\ Cardinality(kept) <= MaxCommands
  BY <1>1, FS_Subset
<1>3. Cardinality(kept) \in Nat
  BY <1>2, FS_CardinalityType
<1>4. ASSUME NEW older, older \subseteq Ids
      PROVE  ~(Cardinality(kept) > MaxRetained + Cardinality(older))
  <2>1. Cardinality(older) \in Nat
    BY <1>1, <1>4, FS_Subset, FS_CardinalityType
  <2> QED
    BY <1>2, <1>3, <2>1, MaxCommandsAssumption, MaxRetainedAssumption
<1> QED
  BY <1>4 DEF PrunedBy

LEMMA PrunedOnlyBySaves ==
    ASSUME [EngineNext]_engineVars
    PROVE  pruned' = pruned \/ \E j : pruned' = pruned \cup PrunedBy(j)
<1>1. ASSUME NEW j, SavePruned(j)
      PROVE  \E k : pruned' = pruned \cup PrunedBy(k)
  BY <1>1 DEF SavePruned
<1>2. CASE EngineStep
  <2>1. CASE \E command \in Commands : Handle(command)
    BY <2>1, <1>1
    DEF Handle, HandleUnsupported, HandleUnreadable, HandleChanged, HandleTerminal,
        HandleRestarted, HandleInProgress, HandleExpired, HandleAccept, TakesDuplicate,
        TakesKnown, TakesNew, StorageFails, durable
  <2>2. CASE Finish
    BY <2>2, <1>1 DEF Finish, StorageFails, durable
  <2> QED
    BY <1>2, <2>1, <2>2
    DEF EngineStep, SaveRunning, SaveJournal, ExecuteRefused, ExecuteBegin, ExecuteEnd,
        ExecuteFails, Confirm, ReconcileStale, ReconcileOther, StorageFails, durable
<1>3. CASE Start
  BY <1>3 DEF Start
<1> QED
  BY <1>2, <1>3
  DEF EngineNext, Report, ReconcileBegin, ReconcileEnd, Stop, DeliverViewerCommand, ViewerLapse,
      durable, engineVars

LEMMA NothingPruned ==
    ASSUME MaxCommands <= MaxRetained
    PROVE  EngineSpec => [](pruned = {})
<1>1. EngineInit => pruned = {}
  BY DEF EngineInit
<1>2. pruned = {} /\ [EngineNext]_engineVars => (pruned = {})'
  BY PrunedOnlyBySaves, NothingToPrune
<1> QED
  BY <1>1, <1>2, PTL DEF EngineSpec

\* As long as there have been no more commands than the journal retains, each
\* takes effect at most once, and none that was revoked.
THEOREM EachRunsOnceIfAtAll ==
    ASSUME MaxCommands <= MaxRetained
    PROVE  Spec => []RunsOnceIfAtAll
<1>1. AtMostOnce /\ pruned = {} /\ RevocationHolds => RunsOnceIfAtAll
  BY DEF AtMostOnce, RunsOnceIfAtAll
<1> QED
  BY <1>1, ControlExecutesAtMostOnce, RevocationIsKept, NothingPruned, ControlRunsTheEngine, PTL

\* As long as there have been no more commands than the journal retains, every
\* result the operator reads is what happened.
THEOREM EveryServerResultIsTruthful ==
    ASSUME MaxCommands <= MaxRetained
    PROVE  Spec => []ServerResultIsTruthful
<1>1. (\A id \in Ids \ pruned : ResultIsTruthful(id)) /\ pruned = {} => ServerResultIsTruthful
  BY DEF ServerResultIsTruthful
<1> QED
  BY <1>1, ServerTellsWhatHappened, NothingPruned, ControlRunsTheEngine, PTL

-----------------------------------------------------------------------------
(* The refinement of RemoteCommand. *)

\* A step of the engine that drops nothing changes the recorded state of one
\* command at most, and begins an effect only for one recorded as running.
OneEntry(k) ==
    /\ \A id \in Ids \ {k} : journal'[id].state = journal[id].state
    /\ \/ executions' = executions
       \/ /\ UNCHANGED durable
          /\ journal[k].state = "running"
          /\ executions[k] = 0
          /\ executions' = [executions EXCEPT ![k] = 1]

LEMMA SavesOneEntry ==
    ASSUME EngineTypeOK, NEW k \in Ids, NEW r, UNCHANGED executions,
           \/ SavePruned([journal EXCEPT ![k] = r]) /\ MaxCommands <= MaxRetained
           \/ journal' = [journal EXCEPT ![k] = r]
           \/ journal' = [Remembered EXCEPT ![k] = r]
           \/ UNCHANGED durable
    PROVE  OneEntry(k)
<1>0. \A id \in Ids : Remembered[id].state = journal[id].state
  BY RememberedType DEF EngineTypeOK
<1>1. CASE SavePruned([journal EXCEPT ![k] = r]) /\ MaxCommands <= MaxRetained
  <2>1. \A id \in Ids \ {k} : journal'[id] = journal[id]
    BY <1>1, NothingToPrune DEF SavePruned, EngineTypeOK
  <2> QED
    BY <2>1 DEF OneEntry
<1>2. CASE journal' = [Remembered EXCEPT ![k] = r]
  <2>1. \A id \in Ids \ {k} : journal'[id] = Remembered[id]
    BY <1>2, RememberedType DEF EngineTypeOK
  <2> QED
    BY <1>0, <2>1 DEF OneEntry
<1> QED
  BY <1>1, <1>2 DEF OneEntry, EngineTypeOK, durable

LEMMA EngineOneEntry ==
    ASSUME MaxCommands <= MaxRetained, OutcomeInv, pruned = {}, [EngineNext]_engineVars
    PROVE  \E k \in Ids : OneEntry(k)
<1>0. /\ EngineTypeOK /\ PlaceInv /\ 1 \in Ids
      /\ engine.pc # "idle" => engine.id \in Ids
  BY MaxCommandsAssumption DEF OutcomeInv, IInv, PlaceInv, Ids
<1>1. ASSUME UNCHANGED <<durable, executions>>
      PROVE  \E k \in Ids : OneEntry(k)
  BY <1>0, <1>1, SavesOneEntry
<1>2. CASE EngineStep
  <2>1. ASSUME NEW command \in Commands, Handle(command)
        PROVE  \E k \in Ids : OneEntry(k)
    <3>1. command.id \in Ids /\ UNCHANGED executions
      BY <2>1
      DEF Commands, Handle, HandleUnsupported, HandleUnreadable, HandleChanged, HandleTerminal,
          HandleRestarted, HandleInProgress, HandleExpired, HandleAccept, TakesDuplicate,
          TakesKnown, TakesNew, Takes
    <3>2. \/ UNCHANGED durable
          \/ SavePruned([journal EXCEPT ![command.id] = ExpiredRecord(command)])
          \/ SavePruned([journal EXCEPT ![command.id] = AcceptedRecord(command)])
      BY <2>1
      DEF Handle, HandleUnsupported, HandleUnreadable, HandleChanged, HandleTerminal,
          HandleRestarted, HandleInProgress, HandleExpired, HandleAccept, TakesDuplicate,
          TakesKnown, StorageFails
    <3> QED
      BY <1>0, <3>1, <3>2, SavesOneEntry
  <2>2. CASE SaveRunning \/ Finish \/ Confirm
    <3>1. engine.id \in Ids /\ UNCHANGED executions
      BY <1>0, <2>2 DEF SaveRunning, Finish, Confirm
    <3>2. \/ UNCHANGED durable
          \/ \E r : \/ journal' = [journal EXCEPT ![engine.id] = r]
                    \/ SavePruned([journal EXCEPT ![engine.id] = r])
                    \/ journal' = [Remembered EXCEPT ![engine.id] = r]
      BY <2>2 DEF SaveRunning, Finish, Confirm, SaveJournal, StorageFails
    <3> QED
      BY <1>0, <3>1, <3>2, SavesOneEntry
  <2>3. CASE ExecuteBegin
    <3>0. /\ engine.id \in Ids /\ executions[engine.id] = 0
          /\ journal[engine.id].state = "running" /\ UNCHANGED durable
      BY <1>0, <2>3 DEF ExecuteBegin, PlaceInv, Unexecuted
    <3>1. executions' = [executions EXCEPT ![engine.id] = 1]
      BY <2>3, <3>0 DEF ExecuteBegin, ExecutionCap
    <3>2. journal' = journal
      BY <3>0 DEF durable
    <3> QED
      BY <3>0, <3>1, <3>2 DEF OneEntry
  <2>4. CASE ExecuteRefused \/ ExecuteEnd \/ ExecuteFails
    BY <1>1, <2>4 DEF ExecuteRefused, ExecuteEnd, ExecuteFails
  <2>5. ASSUME NEW i \in Ids, ReconcileStale(i) \/ ReconcileOther(i)
        PROVE  \E k \in Ids : OneEntry(k)
    <3>1. /\ UNCHANGED executions
          /\ \/ UNCHANGED durable
             \/ journal' = [Remembered EXCEPT ![i] = Reconciled(journal[i])]
      BY <2>5 DEF ReconcileStale, ReconcileOther, Visits, StorageFails
    <3> QED
      BY <1>0, <3>1, SavesOneEntry
  <2> QED
    BY <1>2, <2>1, <2>2, <2>3, <2>4, <2>5 DEF EngineStep
<1>3. CASE Start
  <2>1. /\ UNCHANGED executions
        /\ \A id \in Ids : journal'[id] = journal[id]
    BY <1>3, NothingToPrune DEF Start
  <2> QED
    BY <1>0, <2>1 DEF OneEntry
<1> QED
  BY <1>1, <1>2, <1>3
  DEF EngineNext, Report, ReconcileBegin, ReconcileEnd, Stop, DeliverViewerCommand, ViewerLapse,
      engineVars, durable

\* Which part of the system a step changes, as far as phases go: the rows, or the
\* journal and the effects.
LEMMA OnePartMoves ==
    ASSUME [Next]_vars
    PROVE  UNCHANGED <<durable, executions>> \/ UNCHANGED commands
<1>1. CASE \/ OperatorCreates \/ HeartbeatEnsuresUpdate \/ OperatorRevokes
           \/ SSEWrites \/ PollAnswers \/ LateReportArrives
  BY <1>1
  DEF OperatorCreates, HeartbeatEnsuresUpdate, OperatorRevokes, SSEWrites, PollAnswers,
      LateReportArrives, engineVars, durable
<1>2. CASE ReportAnswered \/ ReportLost \/ ReportAnswerLost \/ ReportTimesOut
  BY <1>2 DEF ReportAnswered, ReportLost, ReportAnswerLost, ReportTimesOut, Report
<1>3. CASE \E id \in Ids : TimeToLiveEnds(id)
  BY <1>3 DEF TimeToLiveEnds, Lapse, queueVars, engineVars, durable
<1>4. CASE \/ LoopStarts \/ SweepBegins \/ LoopRuns \/ LoopRunsUnswept \/ LoopStops
           \/ SSEConnects \/ SSEEnds \/ SSEKeepalive \/ PollLost
           \/ ServiceStarts \/ ServiceStops \/ EngineSteps
  BY <1>4
  DEF LoopStarts, SweepBegins, LoopRuns, LoopRunsUnswept, LoopStops, SSEConnects, SSEEnds,
      SSEKeepalive, PollLost, ServiceStarts, ServiceStops, EngineSteps, queueVars
<1>5. CASE SSEReceives \/ PollReceives
  BY <1>5 DEF SSEReceives, PollReceives, Receives, QueueOverflows, queueVars
<1>6. CASE UNCHANGED vars
  BY <1>6 DEF vars, queueVars
<1> QED
  BY <1>1, <1>2, <1>3, <1>4, <1>5, <1>6 DEF Next

\* Of the rows, one at most is born or revoked by a step.
OneRow(k) ==
    \A id \in Ids \ {k} :
        /\ commands'[id].state = "absent" <=> commands[id].state = "absent"
        /\ commands'[id].state \in {"cancelled", "deleted"} <=>
              commands[id].state \in {"cancelled", "deleted"}

LEMMA QueueOneRow ==
    ASSUME QueueTypeOK, QueueSteps
    PROVE  \E k \in Ids : OneRow(k)
<1> USE DEF QueueTypeOK
<1>0. 1 \in Ids
  BY MaxCommandsAssumption DEF Ids
<1>1. ASSUME NEW k \in Ids, \A id \in Ids \ {k} : commands'[id] = commands[id]
      PROVE  OneRow(k)
  BY <1>1 DEF OneRow
<1>2. CASE UNCHANGED queueVars \/ \E id \in Ids : Lapse(id)
  BY <1>0, <1>1, <1>2 DEF queueVars, Lapse
<1>3. ASSUME NEW id \in Ids,
             (\E type : Insert(id, type)) \/ CancelViewerCommand(id) \/ DeleteViewerCommand(id)
      PROVE  OneRow(id)
  BY <1>1, <1>3 DEF Insert, CancelViewerCommand, DeleteViewerCommand
<1>4. CASE (\E id \in Ids : DeliverNextViewerCommand(id)) \/ DeliverNothing
  <2>1. \A id \in Ids : \/ commands'[id] = commands[id]
                        \/ /\ commands[id].state \in Open
                           /\ commands'[id].state \in {"delivered", "expired"}
    <3>1. CASE DeliverNothing
      BY <3>1, AfterExpiryRows DEF DeliverNothing
    <3>2. ASSUME NEW i \in Ids, DeliverNextViewerCommand(i)
          PROVE  \A id \in Ids : \/ commands'[id] = commands[id]
                                 \/ /\ commands[id].state \in Open
                                    /\ commands'[id].state \in {"delivered", "expired"}
      <4>1. /\ AfterExpiry[i] = commands[i] /\ commands[i].state \in Open
            /\ AfterExpiry[i] \in Rows
        BY <3>2, AfterExpiryRows DEF DeliverNextViewerCommand, Deliverable, Open
      <4>2. commands'[i].state = "delivered"
        BY <3>2, <4>1, AfterExpiryRows DEF DeliverNextViewerCommand, Rows
      <4>3. \A id \in Ids \ {i} : commands'[id] = AfterExpiry[id]
        BY <3>2, AfterExpiryRows DEF DeliverNextViewerCommand
      <4> QED
        BY <4>1, <4>2, <4>3, AfterExpiryRows
    <3> QED
      BY <1>4, <3>1, <3>2
  <2> QED
    BY <1>0, <2>1 DEF OneRow, Open
<1>5. ASSUME NEW i \in HandedOut, NEW result, ApplyViewerCommandResult(i, result)
      PROVE  OneRow(i)
  BY <1>1, <1>5 DEF ApplyViewerCommandResult, HandedOut
<1> QED
  BY <1>2, <1>3, <1>4, <1>5
  DEF QueueSteps, CreateOperatorViewerCommand, EnsureViewerUpdateCommand, HandedOut

\* The commands as RemoteCommand sees them, and its moves spelled out.
Phase == [id \in Ids |-> PhaseOf(id)]

Moves(k, from, to) == Phase[k] \in from /\ Phase' = [Phase EXCEPT ![k] = to]

RemoteMoves(k) ==
    \/ Moves(k, {"unborn"}, "waiting")   /\ UNCHANGED executions
    \/ Moves(k, {"waiting"}, "revoked")  /\ UNCHANGED executions
    \/ Moves(k, {"waiting"}, "closed")   /\ UNCHANGED executions
    \/ Moves(k, {"waiting"}, "acting")   /\ executions' = [executions EXCEPT ![k] = @ + 1]
    \/ Moves(k, {"acting"}, "settled")   /\ UNCHANGED executions

LEMMA RemoteStep ==
    ASSUME UNCHANGED <<Phase, executions>> \/ \E k \in Ids : RemoteMoves(k)
    PROVE  [Remote!Next]_Remote!abstractVars
<1>1. CASE UNCHANGED <<Phase, executions>>
  BY <1>1 DEF Phase, Remote!abstractVars
<1>2. ASSUME NEW k \in Ids, RemoteMoves(k)
      PROVE  Remote!Next
  BY <1>2, Zenon
  DEF RemoteMoves, Moves, Phase, Remote!Next, Remote!Request, Remote!Revoke, Remote!Close,
      Remote!Begin, Remote!Settle, Remote!Move
<1> QED
  BY <1>1, <1>2

\* Where a command stands, once nothing is dropped from the journal.
Ran(id)  == executions[id] > 0
Done(id) == journal[id].state \in Terminal
PhaseFacts(id) ==
    /\ PhaseOf(id) = "settled" <=> Ran(id) /\ Done(id)
    /\ PhaseOf(id) = "acting"  <=> Ran(id) /\ ~Done(id)
    /\ PhaseOf(id) = "closed"  <=> ~Ran(id) /\ Done(id)
    /\ ~Ran(id) /\ ~Done(id) =>
          PhaseOf(id) = IF commands[id].state \in {"cancelled", "deleted"} THEN "revoked"
                        ELSE IF commands[id].state = "absent" THEN "unborn" ELSE "waiting"

LEMMA PhaseIs == EngineTypeOK /\ pruned = {} => \A id \in Ids : PhaseFacts(id)
<1> SUFFICES ASSUME EngineTypeOK, pruned = {}, NEW id \in Ids PROVE PhaseFacts(id)
  OBVIOUS
<1>1. (Concluded(id) <=> Done(id)) /\ (executions[id] > 0 <=> Ran(id))
  BY DEF Concluded, Done, Ran
<1> QED
  BY <1>1 DEF PhaseFacts, PhaseOf

LEMMA PhaseIsNext == (EngineTypeOK /\ pruned = {} => \A id \in Ids : PhaseFacts(id))'
BY PhaseIs, PTL

\* If only k's phase changes, the phases change at k.
LEMMA PhaseMoves ==
    ASSUME NEW k \in Ids, NEW from, NEW to, PhaseOf(k) \in from, PhaseOf(k)' = to,
           \A id \in Ids \ {k} : PhaseOf(id)' = PhaseOf(id)
    PROVE  Moves(k, from, to)
BY DEF Moves, Phase

LEMMA PhaseStays ==
    ASSUME \A id \in Ids : PhaseOf(id)' = PhaseOf(id)
    PROVE  Phase' = Phase
BY DEF Phase

\* The rows move: one command at most is requested or revoked.
LEMMA RowsRefine ==
    ASSUME QueueTypeOK, EngineTypeOK, EngineTypeOK', pruned = {}, pruned' = {},
           QueueSteps, UNCHANGED <<durable, executions>>
    PROVE  UNCHANGED <<Phase, executions>> \/ \E k \in Ids : RemoteMoves(k)
<1>1. PICK k \in Ids : OneRow(k)
  BY QueueOneRow
<1>2. \A id \in Ids : /\ PhaseFacts(id) /\ PhaseFacts(id)'
                      /\ Ran(id)' = Ran(id) /\ Done(id)' = Done(id)
  BY PhaseIs, PhaseIsNext DEF Ran, Done, durable
<1>3. \A id \in Ids \ {k} : PhaseOf(id)' = PhaseOf(id)
  BY <1>1, <1>2 DEF PhaseFacts, OneRow
<1>4. \/ PhaseOf(k)' = PhaseOf(k)
      \/ PhaseOf(k) = "unborn" /\ PhaseOf(k)' = "waiting"
      \/ PhaseOf(k) = "waiting" /\ PhaseOf(k)' = "revoked"
  <2>1. RowMoves(commands[k], commands'[k])
    BY QueueStepMoves
  <2>2. \/ commands'[k] = commands[k]
        \/ commands[k].state = "absent" /\ commands'[k].state = "pending"
        \/ commands[k].state = "pending" /\ commands'[k].state = "cancelled"
        \/ commands[k].state \in {"pending", "cancelled"} /\ commands'[k].state = "deleted"
        \/ /\ commands[k].state \notin {"absent", "cancelled", "deleted"}
           /\ commands'[k].state \notin {"absent", "cancelled", "deleted"}
    BY <2>1 DEF RowMoves, Open, PreviousStates, ResultStates, Terminal
  <2> QED
    BY <1>2, <2>2 DEF PhaseFacts
<1>5. CASE PhaseOf(k)' = PhaseOf(k)
  BY <1>3, <1>5, PhaseStays
<1>6. CASE PhaseOf(k) = "unborn" /\ PhaseOf(k)' = "waiting"
  BY <1>3, <1>6, PhaseMoves DEF RemoteMoves
<1>7. CASE PhaseOf(k) = "waiting" /\ PhaseOf(k)' = "revoked"
  BY <1>3, <1>7, PhaseMoves DEF RemoteMoves
<1> QED
  BY <1>4, <1>5, <1>6, <1>7

\* The engine moves: one command at most begins, settles or is closed.
LEMMA EngineRefines ==
    ASSUME MaxCommands <= MaxRetained, ControlInv, ControlInv', pruned = {}, pruned' = {},
           KeepsOutcomes, [EngineNext]_engineVars, UNCHANGED commands
    PROVE  UNCHANGED <<Phase, executions>> \/ \E k \in Ids : RemoteMoves(k)
<1>0. EngineTypeOK /\ EngineTypeOK' /\ OutcomeInv
  BY DEF ControlInv, OutcomeInv, IInv
<1>1. PICK k \in Ids : OneEntry(k)
  BY <1>0, EngineOneEntry
<1>2. \A id \in Ids : PhaseFacts(id) /\ PhaseFacts(id)' /\ (Done(id) => Done(id)')
  BY <1>0, PhaseIs, PhaseIsNext DEF Done, KeepsOutcomes, Final, ResultOf, Result
<1>3. \A id \in Ids \ {k} : Ran(id)' = Ran(id) /\ Done(id)' = Done(id)
  BY <1>0, <1>1 DEF OneEntry, Ran, Done, EngineTypeOK
<1>4. \A id \in Ids \ {k} : PhaseOf(id)' = PhaseOf(id)
  BY <1>2, <1>3 DEF PhaseFacts
\* What is recorded was handed out.
<1>5. journal[k].state # "absent" \/ journal'[k].state # "absent" =>
          commands[k].state \notin {"absent", "cancelled", "deleted"}
  <2>1. journal[k].state # "absent" => k \in HandedOut
    BY HandedHas DEF ControlInv, FlightInv, ActsOn, About, Known, Has
  <2>2. About(journal, Handed)'
    BY DEF ControlInv, FlightInv, ActsOn
  <2>3. Handed' = Handed
    BY DEF Handed, HandedOut
  <2>4. journal'[k].state # "absent" => k \in HandedOut
    BY <2>2, <2>3, HandedHas DEF About, Known, Has
  <2> QED
    BY <2>1, <2>4 DEF HandedOut, Untaken
<1>6. CASE executions' = executions
  <2>1. Ran(k)' = Ran(k)
    BY <1>6 DEF Ran
  <2>2. \/ PhaseOf(k)' = PhaseOf(k)
        \/ PhaseOf(k) = "acting" /\ PhaseOf(k)' = "settled"
        \/ PhaseOf(k) = "waiting" /\ PhaseOf(k)' = "closed"
    <3>1. Done(k)' => commands[k].state \notin {"absent", "cancelled", "deleted"}
      BY <1>5 DEF Done, Terminal
    <3> QED
      BY <1>2, <2>1, <3>1 DEF PhaseFacts
  <2>3. CASE PhaseOf(k)' = PhaseOf(k)
    BY <1>4, <1>6, <2>3, PhaseStays
  <2>4. CASE PhaseOf(k) = "acting" /\ PhaseOf(k)' = "settled"
    BY <1>4, <1>6, <2>4, PhaseMoves DEF RemoteMoves
  <2>5. CASE PhaseOf(k) = "waiting" /\ PhaseOf(k)' = "closed"
    BY <1>4, <1>6, <2>5, PhaseMoves DEF RemoteMoves
  <2> QED
    BY <2>2, <2>3, <2>4, <2>5
<1>7. CASE /\ UNCHANGED durable /\ journal[k].state = "running" /\ executions[k] = 0
           /\ executions' = [executions EXCEPT ![k] = 1]
  <2>1. ~Ran(k) /\ Ran(k)' /\ ~Done(k) /\ ~Done(k)'
    BY <1>0, <1>7 DEF Ran, Done, Terminal, durable, EngineTypeOK
  <2>2. PhaseOf(k) = "waiting" /\ PhaseOf(k)' = "acting"
    BY <1>2, <1>5, <1>7, <2>1 DEF PhaseFacts
  <2>3. executions' = [executions EXCEPT ![k] = @ + 1]
    BY <1>7
  <2>4. Moves(k, {"waiting"}, "acting")
    BY <1>4, <2>2, PhaseMoves
  <2> QED
    BY <2>3, <2>4, Zenon DEF RemoteMoves
<1> QED
  BY <1>1, <1>6, <1>7 DEF OneEntry

LEMMA RemoteInit == Init => Remote!Init
<1> SUFFICES ASSUME Init PROVE Remote!Init
  OBVIOUS
<1>1. \A id \in Ids : PhaseOf(id) = "unborn"
  <2>1. \A id \in Ids : /\ commands[id].state = "absent" /\ journal[id].state = "absent"
                        /\ executions[id] = 0 /\ id \notin pruned
    BY NoRecordFields DEF Init, QueueInit, EngineInit, AbsentRow
  <2> QED
    BY <2>1 DEF PhaseOf, Concluded, Terminal
<1> QED
  BY <1>1 DEF Remote!Init, Init, EngineInit

\* As long as there have been no more commands than the journal retains, the queue,
\* the stream, the polls, the reports and the engine together keep the promise of
\* RemoteCommand for each command: it takes effect once at most, not after it was
\* revoked or closed, and settles once.
THEOREM ControlKeepsRemoteCommandPromise ==
    ASSUME MaxCommands <= MaxRetained
    PROVE  Spec => KeepsRemoteCommandPromise
<1>1. ASSUME ControlInv, pruned = {}, (pruned = {})', [Next]_vars
      PROVE  [Remote!Next]_Remote!abstractVars
  <2>1. /\ ControlInv' /\ KeepsOutcomes /\ [EngineNext]_engineVars /\ QueueSteps
        /\ QueueTypeOK /\ EngineTypeOK /\ EngineTypeOK'
    BY <1>1, ControlStep DEF ControlInv, TypeOK, OutcomeInv, IInv
  <2>2. UNCHANGED <<Phase, executions>> \/ \E k \in Ids : RemoteMoves(k)
    BY <1>1, <2>1, OnePartMoves, RowsRefine, EngineRefines
  <2> QED
    BY <2>2, RemoteStep
<1> QED
  BY <1>1, RemoteInit, ControlInvariant, ControlRunsTheEngine, NothingPruned, PTL
  DEF Spec, KeepsRemoteCommandPromise, Remote!Spec
-----------------------------------------------------------------------------
(* The order of effects.                                                     *)
(*                                                                           *)
(* EffectsInOrder compares a command that takes effect now with everything   *)
(* that has taken effect.  Two things make it hold.  When a command is       *)
(* handed out, none before it can be handed out any more (TurnInv).  And     *)
(* nothing gets ahead of a command that may still act: either because all    *)
(* travels in one line, first in, first out (LineInv), or because what has   *)
(* fallen behind is barred, being recorded or expired (BarredInv).           *)

\* The row may still be handed out, now or once it is there.
Waits(id) == commands[id].state \in Open \cup {"absent"}

InTurn(id) == \A older \in 1 .. id - 1 : ~Waits(older)
Called == {id \in HandedOut : InTurn(id)}
CalledCommands == {c \in Handed : c.id \in Called}

\* Rows come into being in the order of their ids.
Consecutive ==
    \A id \in Ids : commands[id].state # "absent" =>
        \A older \in 1 .. id - 1 : commands[older].state # "absent"

\* What is on its way, held, recorded or executed was called in its turn.
TurnInv ==
    /\ Consecutive
    /\ sse.frames \in Seq(Called)
    /\ poll \in Called \cup {0}
    /\ ActsOn(CalledCommands)

LEMMA OlderIds ==
    ASSUME NEW id \in Ids, NEW older \in 1 .. id - 1
    PROVE  older \in Ids /\ older < id
BY MaxCommandsAssumption DEF Ids

LEMMA RowsCloseForGood ==
    ASSUME QueueTypeOK, QueueSteps, NEW id \in Ids
    PROVE  /\ ~Waits(id) => ~Waits(id)'
           /\ commands[id].state # "absent" => commands'[id].state # "absent"
<1>1. RowMoves(commands[id], commands'[id])
  BY QueueStepMoves
<1>2. ASSUME NEW s \in {"acknowledged", "running"} \cup Terminal
      PROVE  PreviousStates(s) \subseteq {"pending", "delivered", "acknowledged", "running"}
  BY DEF PreviousStates, Open
<1> QED
  BY <1>1, <1>2 DEF RowMoves, Waits, Open, ResultStates, Terminal

LEMMA CalledGrows ==
    ASSUME ControlInv, QueueSteps
    PROVE  Called \subseteq Called' /\ CalledCommands \subseteq CalledCommands'
<1>0. QueueTypeOK /\ RowsTyped
  BY DEF ControlInv, TypeOK, FlightInv, RowsTyped
<1>1. HandedOut \subseteq HandedOut' /\ Handed \subseteq Handed'
  BY <1>0, QueueStepForward
<1>2. ASSUME NEW id \in Called
      PROVE  id \in Called'
  <2>1. id \in Ids /\ id \in HandedOut' /\ InTurn(id)
    BY <1>1 DEF Called, HandedOut
  <2>2. ASSUME NEW older \in 1 .. id - 1
        PROVE  ~Waits(older)'
    BY <1>0, <2>1, OlderIds, RowsCloseForGood DEF InTurn
  <2> QED
    BY <2>1, <2>2 DEF Called, InTurn
<1> QED
  BY <1>1, <1>2 DEF CalledCommands

\* A row that comes into being has the lowest id never used.
LEMMA NewRowIsNext ==
    ASSUME QueueTypeOK, QueueSteps, NEW id \in Ids,
           commands[id].state = "absent", commands'[id].state # "absent"
    PROVE  NextId(id)
<1>1. commands'[id] # commands[id] /\ commands \in [Ids -> Rows]
  BY DEF QueueTypeOK
<1>2. ASSUME NEW i \in Ids, NEW type, Insert(i, type)
      PROVE  NextId(id)
  BY <1>1, <1>2 DEF Insert
<1>3. ASSUME NEW i \in Ids, CancelViewerCommand(i) \/ DeleteViewerCommand(i) \/ Lapse(i)
      PROVE  FALSE
  BY <1>1, <1>3 DEF CancelViewerCommand, DeleteViewerCommand, Lapse
<1>4. AfterExpiry[id] = commands[id]
  BY AfterExpiryRows DEF Open
<1>5. ASSUME NEW i \in Ids, DeliverNextViewerCommand(i)
      PROVE  FALSE
  <2>1. i # id
    BY <1>4, <1>5 DEF DeliverNextViewerCommand, Deliverable, Open
  <2> QED
    BY <1>1, <1>4, <1>5, <2>1, AfterExpiryRows DEF DeliverNextViewerCommand
<1>6. ASSUME DeliverNothing
      PROVE  FALSE
  BY <1>1, <1>4, <1>6 DEF DeliverNothing
<1>7. ASSUME NEW i \in HandedOut, NEW result, ApplyViewerCommandResult(i, result)
      PROVE  FALSE
  BY <1>1, <1>7 DEF ApplyViewerCommandResult, HandedOut, Untaken
<1> QED
  BY <1>1, <1>2, <1>3, <1>5, <1>6, <1>7
  DEF QueueSteps, CreateOperatorViewerCommand, EnsureViewerUpdateCommand, queueVars

LEMMA ConsecutiveStep ==
    ASSUME QueueTypeOK, QueueSteps, Consecutive
    PROVE  Consecutive'
<1> SUFFICES ASSUME NEW id \in Ids, commands'[id].state # "absent", NEW older \in 1 .. id - 1
             PROVE  commands'[older].state # "absent"
  BY DEF Consecutive
<1>1. commands[older].state # "absent"
  <2>1. CASE commands[id].state = "absent"
    BY <2>1, NewRowIsNext DEF NextId
  <2>2. CASE commands[id].state # "absent"
    BY <2>2 DEF Consecutive
  <2> QED
    BY <2>1, <2>2
<1> QED
  BY <1>1, OlderIds, RowsCloseForGood

\* The delivery transaction hands out what nothing older waits before.
LEMMA DeliveredInTurn ==
    ASSUME QueueTypeOK, Consecutive, NEW id \in Ids, DeliverNextViewerCommand(id)
    PROVE  /\ id \in Called'
           /\ Waits(id)
<1>1. /\ AfterExpiry \in [Ids -> Rows]
      /\ commands[id].state \in Open /\ AfterExpiry[id] \in Rows
      /\ commands' = [AfterExpiry EXCEPT ![id] = [AfterExpiry[id] EXCEPT !.state = "delivered"]]
  BY AfterExpiryRows DEF DeliverNextViewerCommand, Deliverable, Open
<1>2. commands'[id].state = "delivered"
  BY <1>1 DEF Rows
<1>3. ASSUME NEW older \in 1 .. id - 1
      PROVE  ~Waits(older)'
  <2>1. older \in Ids /\ older < id /\ older # id /\ ~(id <= older)
    BY OlderIds, MaxCommandsAssumption DEF Ids
  <2>2. AfterExpiry[older].state \notin Open
    BY <2>1 DEF DeliverNextViewerCommand, Deliverable
  <2>3. commands[older].state # "absent"
    BY <1>1 DEF Consecutive, Open
  <2>4. AfterExpiry[older].state # "absent"
    BY <2>1, <2>3, AfterExpiryRows
  <2>5. commands'[older] = AfterExpiry[older]
    BY <1>1, <2>1
  <2> QED
    BY <2>2, <2>4, <2>5 DEF Waits
<1>4. id \in HandedOut'
  BY <1>2 DEF HandedOut, Untaken
<1> QED
  BY <1>1, <1>3, <1>4 DEF Called, InTurn, Waits

\* A step as the commands see that are on their way: all of them pass or are
\* lost, one is sent, or one arrives.
Passes ==
    /\ UndeliveringSteps
    /\ sse'.frames \in {sse.frames, <<>>}
    /\ poll' \in {poll, 0}
HandedOver(id) ==
    /\ UNCHANGED queueVars
    /\ \/ UNCHANGED engineVars
       \/ commands[id].type # "update_app" /\ DeliverViewerCommand(CommandOf(id))
FrameSent(id) ==
    /\ DeliverNextViewerCommand(id) /\ UNCHANGED engineVars
    /\ sse'.frames = Append(sse.frames, id) /\ poll' = poll
PollSent(id) ==
    /\ DeliverNextViewerCommand(id) /\ UNCHANGED engineVars
    /\ sse'.frames = sse.frames /\ poll' = id /\ fallback
FrameTaken ==
    /\ sse.frames # <<>> /\ HandedOver(Head(sse.frames))
    /\ sse'.frames = Tail(sse.frames) /\ poll' = poll
PollTaken ==
    /\ poll # 0 /\ HandedOver(poll)
    /\ sse'.frames = sse.frames /\ poll' = 0

Traffic ==
    \/ Passes \/ FrameTaken \/ PollTaken
    \/ \E id \in Ids : FrameSent(id) \/ PollSent(id)

LEMMA StepTraffic ==
    ASSUME TypeOK, [Next]_vars
    PROVE  Traffic
<1>0. sse = [open |-> sse.open, last |-> sse.last, frames |-> sse.frames]
  BY DEF TypeOK
<1>1. CASE \/ OperatorCreates \/ HeartbeatEnsuresUpdate \/ OperatorRevokes
           \/ (\E id \in Ids : TimeToLiveEnds(id))
           \/ UNCHANGED vars
  <2>1. UndeliveringSteps /\ UNCHANGED transportVars
    BY <1>1 DEF OperatorCreates, HeartbeatEnsuresUpdate, OperatorRevokes, TimeToLiveEnds,
                UndeliveringSteps, vars
  <2> QED
    BY <2>1 DEF Traffic, Passes, transportVars
<1>2. CASE \/ LoopStarts \/ SweepBegins \/ LoopRuns \/ LoopRunsUnswept \/ LoopStops
           \/ SSEConnects \/ SSEEnds \/ SSEKeepalive \/ PollLost
           \/ ServiceStarts \/ ServiceStops \/ EngineSteps
  <2>1. UndeliveringSteps
    BY <1>2 DEF LoopStarts, SweepBegins, LoopRuns, LoopRunsUnswept, LoopStops, SSEConnects, SSEEnds,
                SSEKeepalive, PollLost, ServiceStarts, ServiceStops, EngineSteps, UndeliveringSteps
  <2>2. /\ poll' \in {poll, 0}
        /\ sse' \in {sse, ClosedSSE} \/ sse' = [ClosedSSE EXCEPT !.open = TRUE]
    BY <1>2 DEF LoopStarts, SweepBegins, LoopRuns, LoopRunsUnswept, LoopStops, SSEConnects, SSEEnds,
                SSEKeepalive, PollLost, ServiceStarts, ServiceStops, EngineSteps, transportVars,
                CloseTransports
  <2> QED
    BY <2>1, <2>2 DEF Traffic, Passes, ClosedSSE
<1>3. CASE \/ ReportAnswered \/ ReportLost \/ ReportAnswerLost \/ ReportTimesOut
           \/ LateReportArrives
  <2>1. UndeliveringSteps
    <3>1. Accepted(engine.id, ReportOf.result) \in BOOLEAN
      BY DEF Accepted
    <3> QED
      BY <1>3, <3>1 DEF ReportAnswered, ReportLost, ReportAnswerLost, ReportTimesOut,
                        LateReportArrives, UndeliveringSteps
  <2>2. UNCHANGED <<sse, poll>>
    BY <1>3 DEF ReportAnswered, ReportLost, ReportAnswerLost, ReportTimesOut, LateReportArrives,
                transportVars
  <2> QED
    BY <2>1, <2>2 DEF Traffic, Passes
<1>4. CASE SSEWrites
  <2>1. UNCHANGED engineVars /\ poll' = poll
    BY <1>4 DEF SSEWrites
  <2>2. CASE UNCHANGED sse
    BY <2>1, <2>2 DEF Traffic, Passes, UndeliveringSteps
  <2>3. ASSUME NEW id \in Ids, DeliverNextViewerCommand(id),
               sse' = [sse EXCEPT !.last = id,
                                  !.frames = IF id = sse.last THEN @ ELSE Append(@, id)]
        PROVE  Traffic
    <3>1. sse'.frames = IF id = sse.last THEN sse.frames ELSE Append(sse.frames, id)
      BY <1>0, <2>3
    <3> QED
      BY <2>1, <2>3, <3>1 DEF Traffic, Passes, FrameSent, UndeliveringSteps
  <2> QED
    BY <1>4, <2>2, <2>3 DEF SSEWrites
<1>5. CASE PollAnswers
  BY <1>5 DEF PollAnswers, Traffic, Passes, PollSent, UndeliveringSteps
<1>6. ASSUME NEW id, QueueOverflows(id)
      PROVE  Traffic
  BY <1>6 DEF QueueOverflows, CloseTransports, ClosedSSE, Traffic, Passes, UndeliveringSteps
<1>7. ASSUME NEW id, Receives(id)
      PROVE  HandedOver(id)
  BY <1>7 DEF Receives, HandedOver
<1>8. CASE SSEReceives
  <2>1. sse' = [sse EXCEPT !.frames = Tail(@)] => sse'.frames = Tail(sse.frames)
    BY <1>0
  <2> QED
    BY <1>6, <1>7, <1>8, <2>1 DEF SSEReceives, Traffic, FrameTaken
<1>9. CASE PollReceives
  BY <1>6, <1>7, <1>9 DEF PollReceives, Traffic, PollTaken
<1> QED
  BY <1>1, <1>2, <1>3, <1>4, <1>5, <1>8, <1>9 DEF Next

LEMMA HandedOverActsOn ==
    ASSUME ControlInv, TurnInv, NEW id \in Called, HandedOver(id)
    PROVE  ActsOnNext(CalledCommands)
<1>1. ASSUME commands[id].type # "update_app", DeliverViewerCommand(CommandOf(id))
      PROVE  ActsOnNext(CalledCommands)
  <2>1. CommandOf(id) \in Handed /\ CommandOf(id).id = id
    BY <1>1, CommandOfHanded DEF Called, CommandOf
  <2>2. CommandOf(id) \in CalledCommands
    BY <2>1 DEF CalledCommands
  <2> QED
    BY <1>1, <2>2, DeliveryActsOn DEF TurnInv
<1>2. CASE UNCHANGED engineVars
  <2>1. UNCHANGED <<durable, executions, queue, engine>>
    BY <1>2 DEF engineVars, durable
  <2> QED
    BY <2>1, StillAbout DEF ActsOn, ActsOnNext, TurnInv
<1> QED
  BY <1>1, <1>2 DEF HandedOver

LEMMA TurnInit == Init => TurnInv
<1> SUFFICES ASSUME Init PROVE TurnInv
  OBVIOUS
<1>1. \A id \in Ids : commands[id].state = "absent"
  BY DEF Init, QueueInit, AbsentRow
<1>2. /\ queue = <<>> /\ engine.pc = "idle"
      /\ \A id \in Ids : journal[id].state = "absent" /\ ~(executions[id] > 0) /\ id \notin pruned
  BY NoRecordFields DEF Init, EngineInit, IdleEngine
<1>3. ActsOn(CalledCommands)
  BY <1>2 DEF ActsOn, About
<1>4. sse.frames = <<>> /\ poll = 0
  BY DEF Init, ClosedSSE
<1> QED
  BY <1>1, <1>3, <1>4 DEF TurnInv, Consecutive

LEMMA TurnStep ==
    ASSUME ControlInv, TurnInv, [Next]_vars
    PROVE  TurnInv'
<1>0. /\ QueueTypeOK /\ QueueSteps /\ Traffic /\ OutcomeInv
      /\ Called \subseteq Called' /\ CalledCommands \subseteq CalledCommands'
  BY ControlStep, StepTraffic, CalledGrows DEF ControlInv, TypeOK
<1>1. Consecutive'
  BY <1>0, ConsecutiveStep DEF TurnInv
<1>2. sse.frames \in Seq(Called') /\ poll \in Called' \cup {0}
  BY <1>0, SeqWider DEF TurnInv
<1>3. WellFormed(CalledCommands) /\ ActsOn(CalledCommands)
  BY HandedWellFormed DEF TurnInv, CalledCommands, WellFormed
<1>4. ASSUME UndeliveringSteps
      PROVE  ActsOnNext(CalledCommands)
  BY <1>0, <1>3, <1>4, EngineNextActsOn DEF UndeliveringSteps
<1>5. ASSUME NEW id \in Ids, FrameSent(id) \/ PollSent(id)
      PROVE  id \in Called' /\ UndeliveringSteps
  BY <1>0, <1>5, DeliveredInTurn DEF FrameSent, PollSent, TurnInv, UndeliveringSteps
<1>6. sse'.frames \in Seq(Called') /\ poll' \in Called' \cup {0}
  <2>1. ASSUME NEW id \in Ids, FrameSent(id) \/ PollSent(id)
        PROVE  sse'.frames \in Seq(Called') /\ poll' \in Called' \cup {0}
    <3>1. id \in Called'
      BY <1>5, <2>1
    <3> QED
      BY <1>2, <2>1, <3>1 DEF FrameSent, PollSent
  <2>2. CASE FrameTaken
    BY <1>2, <2>2 DEF FrameTaken
  <2>3. CASE Passes
    <3>1. <<>> \in Seq(Called')
      OBVIOUS
    <3> QED
      BY <1>2, <2>3, <3>1 DEF Passes
  <2>4. CASE PollTaken
    BY <1>2, <2>4 DEF PollTaken
  <2> QED
    BY <1>0, <2>1, <2>2, <2>3, <2>4 DEF Traffic
<1>7. ActsOnNext(CalledCommands)
  <2>1. CASE FrameTaken
    <3>1. Head(sse.frames) \in Called /\ HandedOver(Head(sse.frames))
      BY <2>1 DEF FrameTaken, TurnInv
    <3> QED
      BY <3>1, HandedOverActsOn
  <2>2. CASE PollTaken
    <3>1. poll \in Called /\ HandedOver(poll)
      BY <2>2 DEF PollTaken, TurnInv
    <3> QED
      BY <3>1, HandedOverActsOn
  <2> QED
    BY <1>0, <1>4, <1>5, <2>1, <2>2 DEF Traffic, Passes
<1>8. ActsOn(CalledCommands)'
  <2>1. ActsOnNext(CalledCommands')
    BY <1>0, <1>7, ActsOnWider
  <2> QED
    BY <2>1 DEF ActsOn, ActsOnNext
<1> QED
  BY <1>1, <1>6, <1>8 DEF TurnInv

\* From the save that accepts a command to its effect.
Acting == {"acknowledging", "starting", "announcing", "executing"}
Ahead(id) == executions[id] > 0 \/ (engine.pc \in Acting /\ engine.id = id)

\* A command that acts has nothing behind it in effect.
LeadInv ==
    engine.pc \in Acting => \A later \in Ids : later > engine.id => executions[later] = 0

\* So it must be of the next command the worker takes and accepts.
NextLeads ==
    LET next == Head(queue).id
    IN  queue # <<>> /\ ~HasRecord(next) /\ next \notin viewerLapsed =>
            \A later \in Ids : later > next => executions[later] = 0

\* A step as the effects see it: it comes to nothing, it goes on with the command
\* that acts, the worker takes the next one, or an effect begins.
Rests ==
    UNCHANGED executions /\ queue' \in {queue, <<>>} /\ engine'.pc \notin Acting
GoesOn ==
    /\ UNCHANGED <<executions, queue>>
    /\ engine.pc \in Acting /\ engine'.pc \in Acting /\ engine'.id = engine.id
TakesNext ==
    /\ queue # <<>>
    /\ UNCHANGED executions /\ queue' = Tail(queue)
    /\ engine'.pc \in Acting =>
          /\ engine'.id = Head(queue).id
          /\ ~HasRecord(Head(queue).id) /\ Head(queue).id \notin viewerLapsed
Begins ==
    /\ engine.pc = "executing" /\ engine'.pc = "running"
    /\ UNCHANGED queue
    /\ \A id \in Ids : executions'[id] = executions[id] \/ id = engine.id

LEMMA TakingMoves ==
    ASSUME NEW command, Handle(command)
    PROVE  TakesNext
<1>1. /\ queue # <<>> /\ command = Head(queue)
      /\ UNCHANGED executions /\ queue' = Tail(queue)
  BY DEF Handle, HandleUnsupported, HandleUnreadable, HandleChanged, HandleTerminal,
         HandleRestarted, HandleInProgress, HandleExpired, HandleAccept, TakesDuplicate,
         TakesKnown, TakesNew, Takes
<1>2. HandleAccept(command) \/ engine'.pc \notin Acting
  <2>1. ASSUME NEW pc \in {"answering", "reporting", "finishing"}, NEW r,
               engine' = At(pc, command.id, r)
        PROVE  engine'.pc \notin Acting
    BY <2>1 DEF At, Acting
  <2>2. engine' = IdleEngine => engine'.pc \notin Acting
    BY DEF IdleEngine, Acting
  <2>3. CASE HandleUnsupported(command) \/ HandleUnreadable(command) \/ HandleChanged(command)
    BY <2>1, <2>3 DEF HandleUnsupported, HandleUnreadable, HandleChanged
  <2>4. CASE HandleTerminal(command)
    BY <2>1, <2>2, <2>4 DEF HandleTerminal, ReportTerminal
  <2>5. CASE HandleRestarted(command)
    BY <2>1, <2>5 DEF HandleRestarted
  <2>6. CASE HandleInProgress(command)
    BY <2>1, <2>6 DEF HandleInProgress
  <2>7. CASE HandleExpired(command)
    BY <2>1, <2>2, <2>7 DEF HandleExpired
  <2> QED
    BY <2>3, <2>4, <2>5, <2>6, <2>7 DEF Handle
<1>3. HandleAccept(command) =>
        /\ engine'.pc \in Acting => engine'.id = command.id
        /\ ~HasRecord(command.id) /\ command.id \notin viewerLapsed
  BY DEF HandleAccept, TakesNew, At, Acting
<1> QED
  BY <1>1, <1>2, <1>3 DEF TakesNext

LEMMA EffectMoves ==
    ASSUME EngineTypeOK, UndeliveringSteps
    PROVE  Rests \/ GoesOn \/ TakesNext \/ Begins
<1>0. engine.pc # "idle" => engine = [pc |-> engine.pc, id |-> engine.id, record |-> engine.record]
  BY DEF EngineTypeOK, Engines, IdleEngine
<1>1. ASSUME NEW command, Handle(command)
      PROVE  TakesNext
  BY <1>1, TakingMoves
<1>2. CASE SaveRunning
  BY <1>2 DEF SaveRunning, At, Held, Acting, GoesOn, Rests
<1>3. CASE ExecuteRefused \/ ExecuteEnd \/ ExecuteFails \/ Finish \/ Confirm
  <2>1. UNCHANGED <<executions, queue>>
    BY <1>3 DEF ExecuteRefused, ExecuteEnd, ExecuteFails, Finish, Confirm, Held
  <2>2. \/ engine' = IdleEngine
        \/ \E pc \in {"reporting", "finishing"} : \E r : engine' = At(pc, engine.id, r)
    BY <1>3 DEF ExecuteRefused, ExecuteEnd, ExecuteFails, Finish, Confirm
  <2> QED
    BY <2>1, <2>2 DEF At, IdleEngine, Acting, Rests
<1>4. CASE ExecuteBegin
  BY <1>0, <1>4 DEF ExecuteBegin, Held, Begins, EngineTypeOK
<1>5. ASSUME NEW id \in Ids, ReconcileStale(id) \/ ReconcileOther(id)
      PROVE  Rests
  BY <1>5 DEF ReconcileStale, ReconcileOther, Visits, ReportTerminal, At, IdleEngine, Acting, Rests
<1>6. ASSUME NEW ok \in BOOLEAN, Report(ok)
      PROVE  Rests \/ GoesOn
  BY <1>0, <1>6 DEF Report, Held, IdleEngine, Acting, Rests, GoesOn
<1>7. CASE Stop
  BY <1>7 DEF Stop, IdleEngine, Acting, Rests
<1>8. CASE \/ ReconcileBegin \/ ReconcileEnd \/ Start \/ (\E id \in Ids : ViewerLapse(id))
           \/ UNCHANGED engineVars
  <2>1. UNCHANGED <<engine, executions, queue>>
    BY <1>8 DEF ReconcileBegin, ReconcileEnd, Start, ViewerLapse, engineVars
  <2> QED
    BY <2>1 DEF Rests, GoesOn
<1> QED
  BY <1>1, <1>2, <1>3, <1>4, <1>5, <1>6, <1>7, <1>8 DEF UndeliveringSteps, EngineStep

\* Any step, as the effects see it.
LEMMA StepEffects ==
    ASSUME TypeOK, [Next]_vars
    PROVE  \/ Rests \/ GoesOn \/ TakesNext \/ Begins
           \/ UNCHANGED <<executions, engine>>
<1>1. Traffic /\ EngineTypeOK
  BY StepTraffic DEF TypeOK
<1>2. ASSUME NEW id, HandedOver(id)
      PROVE  UNCHANGED <<executions, engine>>
  BY <1>2 DEF HandedOver, DeliverViewerCommand, engineVars
<1> QED
  BY <1>1, <1>2, EffectMoves DEF Traffic, Passes, FrameTaken, PollTaken, FrameSent, PollSent, engineVars

LEMMA LeadStep ==
    ASSUME TypeOK, NextLeads, LeadInv, [Next]_vars
    PROVE  LeadInv' /\ [\A id \in Ids : executions'[id] > executions[id] =>
                            \A later \in Ids : later > id => executions[later] = 0]_executions
<1>1. /\ \A id \in Ids : executions[id] \in Nat
  BY DEF TypeOK, EngineTypeOK, ExecutionCap
<1>2. CASE Rests \/ GoesOn \/ UNCHANGED <<executions, engine>>
  BY <1>2 DEF Rests, GoesOn, LeadInv
<1>3. CASE TakesNext
  BY <1>3 DEF TakesNext, NextLeads, LeadInv
<1>4. CASE Begins
  <2>1. LeadInv'
    BY <1>4 DEF Begins, LeadInv, Acting
  <2>2. ASSUME NEW id \in Ids, executions'[id] > executions[id]
        PROVE  \A later \in Ids : later > id => executions[later] = 0
    <3>1. id = engine.id /\ engine.pc \in Acting
      BY <1>1, <1>4, <2>2 DEF Begins, Acting
    <3> QED
      BY <3>1 DEF LeadInv
  <2> QED
    BY <2>1, <2>2
<1> QED
  BY <1>2, <1>3, <1>4, StepEffects

\* The first reason: one line.  Without the poll fallback the stream and the
\* Service's queue are one line, in the order of ids, and what is ahead of it was
\* called before.
LineInv ==
    /\ ~fallback /\ poll = 0
    /\ \A i, j \in 1 .. Len(queue) : i <= j => queue[i].id <= queue[j].id
    /\ \A i, j \in 1 .. Len(sse.frames) : i <= j => sse.frames[i] <= sse.frames[j]
    /\ \A i \in 1 .. Len(queue), j \in 1 .. Len(sse.frames) : queue[i].id <= sse.frames[j]
    /\ \A id \in Ids : Ahead(id) =>
          /\ \A i \in 1 .. Len(queue) : id <= queue[i].id
          /\ \A j \in 1 .. Len(sse.frames) : id <= sse.frames[j]

LEMMA CalledIds ==
    ASSUME ControlInv, TurnInv
    PROVE  /\ Called \subseteq Ids
           /\ \A i \in 1 .. Len(queue) : queue[i].id \in Called
           /\ \A i \in 1 .. Len(sse.frames) : sse.frames[i] \in Called
           /\ \A id \in Ids : Ahead(id) => id \in Called
<1>1. \A c \in CalledCommands : c.id \in Called
  BY DEF CalledCommands
<1>2. \A id : Has(CalledCommands, id) => id \in Called
  BY <1>1 DEF Has
<1>3. ActsOn(CalledCommands) /\ sse.frames \in Seq(Called)
  BY DEF TurnInv
<1>4. engine.pc \in Acting => engine.id \in Called
  <2>1. engine.pc \in Acting => Known(engine.id, engine.record.type) \in CalledCommands
    BY <1>3 DEF ActsOn, Acting
  <2> QED
    BY <1>1, <2>1 DEF Known
<1>5. \A i \in 1 .. Len(queue) : queue[i] \in CalledCommands
  BY <1>3 DEF ActsOn
<1> QED
  BY <1>1, <1>2, <1>3, <1>4, <1>5 DEF Ahead, ActsOn, Called, HandedOut

\* What is sent next comes after all that was called.
LEMMA SentIsLast ==
    ASSUME ControlInv, TurnInv, NEW id \in Ids, DeliverNextViewerCommand(id), NEW earlier \in Called
    PROVE  earlier <= id
<1>1. Waits(id)
  BY DeliveredInTurn DEF ControlInv, TypeOK, TurnInv
<1>2. earlier \in Ids /\ InTurn(earlier)
  BY DEF Called, HandedOut
<1>3. id \notin 1 .. earlier - 1
  BY <1>1, <1>2 DEF InTurn
<1> QED
  BY <1>2, <1>3, MaxCommandsAssumption DEF Ids

LEMMA LineLeads == ControlInv /\ LineInv => NextLeads
<1> SUFFICES ASSUME ControlInv, LineInv, queue # <<>>, NEW later \in Ids, later > Head(queue).id
             PROVE  executions[later] = 0
  BY DEF NextLeads
<1>1. /\ queue \in Seq(Commands) /\ executions[later] \in Nat
      /\ \A c \in Commands : c.id \in Ids
  BY DEF ControlInv, TypeOK, EngineTypeOK, ExecutionCap, Commands
<1>2. 1 \in 1 .. Len(queue) /\ queue[1] = Head(queue) /\ Head(queue) \in Commands
  BY <1>1
<1>3. ~(later <= queue[1].id)
  BY <1>1, <1>2, MaxCommandsAssumption DEF Ids
<1> QED
  BY <1>1, <1>2, <1>3 DEF LineInv, Ahead

LEMMA LineStep ==
    ASSUME ~PollFallback, ControlInv, TurnInv, LineInv, [Next]_vars
    PROVE  LineInv'
<1> DEFINE frames == sse.frames
<1>0. /\ TypeOK /\ Traffic /\ queue \in Seq(Commands) /\ frames \in Seq(Ids)
      /\ \A id \in Ids : executions[id] \in Nat
  BY StepTraffic DEF ControlInv, TypeOK, EngineTypeOK, ExecutionCap
<1>1. ~fallback'
  <2>1. fallback' \in {fallback, FALSE, PollFallback}
    BY DEF Next, OperatorCreates, HeartbeatEnsuresUpdate, OperatorRevokes, TimeToLiveEnds,
           LoopStarts, SweepBegins, LoopRuns, LoopRunsUnswept, LoopStops, SSEConnects, SSEWrites,
           SSEEnds, SSEReceives, SSEKeepalive, PollAnswers, PollLost, PollReceives, QueueOverflows,
           CloseTransports, ReportAnswered, ReportLost, ReportAnswerLost, ReportTimesOut,
           LateReportArrives, ServiceStarts, ServiceStops, EngineSteps, transportVars, vars
  <2> QED
    BY <2>1 DEF LineInv
<1>2. \A i \in 1 .. Len(queue) : queue[i].id \in Nat
  <2>1. \A c \in Commands : c.id \in Nat
    BY MaxCommandsAssumption DEF Commands, Ids
  <2>2. \A i \in 1 .. Len(queue) : queue[i] \in Commands
    BY <1>0
  <2> QED
    BY <2>1, <2>2
<1>3. \A j \in 1 .. Len(frames) : frames[j] \in Nat
  BY <1>0, MaxCommandsAssumption DEF Ids
<1>4. ASSUME Passes
      PROVE  LineInv'
  <2>0. /\ frames' \in {frames, <<>>} /\ poll' = 0
        /\ Rests \/ GoesOn \/ TakesNext \/ Begins
    BY <1>0, <1>4, EffectMoves DEF Passes, LineInv, TypeOK
  <2>1. ASSUME queue' \in {queue, <<>>}, \A id \in Ids : Ahead(id)' => Ahead(id)
        PROVE  LineInv'
    BY <1>1, <2>0, <2>1 DEF LineInv
  <2>2. CASE Rests \/ GoesOn \/ Begins
    <3>1. queue' \in {queue, <<>>}
      BY <2>2 DEF Rests, GoesOn, Begins
    <3>2. ASSUME NEW id \in Ids, Ahead(id)'
          PROVE  Ahead(id)
      BY <2>2, <3>2 DEF Ahead, Rests, GoesOn, Begins, Acting
    <3> QED
      BY <2>1, <3>1, <3>2
  <2>3. CASE TakesNext
    <3>1. /\ queue # <<>> /\ queue' = Tail(queue)
          /\ 1 \in 1 .. Len(queue) /\ queue[1] = Head(queue)
      BY <1>0, <2>3 DEF TakesNext
    <3>2. /\ Len(queue') = Len(queue) - 1
          /\ \A i \in 1 .. Len(queue') : i + 1 \in 1 .. Len(queue) /\ queue'[i] = queue[i + 1]
      BY <1>0, <3>1
    <3>3. ASSUME NEW id \in Ids, Ahead(id)'
          PROVE  Ahead(id) \/ id = queue[1].id
      BY <2>3, <3>1, <3>3 DEF Ahead, TakesNext
    <3>4. \A i, j \in 1 .. Len(queue') : i <= j => queue'[i].id <= queue'[j].id
      BY <1>0, <3>2 DEF LineInv
    <3>5. \A i, j \in 1 .. Len(frames') : i <= j => frames'[i] <= frames'[j]
      BY <2>0 DEF LineInv
    <3>6. \A i \in 1 .. Len(queue'), j \in 1 .. Len(frames') : queue'[i].id <= frames'[j]
      BY <2>0, <3>2 DEF LineInv
    <3>7. ASSUME NEW id \in Ids, Ahead(id)'
          PROVE  /\ \A i \in 1 .. Len(queue') : id <= queue'[i].id
                 /\ \A j \in 1 .. Len(frames') : id <= frames'[j]
      <4>1. CASE Ahead(id)
        BY <2>0, <3>2, <4>1 DEF LineInv
      <4>2. CASE id = queue[1].id
        <5>1. \A i \in 1 .. Len(queue') : queue[1].id <= queue[i + 1].id
          BY <1>0, <3>1, <3>2 DEF LineInv
        <5> QED
          BY <2>0, <3>1, <3>2, <4>2, <5>1 DEF LineInv
      <4> QED
        BY <3>3, <3>7, <4>1, <4>2
    <3> QED
      BY <1>1, <2>0, <3>4, <3>5, <3>6, <3>7 DEF LineInv
  <2> QED
    BY <2>0, <2>2, <2>3
<1>5. ASSUME NEW id \in Ids, FrameSent(id)
      PROVE  LineInv'
  <2>0. /\ frames' = Append(frames, id) /\ poll' = 0
        /\ UNCHANGED <<engine, executions, queue>>
    BY <1>5 DEF FrameSent, LineInv, engineVars
  <2>1. \A earlier \in Called : earlier <= id
    BY <1>5, SentIsLast DEF FrameSent
  <2>2. /\ Len(frames') = Len(frames) + 1 /\ frames'[Len(frames) + 1] = id
        /\ \A j \in 1 .. Len(frames) : frames'[j] = frames[j]
    BY <1>0, <2>0
  <2>3. \A j \in 1 .. Len(frames') : j \in 1 .. Len(frames) \/ j = Len(frames) + 1
    BY <1>0, <2>2
  <2>4. \A i, j \in 1 .. Len(frames') : i <= j => frames'[i] <= frames'[j]
    <3> SUFFICES ASSUME NEW i \in 1 .. Len(frames'), NEW j \in 1 .. Len(frames'), i <= j
                 PROVE  frames'[i] <= frames'[j]
      OBVIOUS
    <3>1. CASE j \in 1 .. Len(frames)
      <4>1. i \in 1 .. Len(frames)
        BY <1>0, <2>3, <3>1
      <4> QED
        BY <2>2, <3>1, <4>1 DEF LineInv
    <3>2. CASE j = Len(frames) + 1
      <4>1. CASE i \in 1 .. Len(frames)
        BY <2>1, <2>2, <3>2, <4>1, CalledIds
      <4>2. CASE i = Len(frames) + 1
        <5>1. id <= id
          BY MaxCommandsAssumption DEF Ids
        <5> QED
          BY <2>2, <3>2, <4>2, <5>1
      <4> QED
        BY <2>3, <4>1, <4>2
    <3> QED
      BY <2>3, <3>1, <3>2
  <2>5. \A i \in 1 .. Len(queue'), j \in 1 .. Len(frames') : queue'[i].id <= frames'[j]
    BY <2>0, <2>1, <2>2, <2>3, CalledIds DEF LineInv
  <2>6. ASSUME NEW a \in Ids, Ahead(a)'
        PROVE  /\ \A i \in 1 .. Len(queue') : a <= queue'[i].id
               /\ \A j \in 1 .. Len(frames') : a <= frames'[j]
    <3>1. Ahead(a) /\ a <= id
      BY <2>0, <2>1, <2>6, CalledIds DEF Ahead
    <3> QED
      BY <2>0, <2>2, <2>3, <3>1 DEF LineInv
  <2>7. \A i, j \in 1 .. Len(queue') : i <= j => queue'[i].id <= queue'[j].id
    BY <2>0 DEF LineInv
  <2> QED
    BY <1>1, <2>0, <2>4, <2>5, <2>6, <2>7 DEF LineInv
<1>6. CASE FrameTaken
  <2> DEFINE id == Head(frames)
  <2>0. /\ frames # <<>> /\ frames' = Tail(frames) /\ poll' = 0
        /\ UNCHANGED <<engine, executions>>
        /\ queue' = queue \/ queue' = Append(queue, CommandOf(id))
    BY <1>6 DEF FrameTaken, HandedOver, LineInv, DeliverViewerCommand, engineVars
  <2>1. CommandOf(id).id = id /\ id = frames[1] /\ 1 \in 1 .. Len(frames) /\ id \in Ids
    BY <1>0, <2>0 DEF CommandOf
  <2>2. /\ Len(frames') = Len(frames) - 1
        /\ \A j \in 1 .. Len(frames') : j + 1 \in 1 .. Len(frames) /\ frames'[j] = frames[j + 1]
    BY <1>0, <2>0
  <2>3. ASSUME NEW i \in 1 .. Len(queue')
        PROVE  \/ i \in 1 .. Len(queue) /\ queue'[i] = queue[i]
               \/ i = Len(queue) + 1 /\ queue'[i].id = id
    <3>1. CASE queue' = queue
      BY <3>1
    <3>2. CASE queue' = Append(queue, CommandOf(id))
      <4>1. \/ i \in 1 .. Len(queue) /\ queue'[i] = queue[i]
            \/ i = Len(queue) + 1 /\ queue'[i] = CommandOf(id)
        BY <1>0, <3>2
      <4> QED
        BY <2>1, <4>1
    <3> QED
      BY <2>0, <3>1, <3>2
  <2> HIDE DEF id
  <2>4. \A i, j \in 1 .. Len(queue') : i <= j => queue'[i].id <= queue'[j].id
    <3> SUFFICES ASSUME NEW i \in 1 .. Len(queue'), NEW j \in 1 .. Len(queue'), i <= j
                 PROVE  queue'[i].id <= queue'[j].id
      OBVIOUS
    <3>1. CASE j \in 1 .. Len(queue) /\ queue'[j] = queue[j]
      <4>1. i \in 1 .. Len(queue) /\ queue'[i] = queue[i]
        BY <1>0, <2>3, <3>1
      <4> QED
        BY <3>1, <4>1 DEF LineInv
    <3>2. CASE j = Len(queue) + 1 /\ queue'[j].id = id
      <4>1. CASE i \in 1 .. Len(queue) /\ queue'[i] = queue[i]
        BY <2>1, <3>2, <4>1 DEF LineInv
      <4>2. CASE queue'[i].id = id
        BY <2>1, <3>2, <4>2, MaxCommandsAssumption DEF Ids
      <4> QED
        BY <2>3, <4>1, <4>2
    <3> QED
      BY <2>3, <3>1, <3>2
  <2>5. \A i, j \in 1 .. Len(frames') : i <= j => frames'[i] <= frames'[j]
    BY <1>0, <2>2 DEF LineInv
  <2>6. \A i \in 1 .. Len(queue'), j \in 1 .. Len(frames') : queue'[i].id <= frames'[j]
    <3> SUFFICES ASSUME NEW i \in 1 .. Len(queue'), NEW j \in 1 .. Len(frames')
                 PROVE  queue'[i].id <= frames[j + 1]
      BY <2>2
    <3>1. j + 1 \in 1 .. Len(frames) /\ 1 <= j + 1
      BY <1>0, <2>2
    <3>2. id <= frames[j + 1]
      BY <2>1, <3>1 DEF LineInv
    <3> QED
      BY <2>3, <3>1, <3>2 DEF LineInv
  <2>7. ASSUME NEW a \in Ids, Ahead(a)'
        PROVE  /\ \A i \in 1 .. Len(queue') : a <= queue'[i].id
               /\ \A j \in 1 .. Len(frames') : a <= frames'[j]
    <3>1. Ahead(a)
      BY <2>0, <2>7 DEF Ahead
    <3>2. a <= id
      BY <2>1, <3>1 DEF LineInv
    <3> QED
      BY <2>2, <2>3, <3>1, <3>2 DEF LineInv
  <2> QED
    BY <1>1, <2>0, <2>4, <2>5, <2>6, <2>7 DEF LineInv
<1>7. ~PollTaken /\ \A id : ~PollSent(id)
  BY DEF PollTaken, PollSent, LineInv
<1> QED
  BY <1>0, <1>4, <1>5, <1>6, <1>7 DEF Traffic

LEMMA LineInit == Init => LineInv
<1> SUFFICES ASSUME Init PROVE LineInv
  OBVIOUS
<1>1. queue = <<>> /\ engine.pc = "idle" /\ \A id \in Ids : executions[id] = 0
  BY DEF Init, EngineInit, IdleEngine
<1>2. sse.frames = <<>> /\ ~fallback /\ poll = 0
  BY DEF Init, ClosedSSE
<1> QED
  BY <1>1, <1>2 DEF LineInv

\* The second reason: while the clocks agree, storage works and the journal holds
\* every command there ever was, what the worker takes is still to be handed out
\* by the server, unless it is recorded or has expired; and while it is, nothing
\* after it is handed out.
Recorded == engine.pc # "idle" => HasRecord(engine.id)
BarredInv ==
    /\ serverLapsed \subseteq viewerLapsed
    /\ Recorded
    /\ \A report \in late : HasRecord(report.id)
    /\ \A id \in Ids :
          commands[id].state \in ResultStates => HasRecord(id) \/ id \in viewerLapsed

KeepsRecords == \A id \in Ids : HasRecord(id) => HasRecord(id)'

LEMMA SaveKeepsRecords ==
    ASSUME MaxCommands <= MaxRetained, EngineTypeOK,
           NEW k \in Ids, NEW r, r.state # "absent",
           \/ SavePruned([journal EXCEPT ![k] = r])
           \/ journal' = [journal EXCEPT ![k] = r]
           \/ journal' = [Remembered EXCEPT ![k] = r]
    PROVE  KeepsRecords /\ HasRecord(k)'
<1>1. CASE journal' = [journal EXCEPT ![k] = r]
  BY <1>1 DEF EngineTypeOK, KeepsRecords, HasRecord
<1>2. CASE SavePruned([journal EXCEPT ![k] = r])
  <2>1. \A id \in Ids : journal'[id] = [journal EXCEPT ![k] = r][id]
    BY <1>2, NothingToPrune DEF SavePruned
  <2> QED
    BY <2>1 DEF EngineTypeOK, KeepsRecords, HasRecord
<1>3. CASE journal' = [Remembered EXCEPT ![k] = r]
  <2>1. Remembered \in [Ids -> Records] /\ \A id \in Ids : Remembered[id].state = journal[id].state
    BY RememberedType DEF EngineTypeOK
  <2>2. \A id \in Ids \ {k} : journal'[id] = Remembered[id]
    BY <1>3, <2>1
  <2>3. journal'[k] = r
    BY <1>3, <2>1
  <2> QED
    BY <2>1, <2>2, <2>3 DEF KeepsRecords, HasRecord
<1> QED
  BY <1>1, <1>2, <1>3

LEMMA HandleKeepsRecords ==
    ASSUME MaxCommands <= MaxRetained, ~StorageMayFail, EngineTypeOK, NEW command \in Commands,
           command.type \in SupportedTypes, Handle(command)
    PROVE  KeepsRecords /\ Recorded'
<1> DEFINE id == command.id
<1>0. id \in Ids /\ ~StorageFails
  BY DEF Commands, StorageFails
<1>1. ASSUME UNCHANGED durable, HasRecord(id),
             engine' = IdleEngine \/ \E pc \in EnginePcs : \E r : engine' = At(pc, id, r)
      PROVE  KeepsRecords /\ Recorded'
  <2>1. journal' = journal
    BY <1>1 DEF durable
  <2>2. engine'.pc = "idle" \/ engine'.id = id
    BY <1>1 DEF At, IdleEngine
  <2> QED
    BY <1>1, <2>1, <2>2 DEF KeepsRecords, Recorded, HasRecord
<1>2. ASSUME NEW r, r.state # "absent", SavePruned([journal EXCEPT ![id] = r]),
             NEW pc \in EnginePcs, engine' = At(pc, id, r)
      PROVE  KeepsRecords /\ Recorded'
  <2>1. KeepsRecords /\ HasRecord(id)'
    BY <1>0, <1>2, SaveKeepsRecords
  <2>2. engine'.id = id
    BY <1>2 DEF At
  <2> QED
    BY <2>1, <2>2 DEF Recorded, HasRecord
<1>3. CASE \/ HandleChanged(command) \/ HandleTerminal(command)
           \/ HandleRestarted(command) \/ HandleInProgress(command)
  <2>1. UNCHANGED durable /\ HasRecord(id)
    BY <1>3 DEF HandleChanged, HandleTerminal, HandleRestarted, HandleInProgress,
                TakesDuplicate, TakesKnown
  <2>2. engine' = IdleEngine \/ \E pc \in EnginePcs : \E r : engine' = At(pc, id, r)
    BY <1>3 DEF HandleChanged, HandleTerminal, HandleRestarted, HandleInProgress, ReportTerminal,
                EnginePcs
  <2> QED
    BY <1>1, <2>1, <2>2
<1>4. CASE HandleExpired(command)
  <2>1. ExpiredRecord(command).state # "absent"
    BY ExpiredRecordType DEF EngineTypeOK
  <2>2. /\ SavePruned([journal EXCEPT ![id] = ExpiredRecord(command)])
        /\ engine' = At("reporting", id, ExpiredRecord(command))
    BY <1>0, <1>4 DEF HandleExpired
  <2> QED
    BY <1>2, <2>1, <2>2 DEF EnginePcs
<1>5. CASE HandleAccept(command)
  <2>1. AcceptedRecord(command).state # "absent"
    BY AcceptedRecordType DEF EngineTypeOK
  <2>2. /\ SavePruned([journal EXCEPT ![id] = AcceptedRecord(command)])
        /\ engine' = At("acknowledging", id, AcceptedRecord(command))
    BY <1>0, <1>5 DEF HandleAccept
  <2> QED
    BY <1>2, <2>1, <2>2 DEF EnginePcs
<1>6. ~HandleUnsupported(command) /\ ~HandleUnreadable(command)
  BY <1>0 DEF HandleUnsupported, HandleUnreadable
<1> QED
  BY <1>3, <1>4, <1>5, <1>6 DEF Handle

LEMMA EngineKeepsRecords ==
    ASSUME MaxCommands <= MaxRetained, ~StorageMayFail, OutcomeInv, ActsOn(Handed), Recorded,
           UndeliveringSteps
    PROVE  KeepsRecords /\ Recorded'
<1> DEFINE id == engine.id
<1>0. /\ EngineTypeOK /\ PlaceInv /\ ~StorageFails
      /\ engine.pc # "idle" =>
           /\ engine = [pc |-> engine.pc, id |-> engine.id, record |-> engine.record]
           /\ engine.record \in Records /\ id \in Ids
  BY DEF OutcomeInv, IInv, EngineTypeOK, Engines, IdleEngine, StorageFails
<1>1. ASSUME UNCHANGED journal,
             \/ engine'.pc = "idle" \/ engine' = engine
             \/ engine.pc # "idle" /\ engine'.id = id
      PROVE  KeepsRecords /\ Recorded'
  BY <1>1 DEF KeepsRecords, Recorded, HasRecord
<1>2. ASSUME NEW k \in Ids, NEW r, r.state # "absent",
             \/ SavePruned([journal EXCEPT ![k] = r])
             \/ journal' = [journal EXCEPT ![k] = r]
             \/ journal' = [Remembered EXCEPT ![k] = r],
             engine'.pc = "idle" \/ engine'.id = k
      PROVE  KeepsRecords /\ Recorded'
  <2>1. KeepsRecords /\ HasRecord(k)'
    BY <1>0, <1>2, SaveKeepsRecords
  <2> QED
    BY <1>2, <2>1 DEF Recorded, HasRecord
<1>3. ASSUME NEW command \in Commands, Handle(command)
      PROVE  KeepsRecords /\ Recorded'
  <2>1. command.type \in SupportedTypes
    <3>1. queue # <<>> /\ command = Head(queue)
      BY <1>3 DEF Handle, HandleUnsupported, HandleUnreadable, HandleChanged, HandleTerminal,
                  HandleRestarted, HandleInProgress, HandleExpired, HandleAccept, TakesDuplicate,
                  TakesKnown, TakesNew, Takes
    <3>2. command \in Handed
      BY <3>1 DEF ActsOn
    <3> QED
      BY <3>2, HandedWellFormed DEF WellFormed
  <2> QED
    BY <1>0, <1>3, <2>1, HandleKeepsRecords
<1>4. CASE SaveRunning
  <2> DEFINE r == [engine.record EXCEPT !.state = "running"]
  <2>1. /\ engine.pc # "idle" /\ journal' = [journal EXCEPT ![id] = r]
        /\ engine' = At("announcing", id, r)
    BY <1>0, <1>4 DEF SaveRunning, SaveJournal
  <2>2. r.state # "absent" /\ engine'.id = id
    BY <1>0, <2>1 DEF At, Records
  <2> HIDE DEF r
  <2> QED
    BY <1>0, <1>2, <2>1, <2>2
<1>5. CASE ExecuteRefused \/ ExecuteEnd \/ ExecuteFails
  <2>1. /\ UNCHANGED journal /\ engine.pc # "idle"
        /\ engine' = IdleEngine \/ \E r : engine' = At("finishing", id, r)
    BY <1>5 DEF ExecuteRefused, ExecuteEnd, ExecuteFails, durable
  <2>2. engine'.pc = "idle" \/ engine'.id = id
    BY <2>1 DEF At, IdleEngine
  <2> QED
    BY <1>1, <2>1, <2>2
<1>6. CASE ExecuteBegin
  <2>1. UNCHANGED journal /\ engine.pc # "idle" /\ engine'.id = id
    BY <1>0, <1>6 DEF ExecuteBegin, durable
  <2> QED
    BY <1>1, <2>1
<1>7. CASE Finish
  <2> DEFINE r == Settled(engine.record)
  <2>1. /\ engine.pc = "finishing" /\ SavePruned([journal EXCEPT ![id] = r])
        /\ engine' = At("reporting", id, r)
    BY <1>0, <1>7 DEF Finish
  <2>2. engine.record.state \in Terminal /\ engine.record \in Records /\ id \in Ids
    BY <1>0, <2>1 DEF PlaceInv
  <2>3. r.state # "absent" /\ engine'.id = id
    BY <1>0, <2>1, <2>2, SettledType DEF EngineTypeOK, Terminal, At
  <2> HIDE DEF r
  <2> QED
    BY <1>2, <2>1, <2>2, <2>3
<1>8. CASE Confirm
  <2> DEFINE r == [engine.record EXCEPT !.reported = TRUE]
  <2>1. /\ engine.pc = "confirming" /\ journal' = [Remembered EXCEPT ![id] = r]
        /\ engine' = IdleEngine
    BY <1>0, <1>8 DEF Confirm, SaveJournal
  <2>2. engine.record.state \in Terminal /\ engine.record \in Records /\ id \in Ids
    BY <1>0, <2>1 DEF PlaceInv
  <2>3. r.state # "absent" /\ engine'.pc = "idle"
    BY <2>1, <2>2, ReportedType DEF Terminal, IdleEngine
  <2> HIDE DEF r
  <2> QED
    BY <1>2, <2>1, <2>2, <2>3
<1>9. ASSUME NEW i \in Ids, ReconcileStale(i)
      PROVE  KeepsRecords /\ Recorded'
  <2> DEFINE r == Reconciled(journal[i])
  <2>1. journal' = [Remembered EXCEPT ![i] = r] /\ engine' = At("reporting", i, r)
    BY <1>0, <1>9 DEF ReconcileStale
  <2>2. r.state \in Terminal
    BY <1>0, ReconciledType DEF EngineTypeOK
  <2>3. r.state # "absent" /\ engine'.id = i
    BY <2>1, <2>2 DEF Terminal, At
  <2> HIDE DEF r
  <2> QED
    BY <1>2, <2>1, <2>3
<1>10. ASSUME NEW i \in Ids, ReconcileOther(i)
       PROVE  KeepsRecords /\ Recorded'
  <2>1. /\ UNCHANGED journal
        /\ \/ engine' = engine \/ engine' = IdleEngine
           \/ HasRecord(i) /\ engine' = At("reporting", i, journal[i])
    BY <1>10 DEF ReconcileOther, ReportTerminal, HasRecord, Terminal, durable
  <2>2. \/ engine' = engine \/ engine'.pc = "idle"
        \/ HasRecord(i) /\ engine'.id = i
    BY <2>1 DEF At, IdleEngine
  <2> QED
    BY <2>1, <2>2 DEF KeepsRecords, Recorded, HasRecord
<1>11. ASSUME NEW ok \in BOOLEAN, Report(ok)
       PROVE  KeepsRecords /\ Recorded'
  <2>1. /\ UNCHANGED journal /\ engine.pc # "idle"
        /\ engine' = IdleEngine \/ \E pc \in EnginePcs : engine' = [engine EXCEPT !.pc = pc]
    BY <1>11 DEF Report, durable, EnginePcs
  <2>2. engine'.pc = "idle" \/ engine'.id = id
    BY <1>0, <2>1 DEF IdleEngine
  <2> QED
    BY <1>1, <2>1, <2>2
<1>12. CASE Start
  <2>1. UNCHANGED engine /\ \A i \in Ids : journal'[i] = journal[i]
    BY <1>12, NothingToPrune DEF Start
  <2>2. engine.pc # "idle" => engine.id \in Ids
    BY <1>0
  <2> QED
    BY <2>1, <2>2 DEF KeepsRecords, Recorded, HasRecord
<1>13. CASE \/ ReconcileBegin \/ ReconcileEnd \/ Stop \/ (\E i \in Ids : ViewerLapse(i))
            \/ UNCHANGED engineVars
  <2>1. UNCHANGED journal /\ (engine' = engine \/ engine'.pc = "idle")
    BY <1>13 DEF ReconcileBegin, ReconcileEnd, Stop, ViewerLapse, IdleEngine, durable, engineVars
  <2> QED
    BY <1>1, <2>1
<1> QED
  BY <1>3, <1>4, <1>5, <1>6, <1>7, <1>8, <1>9, <1>10, <1>11, <1>12, <1>13
  DEF UndeliveringSteps, EngineStep

\* A row becomes a result by expiry or by a report, and a report is about a
\* command the engine held.
LEMMA ResultSources ==
    ASSUME TypeOK, [Next]_vars, NEW id \in Ids,
           commands'[id].state \in ResultStates, commands[id].state \notin ResultStates
    PROVE  \/ id \in serverLapsed
           \/ engine.pc # "idle" /\ id = engine.id
           \/ \E report \in late : id = report.id
<1>0. QueueTypeOK /\ commands[id] \in Rows
  BY DEF TypeOK, QueueTypeOK
<1>1. ASSUME NEW i, NEW result, ApplyViewerCommandResult(i, result)
      PROVE  i = id
  <2>1. commands' # commands
    OBVIOUS
  <2> QED
    BY <1>0, <1>1, <2>1 DEF ApplyViewerCommandResult, QueueTypeOK
<1>2. ASSUME DeliverNothing \/ \E i \in Ids : DeliverNextViewerCommand(i)
      PROVE  id \in serverLapsed
  <2>1. AfterExpiry \in [Ids -> Rows] /\ (AfterExpiry[id] = commands[id] \/ id \in serverLapsed)
    BY <1>0, AfterExpiryRows DEF AfterExpiry
  <2>2. CASE DeliverNothing
    BY <2>1, <2>2 DEF DeliverNothing
  <2>3. ASSUME NEW i \in Ids, DeliverNextViewerCommand(i)
        PROVE  id \in serverLapsed
    <3>1. commands' = [AfterExpiry EXCEPT ![i] = [AfterExpiry[i] EXCEPT !.state = "delivered"]]
      BY <2>3 DEF DeliverNextViewerCommand
    <3>2. i # id
      <4>1. i = id => commands'[id].state = "delivered"
        BY <2>1, <3>1 DEF Rows
      <4> QED
        BY <4>1 DEF ResultStates, Terminal
    <3> QED
      BY <2>1, <3>1, <3>2
  <2> QED
    BY <1>2, <2>2, <2>3
<1>3. CASE SSEWrites \/ PollAnswers
  BY <1>2, <1>3 DEF SSEWrites, PollAnswers
<1>4. CASE OperatorCreates \/ HeartbeatEnsuresUpdate
  <2>1. PICK i \in Ids : \E type : Insert(i, type)
    BY <1>4 DEF OperatorCreates, HeartbeatEnsuresUpdate, CreateOperatorViewerCommand,
                EnsureViewerUpdateCommand
  <2>2. commands'[id] = commands[id] \/ commands'[id].state = "pending"
    BY <1>0, <2>1 DEF Insert, AbsentRow, QueueTypeOK
  <2> QED
    BY <2>2 DEF ResultStates, Terminal
<1>5. CASE OperatorRevokes
  <2>1. commands'[id].state \in {commands[id].state, "cancelled", "deleted"}
    BY <1>0, <1>5 DEF OperatorRevokes, CancelViewerCommand, DeleteViewerCommand, QueueTypeOK, Rows
  <2> QED
    BY <2>1 DEF ResultStates, Terminal
<1>6. CASE ReportAnswered \/ ReportAnswerLost
  BY <1>1, <1>6 DEF ReportAnswered, ReportAnswerLost, Report
<1>7. CASE LateReportArrives
  BY <1>1, <1>7 DEF LateReportArrives
<1>8. commands' # commands
  OBVIOUS
<1>9. \/ SSEWrites \/ PollAnswers \/ OperatorCreates \/ HeartbeatEnsuresUpdate \/ OperatorRevokes
      \/ ReportAnswered \/ ReportAnswerLost \/ LateReportArrives
  BY <1>8
  DEF Next, TimeToLiveEnds, Lapse, LoopStarts, SweepBegins, LoopRuns, LoopRunsUnswept, LoopStops,
      SSEConnects, SSEEnds, SSEReceives, SSEKeepalive, PollLost, PollReceives, Receives,
      QueueOverflows, ReportLost, ReportTimesOut, ServiceStarts, ServiceStops, EngineSteps,
      queueVars, vars
<1> QED
  BY <1>3, <1>4, <1>5, <1>6, <1>7, <1>9

\* What the clocks and the reports under way become.
LEMMA ClocksAndReports ==
    ASSUME TypeOK, ~ClockSkew, [Next]_vars
    PROVE  /\ viewerLapsed \subseteq viewerLapsed'
           /\ serverLapsed' \subseteq serverLapsed \cup viewerLapsed'
           /\ \A report \in late' :
                 report \in late \/ (engine.pc # "idle" /\ report.id = engine.id)
<1>1. CASE \E id \in Ids : TimeToLiveEnds(id)
  BY <1>1 DEF TimeToLiveEnds, Lapse, ViewerLapse, transportVars
<1>2. CASE ~\E id \in Ids : TimeToLiveEnds(id)
  <2>1. serverLapsed' = serverLapsed
    BY <1>2
    DEF Next, OperatorCreates, HeartbeatEnsuresUpdate, OperatorRevokes,
        CreateOperatorViewerCommand, EnsureViewerUpdateCommand, Insert, CancelViewerCommand,
        DeleteViewerCommand, DeliverNextViewerCommand, DeliverNothing, ApplyViewerCommandResult,
        LoopStarts, SweepBegins, LoopRuns, LoopRunsUnswept, LoopStops, SSEConnects, SSEWrites,
        SSEEnds, SSEReceives, SSEKeepalive, PollAnswers, PollLost, PollReceives, Receives,
        QueueOverflows, ReportAnswered, ReportLost, ReportAnswerLost, ReportTimesOut,
        LateReportArrives, ServiceStarts, ServiceStops, EngineSteps, queueVars, vars
  <2>2. viewerLapsed' = viewerLapsed
    <3>1. ASSUME NEW command, Handle(command)
          PROVE  viewerLapsed' = viewerLapsed
      BY <3>1 DEF Handle, HandleUnsupported, HandleUnreadable, HandleChanged, HandleTerminal,
                  HandleRestarted, HandleInProgress, HandleExpired, HandleAccept, TakesDuplicate,
                  TakesKnown, TakesNew, Takes
    <3>2. CASE EngineStep
      BY <3>1, <3>2 DEF EngineStep, SaveRunning, ExecuteRefused, ExecuteBegin, ExecuteEnd,
                        ExecuteFails, Finish, Confirm, ReconcileStale, ReconcileOther, Visits, Held
    <3>3. \/ EngineStep \/ ReconcileBegin \/ ReconcileEnd \/ Start \/ Stop
          \/ (\E ok : Report(ok)) \/ (\E command : DeliverViewerCommand(command))
          \/ UNCHANGED engineVars
      BY <1>2
      DEF Next, OperatorCreates, HeartbeatEnsuresUpdate, OperatorRevokes, LoopStarts, SweepBegins,
          LoopRuns, LoopRunsUnswept, LoopStops, SSEConnects, SSEWrites, SSEEnds, SSEReceives,
          SSEKeepalive, PollAnswers, PollLost, PollReceives, Receives, QueueOverflows,
          ReportAnswered, ReportLost, ReportAnswerLost, ReportTimesOut, LateReportArrives,
          ServiceStarts, ServiceStops, EngineSteps, vars
    <3> QED
      BY <3>2, <3>3 DEF ReconcileBegin, ReconcileEnd, Start, Stop, Report, Held,
                        DeliverViewerCommand, engineVars
  <2>3. late' \subseteq late \/ ReportTimesOut
    BY <1>2
    DEF Next, OperatorCreates, HeartbeatEnsuresUpdate, OperatorRevokes, LoopStarts, SweepBegins,
        LoopRuns, LoopRunsUnswept, LoopStops, SSEConnects, SSEWrites, SSEEnds, SSEReceives,
        SSEKeepalive, PollAnswers, PollLost, PollReceives, Receives, QueueOverflows,
        ReportAnswered, ReportLost, ReportAnswerLost, LateReportArrives, ServiceStarts,
        ServiceStops, EngineSteps, transportVars, vars
  <2>4. ReportTimesOut => /\ engine.pc # "idle" /\ late' = late \cup {ReportOf}
                          /\ ReportOf.id = engine.id
    BY DEF ReportTimesOut, Report, ReportOf
  <2> QED
    BY <2>1, <2>2, <2>3, <2>4
<1> QED
  BY <1>1, <1>2

LEMMA BarredInit == Init => BarredInv
<1> SUFFICES ASSUME Init PROVE BarredInv
  OBVIOUS
<1>1. \A id \in Ids : commands[id].state = "absent"
  BY DEF Init, QueueInit, AbsentRow
<1>2. engine.pc = "idle" /\ late = {} /\ serverLapsed = {}
  BY DEF Init, QueueInit, EngineInit, IdleEngine
<1> QED
  BY <1>1, <1>2 DEF BarredInv, Recorded, ResultStates, Terminal

LEMMA BarredStep ==
    ASSUME MaxCommands <= MaxRetained, ~StorageMayFail, ~ClockSkew,
           ControlInv, BarredInv, [Next]_vars
    PROVE  BarredInv'
<1>0. /\ TypeOK /\ OutcomeInv /\ EngineTypeOK /\ ActsOn(Handed) /\ Recorded /\ Traffic
      /\ engine.pc # "idle" => engine.id \in Ids
      /\ \A report \in late : report.id \in Ids
  BY StepTraffic
  DEF ControlInv, FlightInv, HandedOut, BarredInv, TypeOK, OutcomeInv, IInv, PlaceInv
<1>1. KeepsRecords /\ Recorded'
  <2>1. CASE UndeliveringSteps
    BY <1>0, <2>1, EngineKeepsRecords
  <2>2. CASE UNCHANGED <<journal, engine>>
    BY <1>0, <2>2 DEF KeepsRecords, Recorded, HasRecord
  <2>3. UndeliveringSteps \/ UNCHANGED <<journal, engine>>
    BY <1>0 DEF Traffic, Passes, FrameTaken, PollTaken, FrameSent, PollSent, HandedOver,
                DeliverViewerCommand, durable, engineVars
  <2> QED
    BY <2>1, <2>2, <2>3
<1>2. /\ viewerLapsed \subseteq viewerLapsed' /\ serverLapsed' \subseteq viewerLapsed'
      /\ \A report \in late' :
            report \in late \/ (engine.pc # "idle" /\ report.id = engine.id)
  BY <1>0, ClocksAndReports DEF BarredInv
<1>3. \A report \in late' : HasRecord(report.id)'
  <2>1. ASSUME NEW report \in late'
        PROVE  report.id \in Ids /\ HasRecord(report.id)
    BY <1>0, <1>2, <2>1 DEF BarredInv, Recorded
  <2> QED
    BY <1>1, <2>1 DEF KeepsRecords
<1>4. ASSUME NEW id \in Ids, commands'[id].state \in ResultStates
      PROVE  HasRecord(id)' \/ id \in viewerLapsed'
  <2>1. HasRecord(id) \/ id \in viewerLapsed
    <3>1. CASE commands[id].state \in ResultStates
      BY <3>1 DEF BarredInv
    <3>2. CASE commands[id].state \notin ResultStates
      BY <1>0, <1>4, <3>2, ResultSources DEF BarredInv, Recorded
    <3> QED
      BY <3>1, <3>2
  <2> QED
    BY <1>1, <1>2, <2>1 DEF KeepsRecords
<1> QED
  BY <1>1, <1>2, <1>3, <1>4 DEF BarredInv, HasRecord

LEMMA BarredLeads == ControlInv /\ TurnInv /\ BarredInv => NextLeads
<1> DEFINE next == Head(queue).id
<1> SUFFICES ASSUME ControlInv, TurnInv, BarredInv,
                    queue # <<>>, ~HasRecord(next), next \notin viewerLapsed,
                    NEW later \in Ids, later > next
             PROVE  executions[later] = 0
  BY DEF NextLeads
<1>1. queue \in Seq(Commands) /\ executions[later] \in Nat
  BY DEF ControlInv, TypeOK, EngineTypeOK, ExecutionCap
<1>2. next \in Called
  <2>1. 1 \in 1 .. Len(queue) /\ queue[1] = Head(queue)
    BY <1>1
  <2> QED
    BY <2>1, CalledIds
<1>3. Waits(next)
  <2>1. next \in Ids /\ commands[next].state \notin Untaken /\ commands[next].state \notin ResultStates
    BY <1>2 DEF Called, HandedOut, BarredInv
  <2>2. commands[next].state \in RowStates
    BY <2>1 DEF ControlInv, TypeOK, QueueTypeOK, Rows
  <2> QED
    BY <2>1, <2>2 DEF Waits, Untaken, RowStates, Open
<1>4. later \notin Called
  <2>1. next \in 1 .. later - 1
    BY <1>2, MaxCommandsAssumption DEF Called, HandedOut, Ids
  <2> QED
    BY <1>3, <2>1 DEF Called, InTurn
<1> QED
  BY <1>1, <1>4, CalledIds DEF Ahead

LEMMA LeadInit == Init => LeadInv
BY DEF Init, EngineInit, IdleEngine, LeadInv, Acting

\* Commands take effect in the order of their ids, which is the order the
\* operator gave them in, whatever is lost, repeated or restarted on the way: as
\* long as the poll fallback takes no part, or, with it, as long as the clocks
\* agree, storage works and the journal drops no record.
THEOREM CommandsTakeEffectInOrder ==
    ASSUME ~PollFallback \/ (~ClockSkew /\ ~StorageMayFail /\ MaxCommands <= MaxRetained)
    PROVE  Spec => EffectsInOrder
<1> DEFINE InOrder == \A id \in Ids : executions'[id] > executions[id] =>
                          \A later \in Ids : later > id => executions[later] = 0
<1>1. ASSUME ControlInv, TurnInv, NextLeads, LeadInv, [Next]_vars
      PROVE  TurnInv' /\ LeadInv' /\ [InOrder]_executions
  <2>1. TurnInv'
    BY <1>1, TurnStep
  <2>2. LeadInv' /\ [InOrder]_executions
    BY <1>1, LeadStep DEF ControlInv
  <2> QED
    BY <2>1, <2>2
<1>2. CASE ~PollFallback
  <2>1. Init => TurnInv /\ LeadInv /\ LineInv
    BY TurnInit, LeadInit, LineInit
  <2>2. ASSUME ControlInv, TurnInv, LeadInv, LineInv, [Next]_vars
        PROVE  TurnInv' /\ LeadInv' /\ LineInv' /\ [InOrder]_executions
    BY <1>1, <1>2, <2>2, LineLeads, LineStep
  <2> QED
    BY <2>1, <2>2, ControlInvariant, PTL DEF Spec, EffectsInOrder
<1>3. CASE ~ClockSkew /\ ~StorageMayFail /\ MaxCommands <= MaxRetained
  <2>1. Init => TurnInv /\ LeadInv /\ BarredInv
    BY TurnInit, LeadInit, BarredInit
  <2>2. ASSUME ControlInv, TurnInv, LeadInv, BarredInv, [Next]_vars
        PROVE  TurnInv' /\ LeadInv' /\ BarredInv' /\ [InOrder]_executions
    BY <1>1, <1>3, <2>2, BarredLeads, BarredStep
  <2> QED
    BY <2>1, <2>2, ControlInvariant, PTL DEF Spec, EffectsInOrder
<1> QED
  BY <1>2, <1>3
===============================================================================
