----------------------------- MODULE ViewerControl -----------------------------
(******************************************************************************)
(* The remote-control path of one Viewer end to end: the server's queue, the  *)
(* SSE stream and the long-poll fallback that carry commands to the Windows   *)
(* Service, the Service's command engine, and the HTTP reports that carry     *)
(* results back (control.go, service.go, routes_viewers.go).                  *)
(*                                                                            *)
(* Commands may be delivered twice, lost with their connection, or overtaken  *)
(* by a late poll answer.  A report may be answered, lost before the server   *)
(* sees it, or give up waiting while the request still reaches the server     *)
(* later.  The Service may stop between any two steps.                        *)
(******************************************************************************)
EXTENDS ViewerCommandQueue, ViewerCommandEngine

CONSTANTS
    MaxFrames,     \* bound on SSE frames in flight
    MaxLate,       \* bound on reports still on their way after their timeout
    PollFallback,  \* whether the long-poll fallback takes part
    ClockSkew      \* whether the two clocks may disagree about a TTL

ASSUME MaxFramesAssumption == MaxFrames \in Nat \ {0}
ASSUME MaxLateAssumption   == MaxLate \in Nat
ASSUME FlagsAssumption     == PollFallback \in BOOLEAN /\ ClockSkew \in BOOLEAN

VARIABLES
    loop,      \* HTTPControlLoop.Run: "down", "starting" (in SetCommandReporter), "up"
    sse,       \* the SSE session: open, the handler's lastCommandID, frames in flight
    fallback,  \* RunControl's fallback flag
    poll,      \* id carried by a long-poll answer in flight, 0 when there is none
    late       \* report requests the server may still receive

transportVars == <<loop, sse, fallback, poll, late>>
vars == <<queueVars, engineVars, transportVars>>

ClosedSSE == [open |-> FALSE, last |-> 0, frames |-> <<>>]
Reports == [id : Ids, result : Results]

Init ==
    /\ QueueInit
    /\ EngineInit
    /\ loop = "down"
    /\ sse = ClosedSSE
    /\ fallback = FALSE
    /\ poll = 0
    /\ late = {}

-----------------------------------------------------------------------------
(* Operator, heartbeat and time. *)

OperatorCreates ==
    /\ \E id \in Ids, type \in CommandTypes : CreateOperatorViewerCommand(id, type)
    /\ UNCHANGED <<engineVars, transportVars>>

HeartbeatEnsuresUpdate ==
    /\ "update_app" \in CommandTypes
    /\ \E id \in Ids : EnsureViewerUpdateCommand(id)
    /\ UNCHANGED <<engineVars, transportVars>>

OperatorRevokes ==
    /\ \E id \in Ids : CancelViewerCommand(id) \/ DeleteViewerCommand(id)
    /\ UNCHANGED <<engineVars, transportVars>>

\* A TTL runs out; without clock skew both ends see it at the same moment.
TimeToLiveEnds(id) ==
    /\ \/ Lapse(id) /\ ViewerLapse(id)
       \/ ClockSkew /\ Lapse(id) /\ UNCHANGED engineVars
       \/ ClockSkew /\ commands[id].state # "absent" /\ ViewerLapse(id) /\ UNCHANGED queueVars
    /\ UNCHANGED transportVars

-----------------------------------------------------------------------------
(* The control loop and its two transports. *)

\* RunControl's deferred cleanup: both workers are cancelled and awaited.
CloseTransports == sse' = ClosedSSE /\ fallback' = FALSE /\ poll' = 0

\* SetCommandReporter has installed the reporter and now wants engine.mu.
LoopStarts ==
    /\ up
    /\ loop = "down"
    /\ loop' = "starting"
    /\ UNCHANGED <<queueVars, engineVars, sse, fallback, poll, late>>

SweepBegins ==
    /\ loop = "starting"
    /\ ReconcileBegin
    /\ UNCHANGED <<queueVars, transportVars>>

\* Reconcile returned; RunControl and the heartbeats begin.
LoopRuns ==
    /\ loop = "starting"
    /\ ReconcileEnd
    /\ loop' = "up"
    /\ UNCHANGED <<queueVars, sse, fallback, poll, late>>

\* Reconcile could not load the journal; its error is ignored.
LoopRunsUnswept ==
    /\ loop = "starting"
    /\ engine.pc = "idle"
    /\ ~sweep.active
    /\ StorageMayFail
    /\ loop' = "up"
    /\ UNCHANGED <<queueVars, engineVars, sse, fallback, poll, late>>

\* A changed configuration ends this Run; runControl starts the next.
LoopStops ==
    /\ loop = "up"
    /\ loop' = "down"
    /\ CloseTransports
    /\ UNCHANGED <<queueVars, engineVars, late>>

SSEConnects ==
    /\ loop = "up"
    /\ ~sse.open
    /\ sse' = [ClosedSSE EXCEPT !.open = TRUE]
    /\ UNCHANGED <<queueVars, engineVars, loop, fallback, poll, late>>

\* writeAvailable, every second: the delivery transaction always runs, and a
\* command is written unless it is the one this session wrote last.
SSEWrites ==
    /\ sse.open
    /\ \/ \E id \in Ids :
            /\ DeliverNextViewerCommand(id)
            /\ id = sse.last \/ Len(sse.frames) < MaxFrames
            /\ sse' = [sse EXCEPT !.last = id,
                                  !.frames = IF id = sse.last THEN @ ELSE Append(@, id)]
       \/ DeliverNothing /\ UNCHANGED sse
    /\ UNCHANGED <<engineVars, loop, fallback, poll, late>>

\* The session ends, with whatever was still in flight; polling takes over.
SSEEnds ==
    /\ loop = "up"
    /\ sse' = ClosedSSE
    /\ fallback' = PollFallback
    /\ UNCHANGED <<queueVars, engineVars, loop, poll, late>>

PollAnswers ==
    /\ loop = "up"
    /\ fallback
    /\ poll = 0
    /\ \/ \E id \in Ids : DeliverNextViewerCommand(id) /\ poll' = id
       \/ DeliverNothing /\ UNCHANGED poll
    /\ UNCHANGED <<engineVars, loop, sse, fallback, late>>

PollLost ==
    /\ poll # 0
    /\ poll' = 0
    /\ UNCHANGED <<queueVars, engineVars, loop, sse, fallback, late>>

CommandOf(id) == [id |-> id, type |-> commands[id].type]

\* RunControl's onResult: updates are ignored, a full queue ends the loop.
Receives(id) ==
    /\ loop = "up"
    /\ UNCHANGED <<queueVars, late>>
    /\ \/ /\ commands[id].type = "update_app"
          /\ UNCHANGED <<engineVars, loop>>
       \/ /\ commands[id].type # "update_app"
          /\ DeliverViewerCommand(CommandOf(id))
          /\ UNCHANGED loop

QueueOverflows(id) ==
    /\ loop = "up"
    /\ commands[id].type # "update_app"
    /\ Len(queue) = QueueCapacity
    /\ loop' = "down"
    /\ CloseTransports
    /\ UNCHANGED <<queueVars, engineVars, late>>

\* A frame proves the stream: fallback ends.  A poll answer that is already on
\* its way may still arrive.
SSEReceives ==
    /\ sse.frames # <<>>
    /\ LET id == Head(sse.frames)
       IN  \/ /\ Receives(id)
              /\ sse' = [sse EXCEPT !.frames = Tail(@)]
              /\ fallback' = FALSE
              /\ UNCHANGED poll
           \/ QueueOverflows(id)

SSEKeepalive ==
    /\ loop = "up"
    /\ sse.open
    /\ fallback
    /\ fallback' = FALSE
    /\ UNCHANGED <<queueVars, engineVars, loop, sse, poll, late>>

PollReceives ==
    /\ poll # 0
    /\ \/ Receives(poll) /\ poll' = 0 /\ UNCHANGED <<sse, fallback>>
       \/ QueueOverflows(poll)

-----------------------------------------------------------------------------
(* Reports.  Without a control loop there is no reporter. *)

ReportOf == [id |-> engine.id, result |-> ResultOf(engine.record)]

ReportAnswered ==
    /\ loop # "down"
    /\ Report(Accepted(engine.id, ReportOf.result))
    /\ ApplyViewerCommandResult(engine.id, ReportOf.result)
    /\ UNCHANGED transportVars

\* No reporter, no connection, or ten seconds passed without the request
\* reaching the server.
ReportLost ==
    /\ Report(FALSE)
    /\ UNCHANGED <<queueVars, transportVars>>

\* The server took the result but its answer did not arrive in time.
ReportAnswerLost ==
    /\ loop # "down"
    /\ Report(FALSE)
    /\ ApplyViewerCommandResult(engine.id, ReportOf.result)
    /\ UNCHANGED transportVars

ReportTimesOut ==
    /\ loop # "down"
    /\ Report(FALSE)
    /\ Cardinality(late) < MaxLate
    /\ late' = late \cup {ReportOf}
    /\ UNCHANGED <<queueVars, loop, sse, fallback, poll>>

LateReportArrives ==
    /\ \E report \in late :
         /\ ApplyViewerCommandResult(report.id, report.result)
         /\ late' = late \ {report}
    /\ UNCHANGED <<engineVars, loop, sse, fallback, poll>>

-----------------------------------------------------------------------------
ServiceStarts == Start /\ UNCHANGED <<queueVars, transportVars>>

ServiceStops ==
    /\ Stop
    /\ loop' = "down"
    /\ CloseTransports
    /\ UNCHANGED <<queueVars, late>>

EngineSteps == EngineStep /\ UNCHANGED <<queueVars, transportVars>>

Next ==
    \/ OperatorCreates \/ HeartbeatEnsuresUpdate \/ OperatorRevokes
    \/ \E id \in Ids : TimeToLiveEnds(id)
    \/ LoopStarts \/ SweepBegins \/ LoopRuns \/ LoopRunsUnswept \/ LoopStops
    \/ SSEConnects \/ SSEWrites \/ SSEEnds \/ SSEReceives \/ SSEKeepalive
    \/ PollAnswers \/ PollLost \/ PollReceives
    \/ ReportAnswered \/ ReportLost \/ ReportAnswerLost \/ ReportTimesOut \/ LateReportArrives
    \/ ServiceStarts \/ ServiceStops \/ EngineSteps

Spec == Init /\ [][Next]_vars

\* Every goroutine keeps running.  A report attempt ends, if only by its timeout,
\* and a report made over and over is answered once.  RunControl starts by opening an
\* SSE session, and a session that opens starts with the delivery transaction.
\* TTLs run out, the SCM restarts the Service, and a launched restart helper stops
\* it.  Nothing obliges a healthy control loop or Service to stop, an SSE session
\* to end, or an operator to act.
Fairness ==
    /\ WF_vars(EngineSteps)
    /\ WF_vars(ReportAnswered \/ ReportLost \/ ReportAnswerLost \/ ReportTimesOut)
    /\ \A id \in Ids : SF_vars(engine.id = id /\ ReportAnswered)
    /\ WF_vars(LoopStarts) /\ WF_vars(SweepBegins \/ LoopRunsUnswept) /\ WF_vars(LoopRuns)
    /\ SF_vars(SSEConnects) /\ SF_vars(SSEWrites) /\ WF_vars(SSEReceives) /\ WF_vars(PollReceives)
    /\ \A id \in Ids : WF_vars(TimeToLiveEnds(id))
    /\ WF_vars(ServiceStarts)
    /\ WF_vars(restarting /\ ServiceStops)

FairSpec == Spec /\ Fairness

-----------------------------------------------------------------------------
(* Properties. *)

TypeOK ==
    /\ QueueTypeOK
    /\ EngineTypeOK
    /\ loop \in {"down", "starting", "up"}
    /\ sse \in [open : BOOLEAN, last : Ids \cup {0}, frames : Seq(Ids)]
    /\ fallback \in BOOLEAN
    /\ poll \in Ids \cup {0}
    /\ late \subseteq Reports

\* Cancelling or deleting a command the server has not handed out is a promise:
\* no copy of it is on its way and it never executes.
RevocationHolds ==
    \A id \in Ids : commands[id].state \in {"cancelled", "deleted"} =>
        /\ executions[id] = 0
        /\ ~HasRecord(id)
        /\ poll # id
        /\ \A i \in 1 .. Len(sse.frames) : sse.frames[i] # id
        /\ \A i \in 1 .. Len(queue) : queue[i].id # id

\* A command takes effect at most once, however often it is handed out, reported
\* and read again after a restart, and not at all once it is revoked.
RunsOnceIfAtAll ==
    /\ \A id \in Ids : executions[id] <= 1
    /\ RevocationHolds

\* What the operator reads is what happened: a success on the server is the
\* Service's own recorded success, a rejection had no side effect.
ResultIsTruthful(id) ==
    /\ commands[id].state = "succeeded" =>
          /\ executions[id] = 1 \/ commands[id].type = "restart_service"
          /\ journal[id].state = "succeeded" \/ id \in pruned
    /\ commands[id].state = "rejected" => executions[id] = 0
ServerResultIsTruthful == \A id \in Ids : ResultIsTruthful(id)

\* Commands take effect in the order the operator gave them.
EffectsInOrder ==
    [][\A id \in Ids : executions'[id] > executions[id] =>
          \A later \in Ids : later > id => executions[later] = 0]_executions

Rank(state) ==
    CASE state = "absent"       -> 0
      [] state = "pending"      -> 1
      [] state = "delivered"    -> 2
      [] state = "acknowledged" -> 3
      [] state = "running"      -> 4
      [] state = "deleted"      -> 6
      [] OTHER                  -> 5

\* The operator-visible state never moves backward, and a final state and its
\* error are never replaced (except that a cancelled row may be deleted), in
\* spite of reports that arrive twice, late or out of order.
ServerNeverBackward ==
    [][\A id \in Ids :
          /\ Rank(commands'[id].state) >= Rank(commands[id].state)
          /\ Rank(commands[id].state) >= 5 =>
                commands'[id] = commands[id] \/ commands'[id].state = "deleted"]_commands

\* The command as RemoteCommand sees it.
Concluded(id) == journal[id].state \in Terminal \/ id \in pruned

PhaseOf(id) ==
    IF executions[id] > 0 THEN IF Concluded(id) THEN "settled" ELSE "acting"
    ELSE IF Concluded(id) THEN "closed"
    ELSE CASE commands[id].state \in {"cancelled", "deleted"} -> "revoked"
           [] commands[id].state = "absent"                  -> "unborn"
           [] OTHER                                          -> "waiting"

Remote == INSTANCE RemoteCommand WITH
    Command <- Ids,
    phase   <- [id \in Ids |-> PhaseOf(id)],
    effects <- executions

\* The protocol keeps the promise of RemoteCommand: one effect at most, none
\* after a revocation, and an outcome is final.  AcceptedSettles is its liveness.
KeepsRemoteCommandPromise == Remote!Spec

\* Every command the Service has accepted is settled in its journal in the end,
\* across crashes and restarts.  (A restart_service accepted in the last boot the
\* bound MaxBoots allows has no next boot to be proved by.)
AcceptedSettles ==
    \A id \in Ids :
        (/\ journal[id].state \in {"acknowledged", "running"}
         /\ journal[id].type = "restart_service" => journal[id].accepted < MaxBoots)
        ~> journal[id].state \notin {"acknowledged", "running"}

\* No row waits for ever: each is taken up, finished or expired, even one queued
\* behind an update command the Service ignores.
QueueDrains ==
    \A id \in Ids : commands[id].state \in Open ~> commands[id].state \notin Open

FinalRow(id) == commands[id].state \in Terminal \cup {"cancelled", "deleted"}

\* If the control loop is started again and again, the server learns a final
\* state for everything the Service has settled.
LoopRestartsDeliverResults ==
    []<>(loop = "down") =>
        \A id \in Ids : journal[id].state \in Terminal ~> FinalRow(id)

\* Stated by the documentation: unreported terminal results are reported again
\* after a reconnect.
ReconnectDeliversResults ==
    \A id \in Ids :
        (/\ journal[id].state \in Terminal /\ ~journal[id].reported
         /\ engine.pc = "idle" /\ ~sse.open)
        ~> FinalRow(id)

\* Stated by the documentation: expired commands never execute.
ExpiredNeverExecutes ==
    [][\A id \in Ids : executions'[id] > executions[id] => commands[id].state # "expired"]_executions

\* Stated by the documentation: a journal failure is reported only when there
\* was no side effect.
JournalFailureHasNoEffect ==
    \A id \in Ids : commands[id].code = "command_journal_unavailable" => executions[id] = 0
===============================================================================
