------------------------------ MODULE PtzControl ------------------------------
(*****************************************************************************)
(* Press-and-hold PTZ: the buttons and the hold of the browser (usePtzHold,  *)
(* PtzControlPanel), the switch of the live page to recorded playback that   *)
(* waits for the stop (LiveWorkspace.seekPlayback), and the camera           *)
(* controller of the server, whose gate and generation order what reaches    *)
(* the camera.                                                               *)
(*                                                                           *)
(* The counters of the code are only compared for equality with their        *)
(* current value, so each request carries what a comparison would tell:      *)
(* "then" is what the browser still wants to do with the answer (cleared     *)
(* where intentRef, generationRef or playbackIntentRef grows), "stale"       *)
(* whether the controller's generation has passed it.                        *)
(*****************************************************************************)
EXTENDS Integers, FiniteSets

CONSTANT Requests    \* bound: HTTP requests under way at the same time
ASSUME RequestsAssumption == IsFiniteSet(Requests) /\ Requests # {}

Sources == {"pointer", "keyboard"}

VARIABLES
    pressed, \* HoldButton: pointerActive and keyboardActive
    active,  \* activeRef
    renewal, \* timerRef is set
    panel,   \* ptzPanelOpen
    mode,    \* workspace.mode
    wanted,  \* history: the mode the operator asked for last
    req,     \* the requests to /api/cameras/{name}/ptz
    gate,    \* commandState.gate: the requests inside
    camera   \* what the camera does

ptzClient == <<pressed, active, renewal, panel, mode, wanted>>
ptzVars == <<pressed, active, renewal, panel, mode, wanted, req, gate, camera>>

\* passed: a stop sent after this move has reached the camera before it (history).
Free == [kind |-> "none", at |-> "free", then |-> "none", stale |-> FALSE,
         aborted |-> FALSE, cut |-> FALSE, ok |-> FALSE, passed |-> FALSE]

Sent(kind, then) == [Free EXCEPT !.kind = kind, !.at = "wire", !.then = then]

PtzInit ==
    /\ pressed = {}
    /\ active = FALSE
    /\ renewal = FALSE
    /\ panel = "open"
    /\ mode = "live"
    /\ wanted = "live"
    /\ req = [r \in Requests |-> Free]
    /\ gate = {}
    /\ camera = "still"

-----------------------------------------------------------------------------
(* The hold.                                                                 *)

\* The browser forgets and aborts what it was waiting for.
Dropped(r) == [r EXCEPT !.then = "none", !.aborted = (r.kind = "move")]

\* Mutant: the answer of a move is used whatever has happened since.
ForgottenStarts(requests, thens) ==
    [r \in Requests |-> IF requests[r].then \in thens \ {"renew"} THEN Dropped(requests[r])
                        ELSE requests[r]]

Forgotten(requests, thens) ==
    [r \in Requests |-> IF requests[r].then \in thens THEN Dropped(requests[r])
                        ELSE requests[r]]

\* stopCurrent: the renewal ends, the move in flight is aborted, a stop is sent.
StopCurrent(r, then, requests) ==
    /\ renewal' = FALSE
    /\ req' = [Forgotten(requests, {"renew", "start"}) EXCEPT ![r] = Sent("stop", then)]

\* stop: the intent is withdrawn as well.
Stop(r, then, requests) == active' = FALSE /\ StopCurrent(r, then, requests)

\* dispatch
Dispatch(r, requests) ==
    /\ renewal' = FALSE
    /\ req' = [requests EXCEPT ![r] = Sent("move", "renew")]

\* Mutant: only a renewal that waits counts as a movement.
HadMovementDue == renewal

HadMovement == active \/ renewal \/ \E r \in Requests : req[r].then = "renew"

\* start: a movement that is already there is stopped first.
Start(r) ==
    /\ active' = TRUE
    /\ IF HadMovement THEN StopCurrent(r, "start", req) ELSE Dispatch(r, req)

IsFree(r) == req[r].at = "free"

Press(source, r) ==
    /\ panel # "closed" /\ source \notin pressed
    /\ IsFree(r)
    /\ pressed' = pressed \cup {source}
    /\ Start(r)
    /\ UNCHANGED <<panel, mode, wanted, gate, camera>>

\* Mutant: a release stops the renewal that waits and nothing else.
ReleaseDue(source, r) ==
    /\ source \in pressed
    /\ IsFree(r)
    /\ pressed' = pressed \ {source}
    /\ IF renewal THEN Stop(r, "none", req) ELSE UNCHANGED <<active, renewal, req>>
    /\ UNCHANGED <<panel, mode, wanted, gate, camera>>

\* Pointer up, cancel, leave or lost capture; key up or blur of the button.
Release(source, r) ==
    /\ source \in pressed
    /\ IsFree(r)
    /\ pressed' = pressed \ {source}
    /\ Stop(r, "none", req)
    /\ UNCHANGED <<panel, mode, wanted, gate, camera>>

\* Window blur, hidden page or Escape stop what is active; the stop buttons stop anyway.
StopPressed(r) ==
    /\ panel # "closed"
    /\ IsFree(r)
    /\ Stop(r, "none", req)
    /\ UNCHANGED <<pressed, panel, mode, wanted, gate, camera>>

RenewalFires(r) ==
    /\ renewal
    /\ IsFree(r)
    /\ Dispatch(r, req)
    /\ UNCHANGED <<pressed, active, panel, mode, wanted, gate, camera>>

\* Going to or setting home, and the presets: each button has its own request.
GotoRequested(r) ==
    /\ panel # "closed"
    /\ IsFree(r)
    /\ req' = [req EXCEPT ![r] = Sent("goto", "none")]
    /\ UNCHANGED <<pressed, active, renewal, panel, mode, wanted, gate, camera>>

-----------------------------------------------------------------------------
(* The page: closing the panel and going to recorded playback and back.      *)

\* closePtzPanel waits for stop and then unmounts the panel.
ClosePanel(r) ==
    /\ panel = "open"
    /\ IsFree(r)
    /\ panel' = "closing"
    /\ Stop(r, "close", req)
    /\ UNCHANGED <<pressed, mode, wanted, gate, camera>>

OpenPanel ==
    /\ panel = "closed" /\ mode = "live"
    /\ panel' = "open"
    /\ UNCHANGED <<pressed, active, renewal, mode, wanted, req, gate, camera>>

\* seekPlayback in live mode; an earlier seek loses its intent.
Seek(r) ==
    /\ mode = "live"
    /\ IsFree(r)
    /\ wanted' = "playback"
    /\ Stop(r, "seek", Forgotten(req, {"seek"}))
    /\ UNCHANGED <<pressed, panel, mode, gate, camera>>

\* Mutant: a seek that waits for its stop is not forgotten.
ReturnToLiveOnly ==
    /\ wanted = "playback"
    /\ wanted' = "live"
    /\ mode' = "live"
    /\ UNCHANGED <<pressed, active, renewal, panel, req, gate, camera>>

ReturnToLive ==
    /\ wanted = "playback"
    /\ wanted' = "live"
    /\ mode' = "live"
    /\ req' = Forgotten(req, {"seek"})
    /\ UNCHANGED <<pressed, active, renewal, panel, gate, camera>>

-----------------------------------------------------------------------------
(* The answers.                                                              *)

Reply(r, then) == req[r].at = "answered" /\ req[r].then = then

\* Nothing waits for it, or nothing any more.
Ignored(r) ==
    /\ Reply(r, "none")
    /\ req' = [req EXCEPT ![r] = Free]
    /\ UNCHANGED <<pressed, active, renewal, panel, mode>>

\* A move is renewed a second after the last one began.
MoveSucceeded(r) ==
    /\ Reply(r, "renew") /\ req[r].ok
    /\ req' = [req EXCEPT ![r] = Free]
    /\ renewal' = TRUE
    /\ UNCHANGED <<pressed, active, panel, mode>>

MoveFailed(r) ==
    /\ Reply(r, "renew") /\ ~req[r].ok
    /\ Stop(r, "none", req)
    /\ UNCHANGED <<pressed, panel, mode>>

\* The earlier movement has been stopped: the new one starts, or nothing does.
StartReady(r) ==
    /\ Reply(r, "start")
    /\ IF req[r].ok
       THEN Dispatch(r, req) /\ UNCHANGED active
       ELSE /\ active' = FALSE
            /\ req' = [req EXCEPT ![r] = Free]
            /\ UNCHANGED renewal
    /\ UNCHANGED <<pressed, panel, mode>>

\* The panel unmounts: its buttons are gone and stopIfActive runs.
Unmounted(r) ==
    /\ panel' = "closed"
    /\ pressed' = {}
    /\ IF active THEN Stop(r, "none", req)
       ELSE req' = [req EXCEPT ![r] = Free] /\ UNCHANGED <<active, renewal>>

CloseReady(r) == Reply(r, "close") /\ Unmounted(r) /\ UNCHANGED mode

\* The page changes to playback whatever became of the stop.
SeekReady(r) == Reply(r, "seek") /\ Unmounted(r) /\ mode' = "playback"

Answered(r) ==
    /\ \/ Ignored(r) \/ MoveSucceeded(r) \/ MoveFailed(r)
       \/ StartReady(r) \/ CloseReady(r) \/ SeekReady(r)
    /\ UNCHANGED <<wanted, gate, camera>>

\* The camera goes offline or loses its controls: the panel is no longer rendered.
PanelVanishes(r) ==
    /\ panel # "closed"
    /\ IsFree(r)
    /\ Unmounted(r)
    /\ UNCHANGED <<mode, wanted, gate, camera>>

-----------------------------------------------------------------------------
(* The server's controller and the camera.                                   *)

SetReq(r, new) == req' = [req EXCEPT ![r] = new] /\ UNCHANGED <<ptzClient, gate, camera>>

\* A request is lost on the way, surely so when it was aborted early enough.
WireLoses(r) == req[r].at = "wire" /\ SetReq(r, [req[r] EXCEPT !.at = "answered"])

\* run reads the generation before it waits for the gate.
RunEnters(r) ==
    /\ req[r].at = "wire" /\ req[r].kind \in {"move", "goto"}
    /\ SetReq(r, [req[r] EXCEPT !.at = "gate"])

\* Stop: the generation grows and the call under way is cancelled, which makes it return
\* but does not keep the camera from a command already sent.
Outdated(q) == IF q.kind # "stop" /\ q.at = "gate" THEN [q EXCEPT !.stale = TRUE] ELSE q

StopEnters(r) ==
    /\ req[r].at = "wire" /\ req[r].kind = "stop"
    /\ req' = [[q \in Requests |-> Outdated(req[q])] EXCEPT ![r].at = "gate"]
    /\ UNCHANGED <<ptzClient, gate, camera>>

\* The gate opens for one request; a move of an old generation leaves again.
GateOpens(r) ==
    /\ req[r].at = "gate" /\ gate = {}
    /\ IF req[r].stale
       THEN /\ req' = [req EXCEPT ![r].at = "answered"]
            /\ UNCHANGED gate
       ELSE /\ req' = [req EXCEPT ![r].at = "calling"]
            /\ gate' = {r}
    /\ UNCHANGED <<ptzClient, camera>>

\* The abort of the browser reaches the handler's context before the call begins.
AbortArrives(r) ==
    /\ req[r].aborted /\ req[r].at = "gate" /\ ~req[r].cut
    /\ SetReq(r, [req[r] EXCEPT !.cut = TRUE])

\* The camera takes the command, also when the call is cancelled while it is under way; a
\* call that begins with a cancelled context is never sent.
CameraTakes(r) ==
    /\ req[r].at = "calling" /\ ~req[r].cut
    /\ camera' = CASE req[r].kind = "move" -> "moving"
                   [] req[r].kind = "stop" -> "still"
                   [] req[r].kind = "goto" -> camera
    /\ req' = [q \in Requests |->
            IF q = r THEN [req[q] EXCEPT !.at = "taken"]
            ELSE [req[q] EXCEPT !.passed = @ \/ (req[r].kind = "stop" /\ req[q].aborted)]]
    /\ UNCHANGED <<ptzClient, gate>>

\* The call returns with or without success and the gate is released.
CallReturns(r) ==
    /\ req[r].at \in {"calling", "taken"}
    /\ \E ok \in BOOLEAN :
        /\ ok => req[r].at = "taken"
        /\ req' = [req EXCEPT ![r].at = "answered", ![r].ok = ok]
    /\ gate' = gate \ {r}
    /\ UNCHANGED <<ptzClient, camera>>

\* The move's own timeout, PT2S.
MoveTimesOut ==
    /\ camera = "moving"
    /\ camera' = "still"
    /\ UNCHANGED <<ptzClient, req, gate>>

ServerStep(r) ==
    WireLoses(r) \/ RunEnters(r) \/ StopEnters(r) \/ GateOpens(r) \/ CallReturns(r)

PtzNext ==
    \/ \E r \in Requests :
        \/ \E s \in Sources : Press(s, r) \/ Release(s, r)
        \/ StopPressed(r) \/ RenewalFires(r) \/ GotoRequested(r)
        \/ ClosePanel(r) \/ PanelVanishes(r) \/ Seek(r)
        \/ Answered(r) \/ ServerStep(r) \/ AbortArrives(r) \/ CameraTakes(r)
    \/ OpenPanel \/ ReturnToLive \/ MoveTimesOut

PtzSpec == PtzInit /\ [][PtzNext]_ptzVars

\* A request goes on until it is answered (each wait has its timeout), the mutex of the
\* gate serves waiters in turn (it does not starve them), and the camera's timeout works.
PtzFairness ==
    /\ \A r \in Requests : WF_ptzVars(ServerStep(r) \/ Answered(r)) /\ SF_ptzVars(GateOpens(r))
    /\ WF_ptzVars(MoveTimesOut)
PtzFairSpec == PtzSpec /\ PtzFairness

-----------------------------------------------------------------------------
(* Properties.                                                               *)

RequestTypes ==
    [kind : {"none", "move", "stop", "goto"},
     at : {"free", "wire", "gate", "calling", "taken", "answered"},
     then : {"none", "renew", "start", "close", "seek"},
     stale : BOOLEAN, aborted : BOOLEAN, cut : BOOLEAN, ok : BOOLEAN, passed : BOOLEAN]

PtzTypeOK ==
    /\ pressed \subseteq Sources /\ active \in BOOLEAN /\ renewal \in BOOLEAN
    /\ panel \in {"open", "closing", "closed"}
    /\ mode \in {"live", "playback"} /\ wanted \in {"live", "playback"}
    /\ req \in [Requests -> RequestTypes]
    /\ gate \subseteq Requests
    /\ camera \in {"still", "moving"}

\* "The client allows only one move request to be in flight": one chain of renewals,
\* whatever is pressed, released and answered in between.
OneMoveChain ==
    Cardinality({r \in Requests : req[r].then \in {"renew", "start"}})
        + (IF renewal THEN 1 ELSE 0) <= 1

\* The server's gate admits one device call at a time, and a caller that left it has ended.
GateIsExclusive ==
    /\ Cardinality(gate) <= 1
    /\ \A r \in Requests : req[r].at \in {"calling", "taken"} <=> r \in gate

OneMoveAtATime == OneMoveChain /\ GateIsExclusive

\* During recorded playback the panel is closed and nothing will move the camera.
PlaybackMeansStopped ==
    mode = "playback" =>
        /\ panel = "closed" /\ ~active /\ ~renewal
        /\ \A r \in Requests : req[r].then \notin {"renew", "start"}

\* The completion of an obsolete stop does not override the operator's last choice
\* between recorded playback and LIVE, and playback begins only behind the stop.
LastChoiceWins == (mode = "playback" => wanted = "playback") /\ PlaybackMeansStopped

\* A move leaves the browser only while a button is held.
NoMoveAfterRelease ==
    [][\A r \in Requests :
        (req'[r].kind = "move" /\ req'[r].at = "wire" /\ req[r].at # "wire")
            => pressed' # {} /\ mode' = "live"]_ptzVars

\* Once all buttons stay released the camera comes to rest for good, also when
\* stops fail and moves are late.
CameraComesToRest == <>[](pressed = {}) => <>[](camera = "still")

\* An operator who stays with recorded playback and does not seek again gets it,
\* although stops are slow or fail.
SeekGetsThrough ==
    (<>[](wanted = "playback") /\ <>[][~\E r \in Requests : Seek(r)]_ptzVars)
        => <>[](mode = "playback")

=============================================================================
