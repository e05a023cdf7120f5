------------------------------- MODULE ViewerApp -------------------------------
(******************************************************************************)
(* The main process of the Windows Viewer (viewer-app/src/main.ts): one       *)
(* window that shows the live page or the setup page, and the connection to   *)
(* the Viewer Service over a named pipe, with the lease that lets one Viewer  *)
(* run.  connectAndShow is asynchronous and is started by the launch, by the  *)
(* reconnect timer and by the setup page, so two calls may overlap.  There    *)
(* is one server, hence one live URL.  The service is external: what it       *)
(* answers and when it notices a closed pipe is taken from its use here.      *)
(******************************************************************************)
EXTENDS Naturals, FiniteSets

CONSTANTS
    Pipes,         \* bound: connections that exist at one time
    MaxShows,      \* bound: asynchronous calls in flight at one time
    MaxOutages,    \* bound: restarts of the service and losses of its server
    MaxClicks,     \* bound: what the operator does to the Viewer
    ConnectsOverlap, \* may connectAndShow start while another call still connects?
    PromptService    \* are status and lease answered within the shortest reconnect delay (1 s)?

NoPipe == "none"
ASSUME PipesAssumption ==
    NoPipe \notin Pipes /\ MaxShows \in Nat \ {0} /\ MaxOutages \in Nat /\ MaxClicks \in Nat

Shows == 1..MaxShows
NoLoad == 0
Reload == MaxShows + 1   \* the load of a reload_live command

VARIABLES
    viewer,    \* the variables of the process
    shows,     \* the asynchronous calls in flight
    pipes,     \* the named pipe of each connection
    service,   \* the Viewer Service: is it up, configured, online; who holds the lease
    command,   \* the Viewer command being executed
    outages, clicks

appVars == <<viewer, shows, pipes, service, command, outages, clicks>>

NoBeat == [pipe |-> NoPipe, lease |-> NoPipe]
Idle == [kind |-> "none", at |-> "idle", own |-> NoPipe, on |-> NoPipe, live |-> FALSE, again |-> FALSE]
NoCommand == [type |-> "none", on |-> NoPipe, at |-> "idle"]

Kinds == {"none", "launch", "timer", "retry", "save", "menu", "drop"}
Stages == {"idle", "connecting", "status", "configuring", "acquiring", "loading", "setup", "rejected"}

\* A pipe the service does not know; one in use; one closed here, or broken, with the other
\* end still to notice.
PipeStates == {"free", "open", "ended", "cut"}

ViewerCommandTypes == {"reload_live", "resubscribe_stream", "restart_viewer"}

AppTypeOK ==
    /\ viewer \in [run : {"running", "gaveUp", "exited"}, connection : Pipes \cup {NoPipe},
                   lease : Pipes \cup {NoPipe}, page : {"blank", "setup", "live"},
                   setupVisible : BOOLEAN, url : BOOLEAN, timer : BOOLEAN,
                   heartbeat : [pipe : Pipes \cup {NoPipe}, lease : Pipes \cup {NoPipe}],
                   load : 0..Reload]
    /\ shows \in [Shows -> [kind : Kinds, at : Stages, own : Pipes \cup {NoPipe},
                            on : Pipes \cup {NoPipe}, live : BOOLEAN, again : BOOLEAN]]
    /\ pipes \in [Pipes -> PipeStates]
    /\ service \in [up : BOOLEAN, configured : BOOLEAN, online : BOOLEAN, holder : Pipes \cup {NoPipe}]
    /\ command \in [type : {"none", "reload_live", "resubscribe_stream", "restart_viewer"},
                    on : Pipes \cup {NoPipe}, at : {"idle", "running", "reload", "succeeded", "failed"}]
    /\ outages \in 0..MaxOutages /\ clicks \in 0..MaxClicks

AppInit ==
    /\ viewer = [run |-> "running", connection |-> NoPipe, lease |-> NoPipe, page |-> "blank",
                 setupVisible |-> FALSE, url |-> FALSE, timer |-> FALSE, heartbeat |-> NoBeat, load |-> NoLoad]
    /\ shows = [i \in Shows |-> IF i = 1 THEN [Idle EXCEPT !.kind = "launch", !.at = "connecting"] ELSE Idle]
    /\ pipes = [c \in Pipes |-> "free"]
    /\ service = [up |-> TRUE, configured |-> FALSE, online |-> FALSE, holder |-> NoPipe]
    /\ command = NoCommand /\ outages = 0 /\ clicks = 0

--------------------------------------------------------------------------------
\* What the handlers do to the process's own variables.

LiveDocument(v) == ~v.setupVisible /\ v.url /\ v.page = "live"   \* hasCurrentLiveDocument

\* a mutant: the lease of the lost connection is kept
DisconnectedKeepingLease(v) == [v EXCEPT !.connection = NoPipe, !.heartbeat = NoBeat]

Disconnected(v) == [v EXCEPT !.connection = NoPipe, !.lease = NoPipe, !.heartbeat = NoBeat]

\* The call sends a request over connection c and waits for its answer.
AsksPipe(i, at, c) == [shows EXCEPT ![i].at = at, ![i].on = c]

ScheduleReconnect(v) == [v EXCEPT !.timer = TRUE]

\* showSetup up to its load: it stops the heartbeat, and loads once.
ShowSetup(v, i) ==
    [v EXCEPT !.heartbeat = NoBeat, !.url = FALSE, !.setupVisible = TRUE,
              !.load = IF v.setupVisible THEN @ ELSE i]

\* Every request that waits on a pipe is rejected when the pipe closes or fails.
RejectPending(c) ==
    [i \in Shows |->
        [shows[i] EXCEPT !.own = IF @ = c THEN NoPipe ELSE @,
                         !.on = IF @ = c THEN NoPipe ELSE @,
                         !.at = IF shows[i].on = c THEN "rejected" ELSE @]]

\* ManagementConnection.close: the service has still to notice the end of the pipe.
ClosePipe(c) == IF c = NoPipe THEN pipes ELSE [pipes EXCEPT ![c] = IF @ = "open" THEN "ended" ELSE "free"]

Closed(c) == IF c = NoPipe THEN shows ELSE RejectPending(c)

\* Rejections are handled before the next event of the process.
Running == viewer.run = "running" /\ \A i \in Shows : shows[i].at # "rejected"

FreeShow(i) == shows[i].at = "idle" /\ \A j \in Shows : shows[j].at = "idle" => i <= j

--------------------------------------------------------------------------------
\* connectAndShow up to its first await: nothing of the old connection is kept.
Begin(i, kind) ==
    /\ FreeShow(i) /\ (ConnectsOverlap \/ \A j \in Shows : shows[j].at # "connecting")
    /\ shows' = [Closed(viewer.connection) EXCEPT ![i] =
                    [Idle EXCEPT !.kind = kind, !.at = "connecting", !.live = LiveDocument(viewer)]]
    /\ pipes' = ClosePipe(viewer.connection)
    /\ viewer' = [Disconnected(viewer) EXCEPT !.timer = @ /\ kind # "timer"]

ReconnectDue(i) ==
    /\ Running /\ viewer.timer
    /\ PromptService => \A j \in Shows : shows[j].at \in {"status", "acquiring"} => pipes[shows[j].on] # "open"
    /\ Begin(i, "timer")
    /\ UNCHANGED <<service, command, outages, clicks>>

ConnectFails(i) ==
    /\ Running /\ shows[i].at = "connecting" /\ ~service.up
    /\ shows' = [shows EXCEPT ![i].at = "rejected"]
    /\ UNCHANGED <<viewer, pipes, service, command, outages, clicks>>

\* The last call to connect owns the connection; the one it replaces is not closed.
ReplaceConnection(v, c) == [v EXCEPT !.connection = c]

Connects(i, c) ==
    /\ Running /\ shows[i].at = "connecting" /\ service.up
    /\ pipes[c] = "free" /\ c \notin {viewer.lease, viewer.heartbeat.pipe, viewer.heartbeat.lease, command.on}
    /\ pipes' = [pipes EXCEPT ![c] = "open"]
    /\ shows' = [AsksPipe(i, "status", c) EXCEPT ![i].own = c]
    /\ viewer' = ReplaceConnection(viewer, c)
    /\ UNCHANGED <<service, command, outages, clicks>>

--------------------------------------------------------------------------------
\* liveDocumentLoadAction: the page there is kept (there is one live URL).
KeepsDocument(i, v) == shows[i].live /\ LiveDocument(v)

\* showLive after the lease: the heartbeat starts, and the live page is loaded
\* unless it is there.  Without a connection its first report throws.
GoLiveNow(i, v) ==
    LET to == IF v.connection = NoPipe THEN "rejected" ELSE IF KeepsDocument(i, v) THEN "idle" ELSE "loading"
    IN /\ viewer' = [v EXCEPT !.timer = FALSE, !.url = TRUE,
                              !.heartbeat = IF v.connection = NoPipe THEN NoBeat
                                            ELSE [pipe |-> v.connection, lease |-> v.lease],
                              !.setupVisible = IF to = "rejected" THEN @ ELSE FALSE,
                              !.load = IF to = "loading" THEN i ELSE @]
       /\ shows' = [shows EXCEPT ![i] = IF to = "idle" THEN Idle ELSE [@ EXCEPT !.at = to, !.on = NoPipe]]
       /\ UNCHANGED <<pipes, command>>

\* showSetup awaited by call i, which then schedules a reconnect when again holds.
SetupFor(i, again) ==
    /\ viewer' = IF viewer.setupVisible /\ again
                 THEN ScheduleReconnect(ShowSetup(viewer, i)) ELSE ShowSetup(viewer, i)
    /\ shows' = [shows EXCEPT ![i] = IF viewer.setupVisible THEN Idle
                                     ELSE [@ EXCEPT !.at = "setup", !.on = NoPipe, !.again = again]]
    /\ UNCHANGED <<pipes, command>>

ShowLive(i) ==
    \/ /\ viewer.connection = NoPipe
       /\ SetupFor(i, FALSE)
    \/ /\ viewer.connection # NoPipe /\ viewer.lease = NoPipe
       /\ shows' = AsksPipe(i, "acquiring", viewer.connection)
       /\ UNCHANGED <<viewer, pipes, command>>
    \/ /\ viewer.connection # NoPipe /\ viewer.lease # NoPipe
       /\ GoLiveNow(i, viewer)

\* a mutant: the attempt that gives way to the live page schedules no other
TryLaterForgotten(i) ==
    LET c == shows[i].own
    IN /\ viewer' = [viewer EXCEPT !.connection = IF @ = c THEN NoPipe ELSE @]
       /\ pipes' = ClosePipe(c)
       /\ shows' = [Closed(c) EXCEPT ![i] = Idle]
       /\ UNCHANGED command

\* The live page stays; this connection is given up and the next one is due later.
TryLater(i) ==
    LET c == shows[i].own
    IN /\ viewer' = ScheduleReconnect([viewer EXCEPT !.connection = IF @ = c THEN NoPipe ELSE @])
       /\ pipes' = ClosePipe(c)
       /\ shows' = [Closed(c) EXCEPT ![i] = Idle]
       /\ UNCHANGED command

QuitsQuietly == viewer' = [viewer EXCEPT !.run = "gaveUp"] /\ UNCHANGED <<shows, pipes, command>>

\* startupAction: an automatic start that is switched off also quits.
StartupAction(i) ==
    CASE ~service.configured \/ ~service.online -> "show_setup"
      [] service.holder # NoPipe -> "quit"
      [] OTHER -> "acquire_lease"

StatusArrives(i) ==
    /\ Running /\ shows[i].at = "status" /\ pipes[shows[i].on] = "open"
    /\ \/ /\ StartupAction(i) # "acquire_lease" /\ shows[i].live
          /\ TryLater(i)
       \/ /\ StartupAction(i) = "show_setup" /\ ~shows[i].live
          /\ SetupFor(i, service.configured)
       \/ /\ StartupAction(i) = "quit" /\ ~shows[i].live
          /\ QuitsQuietly
       \/ /\ StartupAction(i) = "acquire_lease"
          /\ ShowLive(i)
    /\ UNCHANGED <<service, outages, clicks>>

AutoStartDeclined(i) ==
    /\ Running /\ shows[i].at = "status" /\ shows[i].kind = "launch" /\ pipes[shows[i].on] = "open"
    /\ service.configured /\ service.online
    /\ viewer' = [viewer EXCEPT !.run = "exited"]
    /\ UNCHANGED <<shows, pipes, service, command, outages, clicks>>

LeaseArrives(i) ==
    /\ Running /\ shows[i].at = "acquiring" /\ pipes[shows[i].on] = "open"
    /\ \/ /\ service.holder = NoPipe
          /\ service' = [service EXCEPT !.holder = shows[i].on]
          /\ GoLiveNow(i, [viewer EXCEPT !.lease = shows[i].on])
       \/ /\ service.holder # NoPipe /\ ~shows[i].live
          /\ QuitsQuietly /\ UNCHANGED service
       \/ /\ service.holder # NoPipe /\ shows[i].live
          /\ shows' = [shows EXCEPT ![i].at = "rejected", ![i].on = NoPipe]
          /\ UNCHANGED <<viewer, pipes, service, command>>
    /\ UNCHANGED <<outages, clicks>>

\* A newer load cancels the older one, which then fails.
LiveLoaded(i) ==
    /\ Running /\ shows[i].at = "loading" /\ viewer.load = i
    /\ viewer' = [viewer EXCEPT !.page = "live", !.load = NoLoad]
    /\ shows' = [shows EXCEPT ![i] = Idle]
    /\ UNCHANGED <<pipes, service, command, outages, clicks>>

LoadSuperseded(i) ==
    /\ Running /\ shows[i].at = "loading" /\ viewer.load # i
    /\ shows' = [shows EXCEPT ![i].at = "rejected"]
    /\ UNCHANGED <<viewer, pipes, service, command, outages, clicks>>

LiveLoadFails(i) ==
    /\ Running /\ shows[i].at = "loading" /\ viewer.load = i /\ outages < MaxOutages
    /\ shows' = [shows EXCEPT ![i].at = "rejected"]
    /\ outages' = outages + 1
    /\ UNCHANGED <<viewer, pipes, service, command, clicks>>

SetupLoaded(i) ==
    /\ Running /\ shows[i].at = "setup"
    /\ LET v == IF viewer.load = i THEN [viewer EXCEPT !.page = "setup", !.load = NoLoad] ELSE viewer
       IN viewer' = IF shows[i].again THEN ScheduleReconnect(v) ELSE v
    /\ shows' = [shows EXCEPT ![i] = Idle]
    /\ UNCHANGED <<pipes, service, command, outages, clicks>>

\* The catch of connectAndShow gives up its own connection, shows the setup page
\* where no live page is worth keeping, and schedules the next attempt.
CatchConnect(i) ==
    LET c == shows[i].own
        v == IF c # NoPipe /\ viewer.connection = c THEN Disconnected(viewer) ELSE viewer
        setup == ~LiveDocument(v) /\ ~shows[i].live /\ ~v.setupVisible
    IN /\ viewer' = IF setup THEN ShowSetup(v, i)
                    ELSE ScheduleReconnect(IF LiveDocument(v) \/ shows[i].live THEN v ELSE ShowSetup(v, i))
       /\ pipes' = IF c # NoPipe /\ viewer.connection = c THEN ClosePipe(c) ELSE pipes
       /\ shows' = [Closed(IF viewer.connection = c THEN c ELSE NoPipe) EXCEPT
                       ![i] = IF setup THEN [Idle EXCEPT !.kind = shows[i].kind, !.at = "setup", !.again = TRUE]
                              ELSE Idle]

Rejected(i) ==
    /\ viewer.run = "running" /\ shows[i].at = "rejected"
    /\ IF shows[i].kind = "save"
       THEN shows' = [shows EXCEPT ![i] = Idle] /\ UNCHANGED <<viewer, pipes>>
       ELSE CatchConnect(i)
    /\ UNCHANGED <<service, command, outages, clicks>>

--------------------------------------------------------------------------------
\* The pipe of connection c fails: onDisconnect, for the connection in use only.
PipeFails(c, i) ==
    /\ Running /\ pipes[c] = "cut"
    /\ pipes' = [pipes EXCEPT ![c] = "free"]
    /\ LET v == Disconnected(viewer)
           mine == viewer.connection = c
           setup == mine /\ ~LiveDocument(v) /\ ~v.setupVisible
       IN /\ IF setup THEN FreeShow(i) ELSE i = 1
          /\ viewer' = IF ~mine THEN viewer
                       ELSE IF setup THEN ShowSetup(v, i)
                       ELSE ScheduleReconnect(IF LiveDocument(v) THEN v ELSE ShowSetup(v, i))
          /\ shows' = IF setup THEN [RejectPending(c) EXCEPT ![i] =
                                        [Idle EXCEPT !.kind = "drop", !.at = "setup", !.again = TRUE]]
                      ELSE RejectPending(c)
    /\ UNCHANGED <<service, command, outages, clicks>>

\* pulse runs only for the connection and the lease it was started with.
Beating(c) == viewer.heartbeat.pipe = c /\ viewer.connection = c /\ viewer.heartbeat.lease = viewer.lease

\* A heartbeat refused by the service terminates the connection.
HeartbeatRefused(c) ==
    /\ Running /\ pipes[c] = "open" /\ Beating(c)
    /\ service.holder # c \/ viewer.lease # c
    /\ pipes' = [pipes EXCEPT ![c] = "cut"]
    /\ service' = [service EXCEPT !.holder = IF @ = c THEN NoPipe ELSE @]
    /\ UNCHANGED <<viewer, shows, command, outages, clicks>>

--------------------------------------------------------------------------------
\* The setup page and the menu.
Clicks == Running /\ clicks < MaxClicks /\ clicks' = clicks + 1 /\ UNCHANGED outages

RetryConnection(i) ==
    /\ Clicks /\ viewer.page = "setup"
    /\ Begin(i, "retry")
    /\ UNCHANGED <<service, command>>

Configure(i) ==
    /\ Clicks /\ viewer.page = "setup" /\ viewer.connection # NoPipe /\ FreeShow(i)
    /\ shows' = [shows EXCEPT ![i] = [Idle EXCEPT !.kind = "save", !.at = "configuring", !.on = viewer.connection]]
    /\ UNCHANGED <<viewer, pipes, service, command>>

\* A pipe answers in order: the status is always the first thing asked on it.
ConfigureArrives(i) ==
    /\ Running /\ shows[i].at = "configuring" /\ pipes[shows[i].on] = "open"
    /\ \A j \in Shows : shows[j].on = shows[i].on => shows[j].at # "status"
    /\ \/ /\ service' = [service EXCEPT !.configured = TRUE]
          /\ ShowLive(i)
       \/ /\ shows' = [shows EXCEPT ![i].at = "rejected"]
          /\ UNCHANGED <<viewer, pipes, service, command>>
    /\ UNCHANGED <<outages, clicks>>

OpenSetup(i) ==
    /\ Clicks /\ FreeShow(i)
    /\ viewer' = ShowSetup(viewer, i)
    /\ shows' = IF viewer.setupVisible THEN shows
                ELSE [shows EXCEPT ![i] = [Idle EXCEPT !.kind = "menu", !.at = "setup"]]
    /\ UNCHANGED <<pipes, service, command>>

Quit ==
    /\ Clicks
    /\ viewer' = [viewer EXCEPT !.run = "exited"]
    /\ UNCHANGED <<shows, pipes, service, command>>

--------------------------------------------------------------------------------
\* A line of the pipe that is a command goes to its handler, beside the answers awaited.
ReceivesCommand(type, at) == command' = [type |-> type, on |-> viewer.connection, at |-> at]

\* executeViewerCommand: the result is reported over the pipe the command came on.
CommandArrives(type) ==
    /\ Running /\ command.at = "idle" /\ clicks < MaxClicks
    /\ service.holder # NoPipe /\ service.holder = viewer.connection /\ pipes[viewer.connection] = "open"
    /\ viewer.lease # NoPipe
    /\ ReceivesCommand(type, IF type = "reload_live" /\ viewer.url THEN "reload"
                             ELSE IF type = "restart_viewer" THEN "succeeded"
                             ELSE IF viewer.url THEN "running" ELSE "failed")
    /\ viewer' = IF type = "reload_live" /\ viewer.url THEN [viewer EXCEPT !.load = Reload] ELSE viewer
    /\ clicks' = clicks + 1
    /\ UNCHANGED <<shows, pipes, service, outages>>

\* The reload ends, or the renderer answers, or its 10 s pass.
CommandRuns(ok) ==
    /\ Running
    /\ \/ /\ command.at = "running" /\ UNCHANGED viewer
       \/ /\ command.at = "reload" /\ (viewer.load = Reload \/ ~ok)
          /\ viewer' = IF viewer.load # Reload THEN viewer
                       ELSE [viewer EXCEPT !.load = NoLoad, !.page = IF ok THEN "live" ELSE @]
    /\ command' = [command EXCEPT !.at = IF ok THEN "succeeded" ELSE "failed"]
    /\ UNCHANGED <<shows, pipes, service, outages, clicks>>

\* The application restarts only once the service has accepted the result.
ResultReported ==
    /\ Running /\ command.at \in {"succeeded", "failed"}
    /\ viewer' = IF pipes[command.on] = "open" /\ command.at = "succeeded" /\ command.type = "restart_viewer"
                 THEN [viewer EXCEPT !.run = "exited"] ELSE viewer
    /\ command' = NoCommand
    /\ UNCHANGED <<shows, pipes, service, outages, clicks>>

--------------------------------------------------------------------------------
\* The Viewer Service.
ServiceStops ==
    /\ viewer.run = "running" /\ service.up /\ outages < MaxOutages /\ outages' = outages + 1
    /\ service' = [service EXCEPT !.up = FALSE, !.online = FALSE, !.holder = NoPipe]
    /\ pipes' = [c \in Pipes |-> CASE pipes[c] = "open" -> "cut" [] pipes[c] = "ended" -> "free" [] OTHER -> pipes[c]]
    /\ UNCHANGED <<viewer, shows, command, clicks>>

ServiceStarts ==
    /\ viewer.run = "running" /\ ~service.up /\ service' = [service EXCEPT !.up = TRUE]
    /\ UNCHANGED <<viewer, shows, pipes, command, outages, clicks>>

ServerFound ==
    /\ viewer.run = "running" /\ service.up /\ service.configured /\ ~service.online
    /\ service' = [service EXCEPT !.online = TRUE]
    /\ UNCHANGED <<viewer, shows, pipes, command, outages, clicks>>

ServerLost ==
    /\ viewer.run = "running" /\ service.online /\ outages < MaxOutages /\ outages' = outages + 1
    /\ service' = [service EXCEPT !.online = FALSE]
    /\ UNCHANGED <<viewer, shows, pipes, command, clicks>>

\* The end of a pipe reaches the service later, which then frees the lease.
ServiceNotices(c) ==
    /\ viewer.run = "running" /\ pipes[c] = "ended"
    /\ pipes' = [pipes EXCEPT ![c] = "free"]
    /\ service' = [service EXCEPT !.holder = IF @ = c THEN NoPipe ELSE @]
    /\ UNCHANGED <<viewer, shows, command, outages, clicks>>

LeaseExpires(c) ==
    /\ viewer.run = "running" /\ service.holder = c /\ pipes[c] = "open" /\ ~Beating(c)
    /\ service' = [service EXCEPT !.holder = NoPipe]
    /\ pipes' = [pipes EXCEPT ![c] = "cut"]
    /\ UNCHANGED <<viewer, shows, command, outages, clicks>>

--------------------------------------------------------------------------------
ViewerStep(i) ==
    \/ ReconnectDue(i) \/ ConnectFails(i) \/ StatusArrives(i) \/ LeaseArrives(i) \/ LiveLoaded(i)
    \/ LoadSuperseded(i) \/ SetupLoaded(i) \/ Rejected(i) \/ ConfigureArrives(i)
    \/ \E c \in Pipes : Connects(i, c) \/ PipeFails(c, i)

OperatorStep(i) == RetryConnection(i) \/ Configure(i) \/ OpenSetup(i)

ServiceStep == ServiceStarts \/ ServerFound \/ \E c \in Pipes : ServiceNotices(c) \/ LeaseExpires(c) \/ HeartbeatRefused(c)

AppNext ==
    \/ \E i \in Shows : ViewerStep(i) \/ OperatorStep(i) \/ LiveLoadFails(i) \/ AutoStartDeclined(i)
    \/ \E type \in ViewerCommandTypes : CommandArrives(type)
    \/ \E ok \in BOOLEAN : CommandRuns(ok)
    \/ ResultReported \/ Quit
    \/ ServiceStep \/ ServiceStops \/ ServerLost

AppSpec == AppInit /\ [][AppNext]_appVars

--------------------------------------------------------------------------------
\* While the Viewer runs, something is due that keeps the live page or brings it
\* back: a reconnect, a call in flight, a heartbeat, a connection about to be lost, a
\* lease about to expire; or the operator has the setup page, with a connection.
NeverAbandoned ==
    viewer.run = "running" =>
        \/ viewer.timer
        \/ \E i \in Shows : shows[i].at # "idle"
        \/ \E c \in Pipes :
              /\ viewer.connection = c
              /\ \/ pipes[c] = "cut"
                 \/ service.holder = c
                 \/ Beating(c)
                 \/ viewer.page = "setup"

\* A configured Viewer comes back to a live page with a heartbeat whatever happened to
\* the service, unless it quits; only a save whose live page failed to load leaves it
\* on the setup page, with its lease, for the operator to save again.
ReturnsToLive ==
    viewer.run = "running" ~>
        \/ viewer.run # "running" \/ ~service.configured
        \/ \E c \in Pipes :
              Beating(c) /\ service.holder = c /\ (LiveDocument(viewer) \/ viewer.page = "setup")

\* The active Viewer, the one that holds the lease, does not quit because of its service.
NeverQuitsActive ==
    [][viewer'.run = "gaveUp" /\ viewer.run = "running" => viewer.lease = NoPipe]_appVars
===============================================================================
