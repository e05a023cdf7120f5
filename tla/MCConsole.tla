------------------------------- MODULE MCConsole -------------------------------
(*****************************************************************************)
(* The components of the console and of the Viewer's screen, for TLC.  They  *)
(* share no state, so one behaviour runs one of them, chosen in the initial  *)
(* state; the others stay as they start.                                     *)
(*****************************************************************************)
EXTENDS LivePlayback, PtzControl, PlaybackConnection, RecordedPlayback, ViewerApp,
        LiveLayouts, ViewerPanels, WindowsTarget, RecordingBrowser, ViewerBridge, LiveTiles

CONSTANT Parts   \* bound: the components this run is about
VARIABLE part

consoleVars == <<part, tileVars, ptzVars, linkVars, recVars, appVars, layoutVars, panelVars, targetVars,
                 browserVars, bridgeVars, tilesVars>>

\* Recordings of two cameras: a short gap, a long one, and one that begins later.
TwoCameras == [k \in Cameras |-> IF k = "north" THEN {<<0, 1>>, <<2, 3>>} ELSE {<<2, 3>>}]

FewRecordings == {<<"n", 1>>, <<"n", 5>>, <<"s", 1>>}

ConsoleInit ==
    /\ part \in Parts /\ TileInit /\ PtzInit /\ LinkInit /\ RecInit /\ AppInit /\ LayoutInit
    /\ PanelInit /\ TargetInit /\ BrowserInit /\ BridgeInit /\ TilesInit
    /\ part # "rec" => view = "live"
    /\ part # "layout" => saved = <<>>
    /\ part # "target" => remote.stale = {}

\* Component p takes the step A and the others stand still.
Step(p, A) ==
    /\ part = p /\ A /\ UNCHANGED part
    /\ IF p = "tile" THEN TRUE ELSE UNCHANGED tileVars
    /\ IF p = "ptz" THEN TRUE ELSE UNCHANGED ptzVars
    /\ IF p = "link" THEN TRUE ELSE UNCHANGED linkVars
    /\ IF p = "rec" THEN TRUE ELSE UNCHANGED recVars
    /\ IF p = "app" THEN TRUE ELSE UNCHANGED appVars
    /\ IF p = "layout" THEN TRUE ELSE UNCHANGED layoutVars
    /\ IF p = "panel" THEN TRUE ELSE UNCHANGED panelVars
    /\ IF p = "target" THEN TRUE ELSE UNCHANGED targetVars
    /\ IF p = "browser" THEN TRUE ELSE UNCHANGED browserVars
    /\ IF p = "bridge" THEN TRUE ELSE UNCHANGED bridgeVars
    /\ IF p = "tiles" THEN TRUE ELSE UNCHANGED tilesVars

ConsoleNext ==
    \/ Step("tile", TileNext)
    \/ Step("ptz", PtzNext)
    \/ Step("link", LinkNext)
    \/ Step("rec", RecNext)
    \/ Step("app", AppNext)
    \/ Step("layout", LayoutNext)
    \/ Step("panel", PanelNext)
    \/ Step("target", TargetNext)
    \/ Step("browser", BrowserNext)
    \/ Step("bridge", BridgeNext)
    \/ Step("tiles", TilesNext)

ConsoleFairness ==
    /\ WF_consoleVars(Step("tile", Timers)) /\ WF_consoleVars(Step("tile", Tick))
    /\ WF_consoleVars(Step("tile", MediaProgresses))
    /\ WF_consoleVars(Step("tile", ProbeSucceeds)) /\ WF_consoleVars(Step("tile", ProbeFails))
    /\ \A r \in Requests :
        /\ WF_consoleVars(Step("ptz", ServerStep(r) \/ Answered(r)))
        /\ SF_consoleVars(Step("ptz", GateOpens(r)))
    /\ WF_consoleVars(Step("ptz", MoveTimesOut))
    /\ WF_consoleVars(Step("link", ProbeDeadline)) /\ WF_consoleVars(Step("link", UpdateEnds))
    /\ WF_consoleVars(Step("rec", HoldsBack)) /\ WF_consoleVars(Step("rec", Drives))
    /\ SF_consoleVars(Step("rec", CursorMoves))
    /\ \A k \in Cameras :
        /\ WF_consoleVars(Step("rec", Loads(k) \/ GivesUp(k)))
        /\ WF_consoleVars(Step("rec", Advances(k) \/ Ended(k)))
    /\ WF_consoleVars(Step("rec", \E i \in Ids : Settles(i)))
    /\ \A i \in Shows : WF_consoleVars(Step("app", ViewerStep(i)))
    /\ \A c \in Pipes : WF_consoleVars(Step("app", ServiceNotices(c)))
    /\ WF_consoleVars(Step("app", \E c \in Pipes : LeaseExpires(c) \/ HeartbeatRefused(c)))
    /\ WF_consoleVars(Step("app", ServiceStarts \/ ServerFound))
    /\ WF_consoleVars(Step("app", ResultReported \/ \E ok \in BOOLEAN : CommandRuns(ok)))

ConsoleSpec == ConsoleInit /\ [][ConsoleNext]_consoleVars
ConsoleFairSpec == ConsoleSpec /\ ConsoleFairness

\* VIEW: the others stand still, so states are told apart by the component that runs.
ShownPart ==
    CASE part = "tile" -> <<part, tileVars>> [] part = "ptz" -> <<part, ptzVars>>
      [] part = "link" -> <<part, linkVars>> [] part = "rec" -> <<part, recVars>>
      [] part = "app" -> <<part, appVars>> [] part = "layout" -> <<part, layoutVars>>
      [] part = "panel" -> <<part, panelVars>> [] part = "target" -> <<part, targetVars>>
      [] part = "browser" -> <<part, browserVars>> [] part = "bridge" -> <<part, bridgeVars>>
      [] part = "tiles" -> <<part, tilesVars>>

ConsoleTypeOK == TileTypeOK /\ PtzTypeOK /\ LinkTypeOK /\ RecTypeOK /\ AppTypeOK
                 /\ LayoutTypeOK /\ PanelTypeOK /\ TargetTypeOK /\ BrowserTypeOK /\ BridgeTypeOK
                 /\ TilesTypeOK

\* The liveness of each component, in the behaviours in which it runs.
TilePlaysPrimaryAgain == part = "tile" => PrimaryComesBack
PtzConverges == part = "ptz" => CameraComesToRest /\ SeekGetsThrough
LinkMakesProgress == part = "link" => WaitingMediaIsAppended /\ ProbeReturns
RecordingPlaysOn == part = "rec" => BarrierOpens /\ PlaybackGoesOn
ViewerComesBack == part = "app" => ReturnsToLive
===============================================================================
