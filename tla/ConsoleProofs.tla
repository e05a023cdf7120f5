------------------------------ MODULE ConsoleProofs ------------------------------
(*****************************************************************************)
(* Proofs about the console and the Viewer's screen as a whole.  The parts   *)
(* share no state, so every behaviour of the whole is one of each part, and  *)
(* what is proved of a part holds of it here.                                *)
(*****************************************************************************)
EXTENDS MCConsole, PlaybackProofs, LivePictureProofs, ViewerPcProofs, ConsolePageProofs

PartsStart ==
    /\ TileInit /\ PtzInit /\ LinkInit /\ RecInit /\ AppInit /\ LayoutInit
    /\ PanelInit /\ TargetInit /\ BrowserInit /\ BridgeInit /\ TilesInit
PartsMove ==
    /\ [TileNext]_tileVars /\ [PtzNext]_ptzVars /\ [LinkNext]_linkVars /\ [RecNext]_recVars
    /\ [AppNext]_appVars /\ [LayoutNext]_layoutVars /\ [PanelNext]_panelVars
    /\ [TargetNext]_targetVars /\ [BrowserNext]_browserVars /\ [BridgeNext]_bridgeVars
    /\ [TilesNext]_tilesVars

LEMMA ConsoleStarts == ConsoleInit => PartsStart
BY DEF ConsoleInit, PartsStart

\* Whoever takes a step, the others stand still.
LEMMA OneMoves ==
    ASSUME [ConsoleNext]_consoleVars
    PROVE  PartsMove
<1>1. CASE UNCHANGED consoleVars
  BY <1>1 DEF consoleVars, PartsMove
<1>2. CASE \/ Step("tile", TileNext) \/ Step("ptz", PtzNext) \/ Step("link", LinkNext)
           \/ Step("rec", RecNext) \/ Step("app", AppNext) \/ Step("layout", LayoutNext)
  BY <1>2 DEF Step, PartsMove
<1>3. CASE \/ Step("panel", PanelNext) \/ Step("target", TargetNext)
           \/ Step("browser", BrowserNext) \/ Step("bridge", BridgeNext)
           \/ Step("tiles", TilesNext)
  BY <1>3 DEF Step, PartsMove
<1> QED
  BY <1>1, <1>2, <1>3 DEF ConsoleNext

\* Every behaviour of the console is a behaviour of each of its parts, so every
\* theorem about a part is one about the console (the composition of run console).
THEOREM ConsoleRunsItsParts ==
    ConsoleSpec => /\ TileSpec /\ PtzSpec /\ LinkSpec /\ RecSpec /\ AppSpec /\ LayoutSpec
                   /\ PanelSpec /\ TargetSpec /\ BrowserSpec /\ BridgeSpec /\ TilesSpec
<1>1. ConsoleInit => PartsStart
  BY ConsoleStarts
<1>2. [ConsoleNext]_consoleVars => PartsMove
  BY OneMoves
<1>3. [ConsoleNext]_consoleVars =>
      /\ [TileNext]_tileVars /\ [PtzNext]_ptzVars /\ [LinkNext]_linkVars /\ [RecNext]_recVars
      /\ [AppNext]_appVars /\ [LayoutNext]_layoutVars /\ [PanelNext]_panelVars
      /\ [TargetNext]_targetVars /\ [BrowserNext]_browserVars /\ [BridgeNext]_bridgeVars
      /\ [TilesNext]_tilesVars
  BY <1>2 DEF PartsMove
<1>4. ConsoleInit => /\ TileInit /\ PtzInit /\ LinkInit /\ RecInit /\ AppInit /\ LayoutInit
                     /\ PanelInit /\ TargetInit /\ BrowserInit /\ BridgeInit /\ TilesInit
  BY <1>1 DEF PartsStart
<1> QED
  BY <1>3, <1>4, PTL DEF ConsoleSpec, TileSpec, PtzSpec, LinkSpec, RecSpec, AppSpec, LayoutSpec,
     PanelSpec, TargetSpec, BrowserSpec, BridgeSpec, TilesSpec

\* Type correctness of the whole, where connects do not overlap in the Viewer.
THEOREM ConsoleTypeCorrect ==
    ASSUME ~ConnectsOverlap
    PROVE  ConsoleSpec => []ConsoleTypeOK
<1>1. /\ TileInv => TileTypeOK
      /\ PtzInv => PtzTypeOK
      /\ AppInv => AppTypeOK
      /\ TargetInv => TargetTypeOK
  BY DEF TileInv, PtzInv, AppInv, TargetInv
<1>2. PanelInv => PanelTypeOK
  BY DEF PanelInv, PanelData, PanelTypeOK, FormValues, Mutations
<1>3. /\ TileTypeOK /\ PtzTypeOK /\ LinkTypeOK /\ RecTypeOK /\ AppTypeOK /\ LayoutTypeOK
      /\ PanelTypeOK /\ TargetTypeOK /\ BrowserTypeOK /\ BridgeTypeOK /\ TilesTypeOK
      => ConsoleTypeOK
  BY DEF ConsoleTypeOK
<1> QED
  BY <1>1, <1>2, <1>3, ConsoleRunsItsParts, TileInvariant, PtzInvariant, ConnectionType,
     PlaybackTypeCorrect, ViewerInvariant, WhatIsShownCleanIsSaved, ConfirmationsAreCurrent,
     OperationsEndClean, SeeksAreServedOnce, ViewerReportsWhatWasDone, FocusFollowsSelection, PTL
===============================================================================
