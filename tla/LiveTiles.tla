------------------------------- MODULE LiveTiles -------------------------------
(*****************************************************************************)
(* The tiles of the live page (CameraGrid and CameraTile of                  *)
(* LiveWorkspace.tsx): which camera is selected, which tile fills the grid,  *)
(* and how far the picture of a recording is enlarged and moved in its tile  *)
(* (RecordedVideoViewport.tsx; the live picture has the same handlers).      *)
(*                                                                           *)
(* Lengths are half tiles: a tile of the grid is two wide, a focused one     *)
(* four.  Only the horizontal axis is kept.                                  *)
(*****************************************************************************)
EXTENDS Integers, FiniteSets

CONSTANTS
    Grid,        \* the cameras
    MaxPicks,     \* bound: what the operator and the camera list do
    SteadyDrags   \* while a picture is dragged the pointer does nothing else

NoTile == "none"
ASSUME GridAssumption ==
    IsFiniteSet(Grid) /\ NoTile \notin Grid /\ MaxPicks \in Nat /\ SteadyDrags \in BOOLEAN

VARIABLES
    present,    \* rows: the enabled cameras
    arranged,   \* the cameras of the arrangement
    selected,   \* selectedStream
    focused,    \* zoomedStream
    replaying,  \* workspace.mode = "playback"
    pictures,   \* recordedViewports
    drag,       \* dragRef and the window's listeners
    picks,
    chosen,     \* history: the enlargement the operator last chose
    elsewhere   \* history: another camera was picked from the list since the focus

tilesVars == <<present, arranged, selected, focused, replaying, pictures, drag, picks, chosen, elsewhere>>

Scales == 1..3
Plain == [scale |-> 1, at |-> 0]
NoDrag == [of |-> NoTile, held |-> FALSE, x |-> 0, scale |-> 1, at |-> 0]
Edges == -2..2

TilesTypeOK ==
    /\ present \subseteq Grid /\ arranged \subseteq Grid
    /\ {selected, focused} \subseteq Grid \cup {NoTile} /\ replaying \in BOOLEAN
    /\ pictures \in [Grid -> [scale : Scales, at : -4..4]]
    /\ drag \in [of : Grid \cup {NoTile}, held : BOOLEAN, x : Edges, scale : Scales, at : -4..4]
    /\ picks \in 0..MaxPicks /\ chosen \in [Grid -> Scales] /\ elsewhere \in BOOLEAN

TilesInit ==
    /\ present = {} /\ arranged = {} /\ selected = NoTile /\ focused = NoTile /\ replaying = FALSE
    /\ pictures = [c \in Grid |-> Plain] /\ drag = NoDrag /\ picks = 0
    /\ chosen = [c \in Grid |-> 1] /\ elsewhere = FALSE

-----------------------------------------------------------------------------
Picks == picks < MaxPicks /\ picks' = picks + 1
PointerFree == Picks /\ (SteadyDrags => ~drag.held)
PictureKept == UNCHANGED <<pictures, drag, chosen>>
FocusKept == UNCHANGED <<focused, elsewhere>>

InList(c) == c \in present
InGrid(c) == c \in present \cap arranged
Dimmed(c) == focused \in present /\ c # focused    \* takes no click
FirstOf(S) == IF S = {} THEN NoTile ELSE CHOOSE c \in S : TRUE

\* A tile that is taken off the page takes the frame with it: its listeners stay
\* until the button is released but do nothing.
TileGoes(on) == drag' = IF on THEN drag ELSE [drag EXCEPT !.of = NoTile]

\* The effect of a selected camera that is no longer among the rows.
FocusAfter(R) == IF selected \in R \cup {NoTile} THEN focused ELSE NoTile

\* The rows arrive: the first selection and the first arrangement are made from them.
RowsChange(R) ==
    /\ Picks /\ R # present
    /\ present' = R /\ arranged' = IF arranged = {} THEN R ELSE arranged
    /\ selected' = IF selected = NoTile THEN FirstOf(R) ELSE selected
    /\ focused' = FocusAfter(R)
    /\ TileGoes(drag.of \in R)
    /\ UNCHANGED <<replaying, pictures, chosen, elsewhere>>

\* The PTZ panel has stopped its move: the first camera is selected instead.
SelectionMoves ==
    /\ selected \notin present \cup {NoTile}
    /\ selected' = FirstOf(present)
    /\ UNCHANGED <<present, arranged, replaying, picks>> /\ FocusKept /\ PictureKept

\* A click on a tile or a row of the list.
SelectCamera(c) ==
    /\ PointerFree /\ InList(c) /\ c # selected
    /\ selected' = c /\ elsewhere' = (elsewhere \/ focused \notin {c, NoTile})
    /\ UNCHANGED <<present, arranged, focused, replaying>> /\ PictureKept

ToggleZoom(c) ==
    /\ PointerFree /\ InGrid(c) /\ ~Dimmed(c)
    /\ selected' = c /\ elsewhere' = FALSE
    /\ focused' = IF focused = c THEN NoTile ELSE c
    /\ UNCHANGED <<present, arranged, replaying>> /\ PictureKept

EscapeFocus ==
    /\ Picks /\ focused # NoTile
    /\ focused' = NoTile /\ elsewhere' = FALSE
    /\ UNCHANGED <<present, arranged, selected, replaying>> /\ PictureKept

\* A saved layout is merged with the cameras there are.
Rearrange ==
    /\ PointerFree /\ arranged' = present /\ present # {} /\ arranged # present
    /\ TileGoes(drag.of \in arranged')
    /\ UNCHANGED <<present, selected, replaying, pictures, chosen>> /\ FocusKept

SeekRecording ==
    /\ PointerFree /\ ~replaying /\ replaying' = TRUE
    /\ UNCHANGED <<present, arranged, selected>> /\ FocusKept /\ PictureKept

BackToLive ==
    /\ PointerFree /\ replaying /\ replaying' = FALSE
    /\ pictures' = [c \in Grid |-> Plain] /\ chosen' = [c \in Grid |-> 1]
    /\ TileGoes(FALSE)
    /\ UNCHANGED <<present, arranged, selected>> /\ FocusKept

-----------------------------------------------------------------------------
\* The picture in its tile.
Width(c) == IF focused = c THEN 4 ELSE 2

\* a mutant: a value is held above the lower bound only
WithinBelow(v, low, high) == IF v < low THEN low ELSE v

Within(v, low, high) == IF v < low THEN low ELSE IF v > high THEN high ELSE v

ClampViewport(scale, at, width) ==
    LET reach == ((scale - 1) * width) \div 2
    IN IF scale = 1 THEN Plain ELSE [scale |-> scale, at |-> Within(at, -reach, reach)]

OnPicture(c) == replaying /\ InGrid(c) /\ ~Dimmed(c)
              /\ UNCHANGED <<present, arranged, selected, replaying, elsewhere, focused>>

ShowPicture(c, picture) == pictures' = [pictures EXCEPT ![c] = picture]

\* The point under the pointer, x from the centre, stays where it is.
WheelPicture(c, x, closer) ==
    /\ PointerFree /\ OnPicture(c)
    /\ LET old == pictures[c]
           scale == Within(IF closer THEN old.scale + 1 ELSE old.scale - 1, 1, 3)
           at == (old.at * scale - x * (scale - old.scale)) \div old.scale
       IN /\ ShowPicture(c, ClampViewport(scale, at, Width(c)))
          /\ chosen' = [chosen EXCEPT ![c] = scale]
    /\ UNCHANGED drag

ResetPicture(c) ==
    /\ PointerFree /\ OnPicture(c)
    /\ ShowPicture(c, Plain) /\ chosen' = [chosen EXCEPT ![c] = 1] /\ UNCHANGED drag

\* The enlargement of this moment is what every move of the drag will show.
GrabPicture(c, x) ==
    /\ PointerFree /\ OnPicture(c) /\ pictures[c].scale > 1
    /\ drag' = [of |-> c, held |-> TRUE, x |-> x, scale |-> pictures[c].scale, at |-> pictures[c].at]
    /\ UNCHANGED <<pictures, chosen>>

MovePicture(x) ==
    /\ drag.of # NoTile /\ replaying
    /\ ShowPicture(drag.of, ClampViewport(drag.scale, drag.at + x - drag.x, Width(drag.of)))
    /\ UNCHANGED <<present, arranged, selected, replaying, elsewhere, focused, drag, chosen, picks>>

\* a mutant: the listeners stay when the button is released
ReleasePictureLeaks ==
    /\ drag.held /\ drag' = [drag EXCEPT !.held = FALSE]
    /\ UNCHANGED <<present, arranged, selected, focused, elsewhere, replaying, pictures, chosen, picks>>

ReleasePicture ==
    /\ drag.held /\ drag' = NoDrag
    /\ UNCHANGED <<present, arranged, selected, focused, elsewhere, replaying, pictures, chosen, picks>>

TilesNext ==
    \/ \E R \in SUBSET Grid : RowsChange(R)
    \/ \E c \in Grid : SelectCamera(c) \/ ToggleZoom(c) \/ ResetPicture(c)
    \/ \E c \in Grid, x \in Edges : GrabPicture(c, x) \/ \E closer \in BOOLEAN : WheelPicture(c, x, closer)
    \/ \E x \in Edges : MovePicture(x)
    \/ SelectionMoves \/ EscapeFocus \/ Rearrange \/ SeekRecording \/ BackToLive \/ ReleasePicture

TilesSpec == TilesInit /\ [][TilesNext]_tilesVars

-----------------------------------------------------------------------------
\* The enlargement is the one the operator last chose, also after a drag whose end or
\* whose tile the page lost, and no picture is moved out of the widest tile.
PicturesAsChosen ==
    \A c \in Grid : /\ pictures[c].scale = chosen[c]
                    /\ pictures[c].at \in -(2 * (chosen[c] - 1))..(2 * (chosen[c] - 1))

\* A tile that comes back to the page does not come back in front of the others: what
\* fills the grid is the selected camera, unless another was picked from the list.
FocusIsSelected == focused = NoTile \/ elsewhere \/ focused = selected

\* RecordedVideoViewport.tsx and the effects of LiveWorkspace.tsx on the selection.
TilesAsChosen == PicturesAsChosen /\ FocusIsSelected
===============================================================================
