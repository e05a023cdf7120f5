-------------------------- MODULE ConsolePageProofs ---------------------------
(*****************************************************************************)
(* Proofs about four parts of the console, for any number of gestures and    *)
(* requests: the tiles of the live page and their arrangement, the panels    *)
(* from which Viewers are commanded, and the browser of the recordings.      *)
(*                                                                           *)
(* Tiles: the picture a tile shows is the one the operator left there.  A    *)
(* drag that is under way starts from what was chosen and never leaves the   *)
(* frame, and the tile in focus is a selected one, because every way a       *)
(* selection disappears takes its focus with it.                             *)
(*                                                                           *)
(* Panels: what is armed or half confirmed was asked for of the Viewer that  *)
(* is selected (FormBacked), whatever the polls bring in between.            *)
(*                                                                           *)
(* Recordings: a request is owed one seek until the effect has handled it    *)
(* (RequestsOwe), a press until it has become a pan (GestureOwes), and the   *)
(* recording that is highlighted belongs to the day and camera shown.        *)
(*                                                                           *)
(* Arrangements: page and server are in step (InStep) between two requests,  *)
(* and while the operator waits for one its answer is about what is shown    *)
(* (Waits).  Nothing is said once the operator went on during a request.     *)
(*****************************************************************************)
EXTENDS LiveTiles, ViewerPanels, RecordingBrowser, LiveLayouts, SequenceTheorems, TLAPS

-----------------------------------------------------------------------------
(* The tiles of the live page.                                             *)

At == -4..4
PictureValues == [scale : Scales, at : At]
DragValues == [of : Grid \cup {NoTile}, held : BOOLEAN, x : Edges, scale : Scales, at : At]

\* A selection that is gone, or was never made, has no focus.
FocusNeedsSelection == selected \notin present => focused = NoTile

\* A tile under the pointer is being dragged, at the enlargement the operator chose for it.
DragIsCurrent == drag.of # NoTile => drag.held /\ drag.scale = chosen[drag.of]

LEMMA FirstIsThere ==
    ASSUME NEW S \in SUBSET Grid
    PROVE  FirstOf(S) \in Grid \cup {NoTile} /\ (S # {} => FirstOf(S) \in S) /\ (S = {} => FirstOf(S) = NoTile)
<1>1. CASE S = {}
  BY <1>1 DEF FirstOf
<1>2. CASE S # {}
  <2>1. (CHOOSE c \in S : TRUE) \in S
    BY <1>2
  <2> QED
    BY <1>2, <2>1 DEF FirstOf
<1> QED
  BY <1>1, <1>2

LEMMA WithinBounds ==
    ASSUME NEW v \in Int, NEW low \in Int, NEW high \in Int, low <= high
    PROVE  Within(v, low, high) \in low..high
BY DEF Within

\* The picture is held inside its tile, and never outside the widest.
LEMMA ClampHolds ==
    ASSUME NEW s \in Scales, NEW at \in Int, NEW w \in {2, 4}
    PROVE  /\ ClampViewport(s, at, w) \in PictureValues
           /\ ClampViewport(s, at, w).scale = s
           /\ ClampViewport(s, at, w).at \in -(2 * (s - 1))..(2 * (s - 1))
<1> DEFINE reach == ((s - 1) * w) \div 2
<1>1. reach \in 0..(2 * (s - 1)) /\ reach \in 0..4 /\ s \in 1..3
  BY DEF Scales
<1>2. Within(at, -reach, reach) \in -reach..reach
  <2>1. reach \in Int /\ -reach \in Int /\ -reach <= reach
    BY <1>1
  <2> HIDE DEF reach
  <2> QED
    BY <2>1, WithinBounds
<1>3. ClampViewport(s, at, w) = IF s = 1 THEN Plain ELSE [scale |-> s, at |-> Within(at, -reach, reach)]
  BY DEF ClampViewport
<1> HIDE DEF reach
<1>4. CASE s = 1
  BY <1>3, <1>4 DEF Plain, PictureValues, Scales, At
<1>5. CASE s # 1
  <2>1. Within(at, -reach, reach) \in -(2 * (s - 1))..(2 * (s - 1)) /\ Within(at, -reach, reach) \in At
    BY <1>1, <1>2 DEF At
  <2> QED
    BY <1>3, <1>5, <2>1 DEF PictureValues
<1> QED
  BY <1>4, <1>5

LEMMA WidthOfTile == \A c : Width(c) \in {2, 4}
BY DEF Width

LEMMA PickCounted ==
    ASSUME picks \in 0..MaxPicks, Picks
    PROVE  picks' \in 0..MaxPicks
BY GridAssumption DEF Picks

\* Where the wheel takes a picture.
LEMMA WheelTyped ==
    ASSUME NEW old \in PictureValues, NEW x \in Edges, NEW n \in Int
    PROVE  /\ Within(n, 1, 3) \in Scales
           /\ (old.at * Within(n, 1, 3) - x * (Within(n, 1, 3) - old.scale)) \div old.scale \in Int
<1>1. Within(n, 1, 3) \in 1..3
  BY DEF Within
<1>2. old.at \in Int /\ old.scale \in 1..3 /\ x \in Int
  BY DEF PictureValues, Scales, At, Edges
<1>3. \A a, b, s \in Int : a * b - x * (b - s) \in Int
  BY <1>2
<1>4. \A a \in Int, s \in 1..3 : a \div s \in Int
  OBVIOUS
<1> QED
  BY <1>1, <1>2, <1>3, <1>4 DEF Scales

\* TilesTypeOK, part by part.
TilesTyped ==
    /\ present \in SUBSET Grid /\ arranged \in SUBSET Grid /\ selected \in Grid \cup {NoTile}
    /\ focused \in Grid \cup {NoTile} /\ replaying \in BOOLEAN /\ pictures \in [Grid -> PictureValues]
    /\ drag \in DragValues /\ picks \in 0..MaxPicks /\ chosen \in [Grid -> Scales] /\ elsewhere \in BOOLEAN

LEMMA TilesTypesOf == TilesTyped <=> TilesTypeOK
BY DEF TilesTyped, TilesTypeOK, PictureValues, DragValues, At

LEMMA TilesTypesInit == TilesInit => TilesTyped
<1>1. Plain \in PictureValues /\ NoDrag \in DragValues /\ 1 \in Scales
  BY DEF Plain, NoDrag, Scales, Edges, PictureValues, DragValues, At
<1>2. 0 \in 0..MaxPicks
  BY GridAssumption
<1> QED
  BY <1>1, <1>2 DEF TilesInit, TilesTyped

LEMMA TileGoesTyped ==
    ASSUME drag \in DragValues, NEW on \in BOOLEAN, TileGoes(on)
    PROVE  /\ drag' \in DragValues /\ drag'.held = drag.held /\ drag'.scale = drag.scale
           /\ drag'.of \in {drag.of, NoTile}
BY DEF TileGoes, DragValues

\* What a click on a picture leaves alone.
LEMMA PictureOnly ==
    ASSUME TilesTyped, NEW c, OnPicture(c)
    PROVE  /\ UNCHANGED <<present, arranged, selected, replaying, elsewhere, focused>>
           /\ c \in Grid /\ replaying
BY DEF OnPicture, InGrid, TilesTyped

LEMMA TilesKeepTypes ==
    ASSUME TilesTyped, [TilesNext]_tilesVars
    PROVE  TilesTyped'
<1> USE DEF TilesTyped
<1>1. ASSUME NEW R \in SUBSET Grid, RowsChange(R) PROVE TilesTyped'
  <2>1. picks' \in 0..MaxPicks
    BY <1>1, PickCounted DEF RowsChange
  <2>2. selected' \in Grid \cup {NoTile} /\ focused' \in Grid \cup {NoTile}
    BY <1>1, FirstIsThere DEF RowsChange, FocusAfter
  <2>3. (drag.of \in R) \in BOOLEAN /\ TileGoes(drag.of \in R)
    BY <1>1 DEF RowsChange
  <2>4. drag' \in DragValues
    BY <2>3, TileGoesTyped
  <2> QED
    BY <1>1, <2>1, <2>2, <2>4 DEF RowsChange
<1>2. ASSUME SelectionMoves PROVE TilesTyped'
  BY <1>2, FirstIsThere DEF SelectionMoves, FocusKept, PictureKept
<1>3. ASSUME NEW c \in Grid, SelectCamera(c) PROVE TilesTyped'
  <2>1. picks' \in 0..MaxPicks
    BY <1>3, PickCounted DEF SelectCamera, PointerFree
  <2>2. elsewhere' \in BOOLEAN
    BY <1>3, Zenon DEF SelectCamera
  <2> QED
    BY <1>3, <2>1, <2>2 DEF SelectCamera, PictureKept
<1>4. ASSUME NEW c \in Grid, ToggleZoom(c) PROVE TilesTyped'
  <2>1. picks' \in 0..MaxPicks
    BY <1>4, PickCounted DEF ToggleZoom, PointerFree
  <2> QED
    BY <1>4, <2>1 DEF ToggleZoom, PictureKept
<1>5. ASSUME EscapeFocus PROVE TilesTyped'
  <2>1. picks' \in 0..MaxPicks
    BY <1>5, PickCounted DEF EscapeFocus
  <2> QED
    BY <1>5, <2>1 DEF EscapeFocus, PictureKept
<1>6. ASSUME Rearrange PROVE TilesTyped'
  <2>1. picks' \in 0..MaxPicks
    BY <1>6, PickCounted DEF Rearrange, PointerFree
  <2>2. (drag.of \in arranged') \in BOOLEAN /\ TileGoes(drag.of \in arranged')
    BY <1>6 DEF Rearrange
  <2>3. drag' \in DragValues
    BY <1>6 DEF Rearrange, TileGoes, DragValues
  <2> QED
    BY <1>6, <2>1, <2>3 DEF Rearrange, FocusKept
<1>7. ASSUME SeekRecording PROVE TilesTyped'
  <2>1. picks' \in 0..MaxPicks
    BY <1>7, PickCounted DEF SeekRecording, PointerFree
  <2> QED
    BY <1>7, <2>1 DEF SeekRecording, FocusKept, PictureKept
<1>8. ASSUME BackToLive PROVE TilesTyped'
  <2>1. picks' \in 0..MaxPicks
    BY <1>8, PickCounted DEF BackToLive, PointerFree
  <2>2. drag' \in DragValues
    BY <1>8, TileGoesTyped DEF BackToLive
  <2>3. Plain \in PictureValues /\ 1 \in Scales
    BY DEF Plain, PictureValues, Scales, At
  <2> QED
    BY <1>8, <2>1, <2>2, <2>3 DEF BackToLive, FocusKept
<1>9. ASSUME NEW c \in Grid, NEW x \in Edges, NEW closer \in BOOLEAN, WheelPicture(c, x, closer)
      PROVE  TilesTyped'
  <2> DEFINE old == pictures[c]
             n == IF closer THEN old.scale + 1 ELSE old.scale - 1
             scale == Within(n, 1, 3)
             at == (old.at * scale - x * (scale - old.scale)) \div old.scale
  <2>1. picks' \in 0..MaxPicks
    BY <1>9, PickCounted DEF WheelPicture, PointerFree
  <2>2. old \in PictureValues /\ n \in Int
    BY DEF PictureValues, Scales
  <2>3. /\ pictures' = [pictures EXCEPT ![c] = ClampViewport(scale, at, Width(c))]
        /\ chosen' = [chosen EXCEPT ![c] = scale] /\ drag' = drag
    BY <1>9 DEF WheelPicture, ShowPicture
  <2> HIDE DEF old, n
  <2>4. scale \in Scales /\ at \in Int
    BY <2>2, WheelTyped
  <2> HIDE DEF scale, at
  <2>5. ClampViewport(scale, at, Width(c)) \in PictureValues
    BY <2>4, WidthOfTile, ClampHolds
  <2>6. pictures' \in [Grid -> PictureValues] /\ chosen' \in [Grid -> Scales]
    BY <2>3, <2>4, <2>5
  <2>7. UNCHANGED <<present, arranged, selected, replaying, elsewhere, focused>>
    BY <1>9, PictureOnly DEF WheelPicture
  <2> QED
    BY <2>1, <2>3, <2>6, <2>7
<1>10. ASSUME NEW c \in Grid, ResetPicture(c) PROVE TilesTyped'
  <2>1. picks' \in 0..MaxPicks
    BY <1>10, PickCounted DEF ResetPicture, PointerFree
  <2>2. UNCHANGED <<present, arranged, selected, replaying, elsewhere, focused, drag>>
    BY <1>10, PictureOnly DEF ResetPicture
  <2>3. Plain \in PictureValues /\ 1 \in Scales
    BY DEF Plain, PictureValues, Scales, At
  <2>4. pictures' \in [Grid -> PictureValues] /\ chosen' \in [Grid -> Scales]
    BY <1>10, <2>3 DEF ResetPicture, ShowPicture
  <2> QED
    BY <2>1, <2>2, <2>4
<1>11. ASSUME NEW c \in Grid, NEW x \in Edges, GrabPicture(c, x) PROVE TilesTyped'
  <2>1. picks' \in 0..MaxPicks
    BY <1>11, PickCounted DEF GrabPicture, PointerFree
  <2>2. UNCHANGED <<present, arranged, selected, replaying, elsewhere, focused, pictures, chosen>>
    BY <1>11, PictureOnly DEF GrabPicture
  <2>3. drag' \in DragValues
    BY <1>11 DEF GrabPicture, DragValues, PictureValues
  <2> QED
    BY <2>1, <2>2, <2>3
<1>12. ASSUME NEW x \in Edges, MovePicture(x) PROVE TilesTyped'
  <2> DEFINE at == drag.at + x - drag.x
  <2>1. /\ drag.of \in Grid /\ drag.scale \in Scales /\ at \in Int
        /\ pictures' = [pictures EXCEPT ![drag.of] = ClampViewport(drag.scale, at, Width(drag.of))]
    BY <1>12 DEF MovePicture, ShowPicture, DragValues, At, Edges
  <2> HIDE DEF at
  <2>2. ClampViewport(drag.scale, at, Width(drag.of)) \in PictureValues
    BY <2>1, WidthOfTile, ClampHolds
  <2>3. pictures' \in [Grid -> PictureValues]
    BY <2>1, <2>2
  <2> QED
    BY <1>12, <2>3 DEF MovePicture
<1>13. ASSUME ReleasePicture PROVE TilesTyped'
  <2>1. NoDrag \in DragValues
    BY DEF NoDrag, DragValues, Edges, Scales, At
  <2> QED
    BY <1>13, <2>1 DEF ReleasePicture
<1>14. ASSUME UNCHANGED tilesVars PROVE TilesTyped'
  BY <1>14 DEF tilesVars
<1> QED
  BY <1>1, <1>2, <1>3, <1>4, <1>5, <1>6, <1>7, <1>8, <1>9, <1>10, <1>11, <1>12, <1>13, <1>14 DEF TilesNext

\* What is selected and what fills the grid.
LEMMA TilesKeepFocus ==
    ASSUME TilesTyped, FocusIsSelected, FocusNeedsSelection, [TilesNext]_tilesVars
    PROVE  FocusIsSelected' /\ FocusNeedsSelection'
<1> USE DEF FocusIsSelected, FocusNeedsSelection
<1>0. NoTile \notin Grid /\ present \subseteq Grid
  BY GridAssumption DEF TilesTyped
<1>1. ASSUME NEW R \in SUBSET Grid, RowsChange(R) PROVE FocusIsSelected' /\ FocusNeedsSelection'
  BY <1>0, <1>1, FirstIsThere DEF RowsChange, FocusAfter
<1>2. ASSUME SelectionMoves PROVE FocusIsSelected' /\ FocusNeedsSelection'
  BY <1>0, <1>2, FirstIsThere DEF SelectionMoves, FocusKept
<1>3. ASSUME NEW c \in Grid, SelectCamera(c) PROVE FocusIsSelected' /\ FocusNeedsSelection'
  BY <1>3 DEF SelectCamera, InList
<1>4. ASSUME NEW c \in Grid, ToggleZoom(c) PROVE FocusIsSelected' /\ FocusNeedsSelection'
  BY <1>4 DEF ToggleZoom, InGrid
<1>5. ASSUME EscapeFocus PROVE FocusIsSelected' /\ FocusNeedsSelection'
  BY <1>5 DEF EscapeFocus
<1>6. ASSUME Rearrange \/ SeekRecording \/ BackToLive PROVE FocusIsSelected' /\ FocusNeedsSelection'
  BY <1>6 DEF Rearrange, SeekRecording, BackToLive, FocusKept
<1>7. ASSUME UNCHANGED <<present, selected, focused, elsewhere>> PROVE FocusIsSelected' /\ FocusNeedsSelection'
  BY <1>7
<1>8. ASSUME NEW c \in Grid, ResetPicture(c) \/ \E x \in Edges : GrabPicture(c, x) \/ \E closer \in BOOLEAN : WheelPicture(c, x, closer)
      PROVE  FocusIsSelected' /\ FocusNeedsSelection'
  BY <1>8, PictureOnly DEF ResetPicture, GrabPicture, WheelPicture
<1> QED
  BY <1>1, <1>2, <1>3, <1>4, <1>5, <1>6, <1>7, <1>8 DEF TilesNext, MovePicture, ReleasePicture, tilesVars

\* What a step does to the enlargements, while the pointer does nothing else during a drag.
LEMMA TilesKeepPictures ==
    ASSUME TilesTyped, PicturesAsChosen, DragIsCurrent, SteadyDrags, TilesNext
    PROVE  PicturesAsChosen' /\ DragIsCurrent'
<1>0. /\ pictures \in [Grid -> PictureValues] /\ chosen \in [Grid -> Scales] /\ drag \in DragValues
      /\ NoTile \notin Grid
  BY GridAssumption DEF TilesTyped
<1>1. ASSUME pictures' = pictures, chosen' = chosen PROVE PicturesAsChosen'
  BY <1>1 DEF PicturesAsChosen
<1>2. ASSUME drag'.of \in {drag.of, NoTile}, drag'.held = drag.held, drag'.scale = drag.scale,
             chosen' = chosen \/ drag'.of = NoTile
      PROVE  DragIsCurrent'
  BY <1>2 DEF DragIsCurrent
<1>3. ASSUME ~drag.held PROVE drag.of = NoTile
  BY <1>3 DEF DragIsCurrent
<1>4. ASSUME NEW R \in SUBSET Grid, RowsChange(R) PROVE PicturesAsChosen' /\ DragIsCurrent'
  <2>1. /\ drag'.of \in {drag.of, NoTile} /\ drag'.held = drag.held /\ drag'.scale = drag.scale
    BY <1>0, <1>4 DEF RowsChange, TileGoes, DragValues
  <2> QED
    BY <1>1, <1>2, <1>4, <2>1 DEF RowsChange
<1>5. ASSUME Rearrange PROVE PicturesAsChosen' /\ DragIsCurrent'
  <2>1. /\ drag'.of \in {drag.of, NoTile} /\ drag'.held = drag.held /\ drag'.scale = drag.scale
    BY <1>0, <1>5 DEF Rearrange, TileGoes, DragValues
  <2> QED
    BY <1>1, <1>2, <1>5, <2>1 DEF Rearrange
<1>6. ASSUME BackToLive PROVE PicturesAsChosen' /\ DragIsCurrent'
  <2>1. drag'.of = NoTile
    BY <1>0, <1>6 DEF BackToLive, TileGoes, DragValues
  <2>2. \A c \in Grid : pictures'[c] = Plain /\ chosen'[c] = 1
    BY <1>6 DEF BackToLive
  <2> QED
    BY <2>1, <2>2 DEF PicturesAsChosen, DragIsCurrent, Plain
\* The picture of one camera, and the choice with it.
<1>7. ASSUME NEW c \in Grid, NEW s \in Scales, NEW at \in Int,
             pictures' = [pictures EXCEPT ![c] = ClampViewport(s, at, Width(c))],
             chosen' = [chosen EXCEPT ![c] = s]
      PROVE  PicturesAsChosen'
  <2>1. /\ ClampViewport(s, at, Width(c)).scale = s
        /\ ClampViewport(s, at, Width(c)).at \in -(2 * (s - 1))..(2 * (s - 1))
    BY WidthOfTile, ClampHolds
  <2>2. \A d \in Grid : /\ pictures'[d] = IF d = c THEN ClampViewport(s, at, Width(c)) ELSE pictures[d]
                        /\ chosen'[d] = IF d = c THEN s ELSE chosen[d]
    BY <1>0, <1>7
  <2> SUFFICES ASSUME NEW d \in Grid
               PROVE  /\ pictures'[d].scale = chosen'[d]
                      /\ pictures'[d].at \in -(2 * (chosen'[d] - 1))..(2 * (chosen'[d] - 1))
    BY DEF PicturesAsChosen
  <2>3. CASE d = c
    BY <2>1, <2>2, <2>3
  <2>4. CASE d # c
    BY <2>2, <2>4 DEF PicturesAsChosen
  <2> QED
    BY <2>3, <2>4
<1>8. ASSUME NEW c \in Grid, NEW x \in Edges, NEW closer \in BOOLEAN, WheelPicture(c, x, closer)
      PROVE  PicturesAsChosen' /\ DragIsCurrent'
  <2> DEFINE old == pictures[c]
             n == IF closer THEN old.scale + 1 ELSE old.scale - 1
             scale == Within(n, 1, 3)
             at == (old.at * scale - x * (scale - old.scale)) \div old.scale
  <2>1. old \in PictureValues /\ n \in Int
    BY <1>0 DEF PictureValues, Scales
  <2>2. /\ pictures' = [pictures EXCEPT ![c] = ClampViewport(scale, at, Width(c))]
        /\ chosen' = [chosen EXCEPT ![c] = scale] /\ drag' = drag /\ ~drag.held
    BY <1>8 DEF WheelPicture, ShowPicture, PointerFree
  <2> HIDE DEF old, n
  <2>3. scale \in Scales /\ at \in Int
    BY <2>1, WheelTyped
  <2> HIDE DEF scale, at
  <2>4. PicturesAsChosen'
    BY <1>7, <2>2, <2>3
  <2>5. DragIsCurrent'
    BY <1>3, <2>2 DEF DragIsCurrent
  <2> QED
    BY <2>4, <2>5
<1>9. ASSUME NEW c \in Grid, ResetPicture(c) PROVE PicturesAsChosen' /\ DragIsCurrent'
  <2>1. /\ pictures' = [pictures EXCEPT ![c] = Plain] /\ chosen' = [chosen EXCEPT ![c] = 1]
        /\ drag' = drag /\ ~drag.held
    BY <1>9 DEF ResetPicture, ShowPicture, PointerFree
  <2>2. Plain = ClampViewport(1, 0, Width(c)) /\ 1 \in Scales
    BY DEF ClampViewport, Scales
  <2>3. pictures' = [pictures EXCEPT ![c] = ClampViewport(1, 0, Width(c))] /\ 0 \in Int
    BY <2>1, <2>2
  <2>4. PicturesAsChosen'
    BY <1>7, <2>1, <2>2, <2>3, Zenon
  <2> QED
    BY <1>3, <2>1, <2>4 DEF DragIsCurrent
<1>10. ASSUME NEW c \in Grid, NEW x \in Edges, GrabPicture(c, x) PROVE PicturesAsChosen' /\ DragIsCurrent'
  <2>1. /\ drag'.held /\ drag'.of = c /\ drag'.scale = pictures[c].scale
        /\ pictures' = pictures /\ chosen' = chosen
    BY <1>10 DEF GrabPicture
  <2> QED
    BY <1>1, <2>1 DEF DragIsCurrent, PicturesAsChosen
<1>11. ASSUME NEW x \in Edges, MovePicture(x) PROVE PicturesAsChosen' /\ DragIsCurrent'
  <2> DEFINE at == drag.at + x - drag.x
  <2>1. /\ drag.of \in Grid /\ drag.scale \in Scales /\ at \in Int
        /\ pictures' = [pictures EXCEPT ![drag.of] = ClampViewport(drag.scale, at, Width(drag.of))]
        /\ chosen' = chosen /\ drag' = drag
    BY <1>0, <1>11 DEF MovePicture, ShowPicture, DragValues, At, Edges
  <2> HIDE DEF at
  <2>2. chosen' = [chosen EXCEPT ![drag.of] = drag.scale]
    BY <1>0, <1>11, <2>1 DEF MovePicture, DragIsCurrent
  <2> QED
    BY <1>7, <2>1, <2>2 DEF DragIsCurrent
<1>12. ASSUME ReleasePicture PROVE PicturesAsChosen' /\ DragIsCurrent'
  BY <1>1, <1>12 DEF ReleasePicture, NoDrag, DragIsCurrent
<1>13. ASSUME PictureKept PROVE PicturesAsChosen' /\ DragIsCurrent'
  BY <1>1, <1>13 DEF PictureKept, DragIsCurrent
<1> QED
  BY <1>4, <1>5, <1>6, <1>8, <1>9, <1>10, <1>11, <1>12, <1>13
  DEF TilesNext, SelectionMoves, SelectCamera, ToggleZoom, EscapeFocus, SeekRecording

\* For any number of cameras and of steps, also while the pointer does other things during a
\* drag: what fills the grid is the selected camera, unless another was picked from the list
\* (the effects of LiveWorkspace.tsx on the selection).
THEOREM FocusFollowsSelection == TilesSpec => [](TilesTypeOK /\ FocusIsSelected)
<1> DEFINE Inv == TilesTyped /\ FocusIsSelected /\ FocusNeedsSelection
<1>1. TilesInit => Inv
  BY TilesTypesInit DEF TilesInit, FocusIsSelected, FocusNeedsSelection
<1>2. Inv /\ [TilesNext]_tilesVars => Inv'
  BY TilesKeepTypes, TilesKeepFocus
<1>3. Inv => TilesTypeOK /\ FocusIsSelected
  BY TilesTypesOf
<1> QED
  BY <1>1, <1>2, <1>3, PTL DEF TilesSpec

\* While the pointer does nothing else during a drag, the enlargement of every picture is the
\* one the operator last chose for it, and no picture leaves its tile
\* (RecordedVideoViewport.tsx).
THEOREM PicturesStayAsChosen ==
    ASSUME SteadyDrags
    PROVE  TilesSpec => []PicturesAsChosen
<1> DEFINE Inv == TilesTyped /\ PicturesAsChosen /\ DragIsCurrent
<1>1. TilesInit => Inv
  BY TilesTypesInit DEF TilesInit, PicturesAsChosen, DragIsCurrent, Plain, NoDrag
<1>2. Inv /\ [TilesNext]_tilesVars => Inv'
  <2> SUFFICES ASSUME Inv, [TilesNext]_tilesVars PROVE Inv'
    OBVIOUS
  <2>1. TilesTyped'
    BY TilesKeepTypes
  <2>2. CASE TilesNext
    BY <2>1, <2>2, TilesKeepPictures
  <2>3. CASE UNCHANGED tilesVars
    BY <2>1, <2>3 DEF tilesVars, PicturesAsChosen, DragIsCurrent
  <2> QED
    BY <2>2, <2>3
<1>3. Inv => PicturesAsChosen
  OBVIOUS
<1> QED
  BY <1>1, <1>2, <1>3, PTL DEF TilesSpec

\* RecordedVideoViewport.tsx and the effects of LiveWorkspace.tsx on the selection.
THEOREM TilesStayAsChosen ==
    ASSUME SteadyDrags
    PROVE  TilesSpec => []TilesAsChosen
<1>1. PicturesAsChosen /\ FocusIsSelected => TilesAsChosen
  BY DEF TilesAsChosen
<1> QED
  BY <1>1, FocusFollowsSelection, PicturesStayAsChosen, PTL

-----------------------------------------------------------------------------
(* The panels from which Viewers are commanded.                            *)

FormValues ==
    [viewer : Fleet \cup {Nobody}, type : Actions, stream : BOOLEAN, armed : Disruptive \cup {"none"},
     confirm : {"none", "cancel", "delete"}, row : 0..MaxCommands, remove : BOOLEAN, label : Fleet \cup {Nobody}]

Mutations == [what : PanelRequests, viewer : Fleet, row : 0..MaxCommands, at : {"sent", "done", "failed"}]

PanelData ==
    /\ fleet \in [health : [Fleet -> Health], rows : Seq(Row)] /\ Len(fleet.rows) <= MaxCommands
    /\ page \in [health : [Fleet -> Health], rows : Seq(Row)] /\ Len(page.rows) <= Len(fleet.rows)
    /\ form \in FormValues /\ mutations \subseteq Mutations /\ presses \in 0..MaxPresses
    /\ \A c \in mutations : c.what \in {"cancel", "delete"} => c.row \in 1..Len(fleet.rows)
    /\ \A m \in meant : m.what \in Disruptive \cup {"cancel", "delete", "remove"} /\ m.viewer \in Fleet

\* What is armed or half confirmed was asked for of the Viewer that is selected, and the
\* label is the one read from it.
FormBacked(f, m) ==
    /\ f.armed # "none" => f.viewer # Nobody /\ [what |-> f.armed, viewer |-> f.viewer, row |-> 0] \in m
    /\ f.confirm # "none" => f.viewer # Nobody /\ [what |-> f.confirm, viewer |-> f.viewer, row |-> f.row] \in m
    /\ f.remove /\ f.viewer # Nobody => [what |-> "remove", viewer |-> f.viewer, row |-> 0] \in m
    /\ f.viewer # Nobody => f.label = f.viewer

PanelInv == PanelData /\ FormBacked(form, meant)

LEMMA KindsApart ==
    /\ "none" \notin Disruptive /\ Disruptive \cap {"cancel", "delete", "remove", "label"} = {}
    /\ "resubscribe_stream" \notin Disruptive /\ "resubscribe_stream" \in Actions /\ "ping" \in Actions
    /\ Disruptive \subseteq Actions /\ Actions \cap {"cancel", "delete", "remove", "label"} = {}
    /\ PanelRequests = Actions \cup {"cancel", "delete", "remove", "label"}
BY DEF Disruptive, Actions, OfTheScreen, PanelRequests

LEMMA RowReadKeeps ==
    ASSUME NEW f \in FormValues, NEW health \in [Fleet -> Health], NEW m, FormBacked(f, m)
    PROVE  RowRead(f, health) \in FormValues /\ FormBacked(RowRead(f, health), m)
<1>1. CASE f.viewer = Nobody \/ health[f.viewer] = "gone"
  BY <1>1 DEF RowRead
<1>2. CASE f.viewer # Nobody /\ health[f.viewer] # "gone"
  <2> DEFINE mid == [f EXCEPT !.label = f.viewer]
             g == [mid EXCEPT !.remove = FALSE]
  <2>1. RowRead(f, health) = g
    BY <1>2 DEF RowRead
  <2>2. /\ mid \in FormValues /\ mid.viewer = f.viewer /\ mid.armed = f.armed /\ mid.confirm = f.confirm
        /\ mid.row = f.row /\ mid.label = f.viewer
    BY <1>2 DEF FormValues
  <2>3. /\ g \in FormValues /\ g.viewer = mid.viewer /\ g.armed = mid.armed /\ g.confirm = mid.confirm
        /\ g.row = mid.row /\ g.label = mid.label /\ g.remove = FALSE
    BY <2>2 DEF FormValues
  <2> HIDE DEF g, mid
  <2> QED
    BY <2>1, <2>2, <2>3 DEF FormBacked
<1> QED
  BY <1>1, <1>2

\* Another selection takes nothing of the form with it but the click on "remove", which is read
\* again with the row of the Viewer selected now.
LEMMA SelectedIsEmpty ==
    ASSUME NEW f \in FormValues, NEW v \in Fleet \cup {Nobody}, v # f.viewer
    PROVE  /\ Selected(f, v) \in FormValues /\ Selected(f, v).viewer = v
           /\ Selected(f, v).armed = "none" /\ Selected(f, v).confirm = "none"
<1> DEFINE a == [f EXCEPT !.viewer = v]
           b == [a EXCEPT !.armed = "none"]
           c == [b EXCEPT !.confirm = "none"]
           d == [c EXCEPT !.row = 0]
           e == [d EXCEPT !.stream = FALSE]
<1>0. 0 \in 0..MaxCommands
  BY FleetAssumption
<1>1. a \in FormValues /\ a.viewer = v
  BY DEF FormValues
<1>2. b \in FormValues /\ b.viewer = a.viewer /\ b.armed = "none"
  BY <1>1 DEF FormValues
<1>3. c \in FormValues /\ c.viewer = b.viewer /\ c.armed = b.armed /\ c.confirm = "none"
  BY <1>2 DEF FormValues
<1>4. d \in FormValues /\ d.viewer = c.viewer /\ d.armed = c.armed /\ d.confirm = c.confirm
  BY <1>0, <1>3 DEF FormValues
<1>5. e \in FormValues /\ e.viewer = d.viewer /\ e.armed = d.armed /\ e.confirm = d.confirm
  BY <1>4 DEF FormValues
<1>6. Selected(f, v) = e
  BY Zenon DEF Selected
<1> HIDE DEF a, b, c, d, e
<1> QED
  BY <1>1, <1>2, <1>3, <1>4, <1>5, <1>6

LEMMA AfterwardsKeeps ==
    ASSUME NEW f \in FormValues, NEW c, NEW m, FormBacked(f, m)
    PROVE  Afterwards(f, c) \in FormValues /\ FormBacked(Afterwards(f, c), m)
<1>0. 0 \in 0..MaxCommands
  BY FleetAssumption
<1>1. CASE c.what \in Actions /\ c.at = "done"
  <2>1. Afterwards(f, c) = [f EXCEPT !.armed = "none"]
    BY <1>1, KindsApart DEF Afterwards
  <2> QED
    BY <2>1 DEF FormValues, FormBacked
<1>2. CASE c.what \in {"cancel", "delete"}
  <2> DEFINE a == [f EXCEPT !.confirm = "none"]
             b == [a EXCEPT !.row = 0]
  <2>1. Afterwards(f, c) = b
    BY <1>2, KindsApart DEF Afterwards
  <2>2. /\ a \in FormValues /\ a.confirm = "none" /\ a.viewer = f.viewer /\ a.armed = f.armed /\ a.remove = f.remove
        /\ a.label = f.label
    BY DEF FormValues
  <2>3. /\ b \in FormValues /\ b.confirm = "none" /\ b.viewer = a.viewer /\ b.armed = a.armed /\ b.remove = a.remove
        /\ b.label = a.label
    BY <1>0, <2>2 DEF FormValues
  <2> HIDE DEF a, b
  <2> QED
    BY <2>1, <2>2, <2>3 DEF FormBacked
<1>3. CASE c.what = "remove"
  <2> DEFINE g == [f EXCEPT !.remove = FALSE]
  <2>1. Afterwards(f, c) = IF c.at = "done" THEN Selected(g, Nobody) ELSE g
    BY <1>3, KindsApart DEF Afterwards
  <2>2. g \in FormValues /\ FormBacked(g, m)
    BY DEF FormValues, FormBacked
  <2> HIDE DEF g
  <2>3. CASE c.at = "done" /\ g.viewer # Nobody
    <3>1. /\ Selected(g, Nobody) \in FormValues /\ Selected(g, Nobody).viewer = Nobody
          /\ Selected(g, Nobody).armed = "none" /\ Selected(g, Nobody).confirm = "none"
      BY <2>2, <2>3, SelectedIsEmpty
    <3> QED
      BY <2>1, <2>3, <3>1 DEF FormBacked
  <2>4. CASE ~(c.at = "done" /\ g.viewer # Nobody)
    BY <2>1, <2>2, <2>4 DEF Selected
  <2> QED
    BY <2>3, <2>4
<1>4. CASE ~(c.what \in Actions /\ c.at = "done") /\ c.what \notin {"cancel", "delete", "remove"}
  BY <1>4 DEF Afterwards
<1> QED
  BY <1>1, <1>2, <1>3, <1>4

\* The form of a Viewer that has just been selected from those listed.
LEMMA SelectionIsRead ==
    ASSUME NEW f \in FormValues, NEW v \in Fleet \cup {Nobody}, v # f.viewer, NEW health \in [Fleet -> Health],
           v # Nobody => health[v] # "gone", NEW m
    PROVE  RowRead(Selected(f, v), health) \in FormValues /\ FormBacked(RowRead(Selected(f, v), health), m)
<1> DEFINE g == Selected(f, v)
<1>1. g \in FormValues /\ g.viewer = v /\ g.armed = "none" /\ g.confirm = "none"
  BY SelectedIsEmpty
<1> HIDE DEF g
<1>2. CASE v = Nobody
  <2>1. RowRead(g, health) \in FormValues /\ FormBacked(RowRead(g, health), m)
    BY <1>1, <1>2 DEF RowRead, FormBacked
  <2> QED
    BY <2>1 DEF g
<1>3. CASE v # Nobody
  <2> DEFINE a == [g EXCEPT !.label = g.viewer]
             b == [a EXCEPT !.remove = FALSE]
  <2>1. RowRead(g, health) = b
    BY <1>1, <1>3 DEF RowRead
  <2>2. a \in FormValues /\ a.viewer = v /\ a.armed = "none" /\ a.confirm = "none" /\ a.label = v
    BY <1>1 DEF FormValues
  <2>3. /\ b \in FormValues /\ b.viewer = a.viewer /\ b.armed = a.armed /\ b.confirm = a.confirm
        /\ b.label = a.label /\ b.remove = FALSE
    BY <2>2 DEF FormValues
  <2> HIDE DEF a, b
  <2>4. RowRead(g, health) \in FormValues /\ FormBacked(RowRead(g, health), m)
    BY <2>1, <2>2, <2>3 DEF FormBacked
  <2> QED
    BY <2>4 DEF g
<1> QED
  BY <1>2, <1>3

\* A request the page sends concerns the Viewer selected.
LEMMA RequestIsTyped ==
    ASSUME PanelInv, NEW what \in PanelRequests, NEW row \in 0..MaxCommands, form.viewer # Nobody,
           what \in {"cancel", "delete"} => row \in 1..Len(fleet.rows), Asked(what, row)
    PROVE  /\ mutations' \subseteq Mutations
           /\ \A c \in mutations' : c.what \in {"cancel", "delete"} => c.row \in 1..Len(fleet.rows)
<1> DEFINE new == [what |-> what, viewer |-> form.viewer, row |-> row, at |-> "sent"]
<1>1. new \in Mutations /\ new.what = what /\ new.row = row
  BY DEF Mutations, PanelInv, PanelData, FormValues
<1>2. mutations' = mutations \cup {new}
  BY DEF Asked
<1> HIDE DEF new
<1> QED
  BY <1>1, <1>2 DEF PanelInv, PanelData

LEMMA AnswerIsTyped ==
    ASSUME PanelInv, NEW c \in mutations, NEW a \in {"done", "failed"},
           mutations' = (mutations \ {c}) \cup {[c EXCEPT !.at = a]}
    PROVE  /\ mutations' \subseteq Mutations
           /\ \A d \in mutations' : d.what \in {"cancel", "delete"} => d.row \in 1..Len(fleet.rows)
<1> DEFINE new == [c EXCEPT !.at = a]
<1>1. c \in Mutations
  BY DEF PanelInv, PanelData
<1>2. new \in Mutations /\ new.what = c.what /\ new.row = c.row
  BY <1>1 DEF Mutations
<1> HIDE DEF new
<1>3. mutations' = (mutations \ {c}) \cup {new}
  BY DEF new
<1> QED
  BY <1>2, <1>3 DEF PanelInv, PanelData

\* What the server makes of a request keeps its rows, and adds one at most.
LEMMA ServerKeepsRows ==
    ASSUME PanelInv, NEW c \in mutations, Accepted(c), fleet' = Applied(c)
    PROVE  /\ fleet' \in [health : [Fleet -> Health], rows : Seq(Row)]
           /\ Len(fleet'.rows) <= MaxCommands /\ Len(fleet'.rows) >= Len(fleet.rows)
<1>0. /\ c \in Mutations /\ fleet \in [health : [Fleet -> Health], rows : Seq(Row)]
      /\ fleet.rows \in Seq(Row) /\ Len(fleet.rows) \in Nat /\ Len(fleet.rows) <= MaxCommands /\ MaxCommands \in Nat
      /\ c.what \in {"cancel", "delete"} => c.row \in 1..Len(fleet.rows)
  BY FleetAssumption, LenProperties DEF PanelInv, PanelData
<1>1. CASE c.what \in Actions
  <2> DEFINE new == [viewer |-> c.viewer, type |-> c.what, state |-> "pending"]
             listing == Append(fleet.rows, new)
  <2>1. new \in Row
    BY <1>0, <1>1 DEF Row, Active, Mutations
  <2>2. listing \in Seq(Row) /\ Len(listing) = Len(fleet.rows) + 1
    <3> HIDE DEF new
    <3> QED
      BY <1>0, <2>1, AppendProperties
  <2>3. fleet' = [fleet EXCEPT !.rows = listing]
    BY <1>1, KindsApart DEF Applied
  <2>4. Len(fleet.rows) < MaxCommands
    BY <1>1, KindsApart DEF Accepted
  <2> HIDE DEF listing
  <2> QED
    BY <1>0, <2>2, <2>3, <2>4
<1>2. CASE c.what \in {"cancel", "delete"}
  <2> DEFINE s == IF c.what = "cancel" THEN "cancelled" ELSE "deleted"
             new == [fleet.rows[c.row] EXCEPT !.state = s]
             listing == [fleet.rows EXCEPT ![c.row] = new]
  <2>1. fleet.rows[c.row] \in Row
    BY <1>0, <1>2, ElementOfSeq
  <2>2. new \in Row
    BY <2>1 DEF Row
  <2>3. listing \in Seq(Row) /\ Len(listing) = Len(fleet.rows)
    <3> HIDE DEF new
    <3> QED
      BY <1>0, <1>2, <2>2, ExceptSeq
  <2>4. fleet' = [fleet EXCEPT !.rows[c.row].state = s]
    BY <1>2, KindsApart DEF Applied
  <2>5. fleet' = [fleet EXCEPT !.rows = listing]
    BY <1>0, <2>4, Zenon
  <2> HIDE DEF listing
  <2> QED
    BY <1>0, <2>3, <2>5
<1>3. CASE c.what = "remove"
  <2> DEFINE health == [fleet.health EXCEPT ![c.viewer] = "gone"]
  <2>1. health \in [Fleet -> Health]
    BY <1>0 DEF Health, Mutations
  <2>2. fleet' = [fleet EXCEPT !.health[c.viewer] = "gone"]
    BY <1>3, KindsApart DEF Applied
  <2>3. fleet' = [fleet EXCEPT !.health = health]
    BY <1>0, <2>2, Zenon
  <2> HIDE DEF health
  <2> QED
    BY <1>0, <2>1, <2>3
<1>4. CASE c.what = "label"
  <2>1. fleet' = fleet
    BY <1>4, KindsApart DEF Applied
  <2> QED
    BY <1>0, <2>1
<1> QED
  BY <1>0, <1>1, <1>2, <1>3, <1>4, KindsApart DEF Mutations

LEMMA PanelStart ==
    ASSUME PanelInit
    PROVE  PanelInv
<1>1. <<>> \in Seq(Row) /\ Len(<<>>) = 0
  BY EmptySeq
<1>2. /\ [v \in Fleet |-> "ready"] \in [Fleet -> Health] /\ [v \in Fleet |-> "gone"] \in [Fleet -> Health]
  BY DEF Health, Rendering
<1>3. /\ fleet \in [health : [Fleet -> Health], rows : Seq(Row)] /\ fleet.rows = <<>>
      /\ page \in [health : [Fleet -> Health], rows : Seq(Row)] /\ page.rows = <<>>
  BY <1>1, <1>2 DEF PanelInit
<1>4. /\ form \in FormValues /\ form.viewer = Nobody /\ form.armed = "none" /\ form.confirm = "none"
      /\ form.remove = FALSE
  BY KindsApart, FleetAssumption DEF PanelInit, FormValues
<1>5. mutations = {} /\ presses = 0 /\ meant = {} /\ MaxCommands \in Nat /\ MaxPresses \in Nat
  BY FleetAssumption DEF PanelInit
<1>6. PanelData
  BY <1>1, <1>3, <1>4, <1>5 DEF PanelData
<1> QED
  BY <1>4, <1>6 DEF PanelInv, FormBacked

LEMMA PanelStep ==
    ASSUME PanelInv, [PanelNext]_panelVars
    PROVE  PanelInv'
<1>0. /\ fleet \in [health : [Fleet -> Health], rows : Seq(Row)] /\ Len(fleet.rows) <= MaxCommands
      /\ page \in [health : [Fleet -> Health], rows : Seq(Row)] /\ Len(page.rows) <= Len(fleet.rows)
      /\ fleet.health \in [Fleet -> Health] /\ page.health \in [Fleet -> Health]
      /\ fleet.rows \in Seq(Row) /\ page.rows \in Seq(Row)
      /\ Len(fleet.rows) \in Nat /\ DOMAIN fleet.rows = 1..Len(fleet.rows)
      /\ Len(page.rows) \in Nat /\ DOMAIN page.rows = 1..Len(page.rows)
      /\ form \in FormValues /\ mutations \subseteq Mutations /\ presses \in 0..MaxPresses
      /\ FormBacked(form, meant) /\ PanelData
      /\ MaxCommands \in Nat /\ MaxPresses \in Nat
      /\ Nobody \notin Fleet
  BY LenProperties, FleetAssumption DEF PanelInv, PanelData
<1>p. Presses => presses' \in 0..MaxPresses
  BY <1>0 DEF Presses
\* A step that changes the form, or the answers under way, alone.
<1>f. ASSUME form' \in FormValues, FormBacked(form', meant'), presses' \in 0..MaxPresses,
             UNCHANGED <<fleet, page, mutations>>,
             \A m \in meant' : m.what \in Disruptive \cup {"cancel", "delete", "remove"} /\ m.viewer \in Fleet
      PROVE  PanelInv'
  BY <1>0, <1>f DEF PanelInv, PanelData
<1>m. ASSUME mutations' \subseteq Mutations, presses' \in 0..MaxPresses, UNCHANGED <<fleet, page, form, meant>>,
             \A c \in mutations' : c.what \in {"cancel", "delete"} => c.row \in 1..Len(fleet.rows)
      PROVE  PanelInv'
  BY <1>0, <1>m DEF PanelInv, PanelData
<1>1. CASE UNCHANGED panelVars
  BY <1>0, <1>1 DEF panelVars, PanelInv, PanelData
<1>2. CASE ViewersPolled
  <2>1. page' \in [health : [Fleet -> Health], rows : Seq(Row)] /\ page'.rows = page.rows
    BY <1>0, <1>2 DEF ViewersPolled
  <2>2. form' \in FormValues /\ FormBacked(form', meant)
    BY <1>0, <1>2, RowReadKeeps DEF ViewersPolled
  <2>3. UNCHANGED <<fleet, mutations, presses, meant>>
    BY <1>2 DEF ViewersPolled
  <2> QED
    BY <1>0, <2>1, <2>2, <2>3 DEF PanelInv, PanelData
<1>3. CASE CommandsPolled
  <2>1. page' \in [health : [Fleet -> Health], rows : Seq(Row)] /\ page'.rows = fleet.rows
    BY <1>0, <1>3 DEF CommandsPolled
  <2>2. UNCHANGED <<fleet, form, mutations, presses, meant>>
    BY <1>3 DEF CommandsPolled
  <2> QED
    BY <1>0, <2>1, <2>2 DEF PanelInv, PanelData
<1>4. ASSUME NEW v \in Fleet \cup {Nobody}, SelectViewer(v) PROVE PanelInv'
  <2>1. v # form.viewer /\ (v # Nobody => page.health[v] # "gone")
    BY <1>4 DEF SelectViewer
  <2>2. form' \in FormValues /\ FormBacked(form', {})
    BY <1>0, <1>4, <2>1, SelectionIsRead DEF SelectViewer
  <2> QED
    BY <1>f, <1>p, <1>4, <2>2 DEF SelectViewer
<1>5. ASSUME NEW type \in Actions, NEW stream \in BOOLEAN, SelectAction(type, stream) PROVE PanelInv'
  <2> DEFINE a == [form EXCEPT !.type = type]
             b == [a EXCEPT !.stream = stream]
             c == [b EXCEPT !.armed = "none"]
  <2>1. /\ a \in FormValues /\ a.viewer = form.viewer /\ a.confirm = form.confirm /\ a.row = form.row
        /\ a.remove = form.remove /\ a.label = form.label
    BY <1>0 DEF FormValues
  <2>2. /\ b \in FormValues /\ b.viewer = a.viewer /\ b.confirm = a.confirm /\ b.row = a.row
        /\ b.remove = a.remove /\ b.label = a.label
    BY <2>1 DEF FormValues
  <2>3. /\ c \in FormValues /\ c.viewer = b.viewer /\ c.confirm = b.confirm /\ c.row = b.row
        /\ c.remove = b.remove /\ c.label = b.label /\ c.armed = "none"
    BY <2>2 DEF FormValues
  <2>4. form' = c
    BY <1>5, Zenon DEF SelectAction
  <2> HIDE DEF a, b, c
  <2>5. /\ meant' = {m \in meant : m.what \notin Disruptive} /\ presses' \in 0..MaxPresses
        /\ UNCHANGED <<fleet, page, mutations>>
    BY <1>p, <1>5 DEF SelectAction, Without
  <2>6. FormBacked(form', meant')
    BY <1>0, <2>1, <2>2, <2>3, <2>4, <2>5, KindsApart DEF FormBacked, FormValues
  <2> QED
    BY <1>0, <1>f, <2>3, <2>4, <2>5, <2>6 DEF PanelData
<1>6. CASE Submit
  <2>1. form.viewer # Nobody /\ presses' \in 0..MaxPresses /\ UNCHANGED <<fleet, page>>
    BY <1>p, <1>6 DEF Submit, Available
  <2>2. CASE NeedsArming
    <3>1. form.type \in Disruptive
      BY <2>2 DEF NeedsArming
    <3>2. /\ form' = [form EXCEPT !.armed = form.type] /\ UNCHANGED mutations
          /\ meant' = {m \in meant : m.what \notin Disruptive}
                      \cup {[what |-> form.type, viewer |-> form.viewer, row |-> 0]}
      BY <1>6, <2>2 DEF Submit, Without, Meaning
    <3>3. /\ form' \in FormValues /\ form'.viewer = form.viewer /\ form'.armed = form.type
          /\ form'.confirm = form.confirm /\ form'.row = form.row /\ form'.remove = form.remove
          /\ form'.label = form.label
      BY <1>0, <3>1, <3>2 DEF FormValues
    <3>4. FormBacked(form', meant')
      <4>1. ASSUME form.confirm # "none"
            PROVE  [what |-> form.confirm, viewer |-> form.viewer, row |-> form.row] \in meant'
        BY <1>0, <3>2, <4>1, KindsApart DEF FormBacked, FormValues
      <4>2. ASSUME form.remove PROVE [what |-> "remove", viewer |-> form.viewer, row |-> 0] \in meant'
        BY <1>0, <2>1, <3>2, <4>2, KindsApart DEF FormBacked
      <4>3. [what |-> form.type, viewer |-> form.viewer, row |-> 0] \in meant'
        BY <3>2
      <4> QED
        BY <1>0, <2>1, <3>3, <4>1, <4>2, <4>3 DEF FormBacked
    <3>5. \A m \in meant' : m.what \in Disruptive \cup {"cancel", "delete", "remove"} /\ m.viewer \in Fleet
      BY <1>0, <2>1, <3>1, <3>2 DEF PanelData, FormValues
    <3> QED
      BY <1>f, <2>1, <3>2, <3>3, <3>4, <3>5
  <2>3. CASE ~NeedsArming
    <3>1. Asked(form.type, 0) /\ UNCHANGED <<form, meant>>
      BY <1>6, <2>3 DEF Submit
    <3>2. form.type \in PanelRequests /\ form.type \notin {"cancel", "delete"} /\ 0 \in 0..MaxCommands
      BY <1>0, KindsApart DEF FormValues
    <3>3. /\ mutations' \subseteq Mutations
          /\ \A c \in mutations' : c.what \in {"cancel", "delete"} => c.row \in 1..Len(fleet.rows)
      BY <2>1, <3>1, <3>2, RequestIsTyped
    <3> QED
      BY <1>m, <2>1, <3>1, <3>3
  <2> QED
    BY <2>2, <2>3
<1>7. CASE RetryCamera
  <2> DEFINE a == [form EXCEPT !.type = "resubscribe_stream"]
             b == [a EXCEPT !.stream = TRUE]
             c == [b EXCEPT !.armed = "none"]
  <2>1. /\ a \in FormValues /\ a.viewer = form.viewer /\ a.confirm = form.confirm /\ a.row = form.row
        /\ a.remove = form.remove /\ a.label = form.label
    BY <1>0, KindsApart DEF FormValues
  <2>2. /\ b \in FormValues /\ b.viewer = a.viewer /\ b.confirm = a.confirm /\ b.row = a.row
        /\ b.remove = a.remove /\ b.label = a.label
    BY <2>1 DEF FormValues
  <2>3. /\ c \in FormValues /\ c.viewer = b.viewer /\ c.confirm = b.confirm /\ c.row = b.row
        /\ c.remove = b.remove /\ c.label = b.label /\ c.armed = "none"
    BY <2>2 DEF FormValues
  <2>4. form' = c
    BY <1>7, Zenon DEF RetryCamera
  <2> HIDE DEF a, b, c
  <2>5. /\ meant' = {m \in meant : m.what \notin Disruptive} /\ presses' \in 0..MaxPresses
        /\ UNCHANGED <<fleet, page>> /\ form.viewer # Nobody /\ Asked("resubscribe_stream", 0)
    BY <1>p, <1>7 DEF RetryCamera, Without, Available
  <2>6. FormBacked(form', meant')
    BY <1>0, <2>1, <2>2, <2>3, <2>4, <2>5, KindsApart DEF FormBacked, FormValues
  <2>7. "resubscribe_stream" \in PanelRequests /\ 0 \in 0..MaxCommands
    BY <1>0, KindsApart
  <2>8. /\ mutations' \subseteq Mutations
        /\ \A d \in mutations' : d.what \in {"cancel", "delete"} => d.row \in 1..Len(fleet.rows)
    BY <2>5, <2>7, RequestIsTyped
  <2> QED
    BY <1>0, <2>3, <2>4, <2>5, <2>6, <2>8 DEF PanelInv, PanelData
<1>8. ASSUME NEW i \in DOMAIN page.rows, NEW action \in {"cancel", "delete"}, RunConfirmed(action, i) PROVE PanelInv'
  <2>1. /\ i \in 1..Len(fleet.rows) /\ i \in 0..MaxCommands /\ page.rows[i] \in Row
        /\ form.viewer = page.rows[i].viewer /\ presses' \in 0..MaxPresses /\ UNCHANGED <<fleet, page>>
    BY <1>0, <1>p, <1>8, ElementOfSeq DEF RunConfirmed
  <2>2. form.viewer \in Fleet /\ form.viewer # Nobody
    BY <1>0, <2>1 DEF Row
  <2>3. CASE form.confirm # action \/ form.row # i
    <3> DEFINE a == [form EXCEPT !.confirm = action]
               b == [a EXCEPT !.row = i]
    <3>1. /\ a \in FormValues /\ a.viewer = form.viewer /\ a.confirm = action /\ a.armed = form.armed
          /\ a.remove = form.remove /\ a.label = form.label
      BY <1>0 DEF FormValues
    <3>2. /\ b \in FormValues /\ b.viewer = a.viewer /\ b.confirm = a.confirm /\ b.row = i
          /\ b.armed = a.armed /\ b.remove = a.remove /\ b.label = a.label
      BY <2>1, <3>1 DEF FormValues
    <3>3. form' = b /\ UNCHANGED mutations
          /\ meant' = {m \in meant : m.what \notin {"cancel", "delete"}}
                      \cup {[what |-> action, viewer |-> form.viewer, row |-> i]}
      BY <1>8, <2>3, Zenon DEF RunConfirmed, Without, Meaning
    <3> HIDE DEF a, b
    <3>4. FormBacked(form', meant')
      <4>1. ASSUME form.armed # "none" PROVE [what |-> form.armed, viewer |-> form.viewer, row |-> 0] \in meant'
        BY <1>0, <3>3, <4>1, KindsApart DEF FormBacked, FormValues
      <4>2. ASSUME form.remove PROVE [what |-> "remove", viewer |-> form.viewer, row |-> 0] \in meant'
        BY <1>0, <2>2, <3>3, <4>2 DEF FormBacked
      <4>3. [what |-> action, viewer |-> form.viewer, row |-> i] \in meant'
        BY <3>3
      <4> QED
        BY <1>0, <2>2, <3>1, <3>2, <3>3, <4>1, <4>2, <4>3 DEF FormBacked
    <3>5. \A m \in meant' : m.what \in Disruptive \cup {"cancel", "delete", "remove"} /\ m.viewer \in Fleet
      BY <1>0, <2>2, <3>3 DEF PanelData
    <3> QED
      BY <1>f, <2>1, <3>2, <3>3, <3>4, <3>5
  <2>4. CASE ~(form.confirm # action \/ form.row # i)
    <3>1. Asked(action, i) /\ UNCHANGED <<form, meant>>
      BY <1>8, <2>4 DEF RunConfirmed
    <3>2. action \in PanelRequests
      BY KindsApart
    <3>3. /\ mutations' \subseteq Mutations
          /\ \A c \in mutations' : c.what \in {"cancel", "delete"} => c.row \in 1..Len(fleet.rows)
      BY <2>1, <2>2, <3>1, <3>2, RequestIsTyped
    <3> QED
      BY <1>m, <2>1, <3>1, <3>3
  <2> QED
    BY <2>3, <2>4
<1>9. CASE DeleteSelectedViewer
  <2>1. form.viewer # Nobody /\ form.viewer \in Fleet /\ presses' \in 0..MaxPresses /\ UNCHANGED <<fleet, page>>
    BY <1>0, <1>p, <1>9 DEF DeleteSelectedViewer, FormValues
  <2>2. CASE ~form.remove
    <3>1. /\ form' = [form EXCEPT !.remove = TRUE] /\ UNCHANGED mutations
          /\ meant' = meant \cup {[what |-> "remove", viewer |-> form.viewer, row |-> 0]}
      BY <1>9, <2>2 DEF DeleteSelectedViewer, Meaning
    <3>2. /\ form' \in FormValues /\ form'.viewer = form.viewer /\ form'.armed = form.armed
          /\ form'.confirm = form.confirm /\ form'.row = form.row /\ form'.label = form.label
      BY <1>0, <3>1 DEF FormValues
    <3>3. FormBacked(form', meant')
      BY <1>0, <3>1, <3>2 DEF FormBacked
    <3>4. \A m \in meant' : m.what \in Disruptive \cup {"cancel", "delete", "remove"} /\ m.viewer \in Fleet
      BY <1>0, <2>1, <3>1 DEF PanelData
    <3> QED
      BY <1>f, <2>1, <3>1, <3>2, <3>3, <3>4
  <2>3. CASE form.remove
    <3>1. Asked("remove", 0) /\ UNCHANGED <<form, meant>>
      BY <1>9, <2>3 DEF DeleteSelectedViewer
    <3>2. "remove" \in PanelRequests /\ 0 \in 0..MaxCommands
      BY <1>0, KindsApart
    <3>3. /\ mutations' \subseteq Mutations
          /\ \A c \in mutations' : c.what \in {"cancel", "delete"} => c.row \in 1..Len(fleet.rows)
      BY <2>1, <3>1, <3>2, RequestIsTyped
    <3> QED
      BY <1>m, <2>1, <3>1, <3>3
  <2> QED
    BY <2>2, <2>3
<1>10. CASE SaveLabel
  <2>1. /\ form.viewer # Nobody /\ presses' \in 0..MaxPresses /\ UNCHANGED <<fleet, page, form, meant>>
        /\ Asked("label", 0)
    BY <1>p, <1>10 DEF SaveLabel
  <2>2. "label" \in PanelRequests /\ 0 \in 0..MaxCommands
    BY <1>0, KindsApart
  <2>3. /\ mutations' \subseteq Mutations
        /\ \A c \in mutations' : c.what \in {"cancel", "delete"} => c.row \in 1..Len(fleet.rows)
    BY <2>1, <2>2, RequestIsTyped
  <2> QED
    BY <1>m, <2>1, <2>3
<1>11. ASSUME NEW c \in mutations, ServerApplies(c) PROVE PanelInv'
  <2>1. /\ fleet' \in [health : [Fleet -> Health], rows : Seq(Row)]
        /\ Len(fleet'.rows) <= MaxCommands /\ Len(fleet'.rows) >= Len(fleet.rows)
    BY <1>11, ServerKeepsRows DEF ServerApplies
  <2>2. /\ mutations' \subseteq Mutations
        /\ \A d \in mutations' : d.what \in {"cancel", "delete"} => d.row \in 1..Len(fleet.rows)
    BY <1>11, AnswerIsTyped DEF ServerApplies
  <2>3. UNCHANGED <<page, form, presses, meant>> /\ Len(fleet'.rows) \in Nat
    BY <1>11, <2>1, LenProperties DEF ServerApplies
  <2>4. \A d \in mutations' : d.what \in {"cancel", "delete"} => d.row \in 1..Len(fleet'.rows)
    BY <1>0, <2>1, <2>2, <2>3
  <2> QED
    BY <1>0, <2>1, <2>2, <2>3, <2>4 DEF PanelInv, PanelData
<1>12. ASSUME NEW c \in mutations, ServerRejects(c) PROVE PanelInv'
  <2>1. /\ mutations' \subseteq Mutations
        /\ \A d \in mutations' : d.what \in {"cancel", "delete"} => d.row \in 1..Len(fleet.rows)
    BY <1>12, AnswerIsTyped DEF ServerRejects
  <2> QED
    BY <1>0, <1>m, <1>12, <2>1 DEF ServerRejects
<1>13. ASSUME NEW c \in mutations, MutationReturns(c) PROVE PanelInv'
  <2> DEFINE f == IF c.at = "done" THEN RowRead(form, fleet.health) ELSE form
  <2>1. f \in FormValues /\ FormBacked(f, meant)
    BY <1>0, RowReadKeeps
  <2>2. form' = Afterwards(f, c) /\ UNCHANGED <<fleet, presses, meant>> /\ mutations' \subseteq mutations
        /\ (page' = fleet \/ page' = page)
    BY <1>13 DEF MutationReturns
  <2> HIDE DEF f
  <2>3. form' \in FormValues /\ FormBacked(form', meant)
    BY <2>1, <2>2, AfterwardsKeeps
  <2> QED
    BY <1>0, <2>2, <2>3 DEF PanelInv, PanelData
<1>14. ASSUME NEW v \in Fleet, NEW h \in Health, HealthChanges(v, h) PROVE PanelInv'
  <2> DEFINE health == [fleet.health EXCEPT ![v] = h]
  <2>1. health \in [Fleet -> Health]
    BY <1>0
  <2>2. fleet' = [fleet EXCEPT !.health = health]
    BY <1>0, <1>14, Zenon DEF HealthChanges
  <2> HIDE DEF health
  <2>3. fleet' \in [health : [Fleet -> Health], rows : Seq(Row)] /\ fleet'.rows = fleet.rows
    BY <1>0, <2>1, <2>2
  <2>4. UNCHANGED <<page, form, mutations, meant>> /\ presses' \in 0..MaxPresses
    BY <1>0, <1>14 DEF HealthChanges
  <2> QED
    BY <1>0, <2>3, <2>4 DEF PanelInv, PanelData
<1>15. ASSUME NEW i \in DOMAIN fleet.rows, NEW s \in {"running", "finished"}, CommandMoves(i, s) PROVE PanelInv'
  <2> DEFINE new == [fleet.rows[i] EXCEPT !.state = s]
             listing == [fleet.rows EXCEPT ![i] = new]
  <2>1. fleet.rows[i] \in Row /\ i \in 1..Len(fleet.rows)
    BY <1>0, ElementOfSeq
  <2>2. new \in Row
    BY <2>1 DEF Row, Active
  <2>3. listing \in Seq(Row) /\ Len(listing) = Len(fleet.rows)
    <3> HIDE DEF new
    <3> QED
      BY <1>0, <2>1, <2>2, ExceptSeq
  <2>4. fleet' = [fleet EXCEPT !.rows = listing]
    BY <1>0, <1>15, Zenon DEF CommandMoves
  <2> HIDE DEF listing
  <2>5. fleet' \in [health : [Fleet -> Health], rows : Seq(Row)] /\ Len(fleet'.rows) = Len(fleet.rows)
    BY <1>0, <2>3, <2>4
  <2>6. UNCHANGED <<page, form, mutations, presses, meant>>
    BY <1>15 DEF CommandMoves
  <2> QED
    BY <1>0, <2>5, <2>6 DEF PanelInv, PanelData
<1> QED
  BY <1>1, <1>2, <1>3, <1>4, <1>5, <1>6, <1>7, <1>8, <1>9, <1>10, <1>11, <1>12, <1>13, <1>14, <1>15
  DEF PanelNext

\* What leaves the page in a step.
LEMMA SentIsMeant ==
    ASSUME PanelInv, [PanelNext]_panelVars, NEW c \in mutations' \ mutations, c.at = "sent"
    PROVE  /\ c.what \in Disruptive \cup {"cancel", "delete", "remove"} =>
                 [what |-> c.what, viewer |-> c.viewer, row |-> c.row] \in meant
           /\ c.what = "label" => form.label = c.viewer
<1>0. form \in FormValues /\ FormBacked(form, meant) /\ mutations \subseteq Mutations
  BY DEF PanelInv, PanelData
<1>1. ~UNCHANGED mutations
  OBVIOUS
<1>2. ~(\E d \in mutations : ServerApplies(d) \/ ServerRejects(d) \/ MutationReturns(d))
  <2>1. ASSUME NEW d \in mutations, NEW a \in {"done", "failed"},
               mutations' = (mutations \ {d}) \cup {[d EXCEPT !.at = a]}
        PROVE  FALSE
    <3>1. d \in Mutations
      BY <1>0
    <3>2. [d EXCEPT !.at = a].at = a
      BY <3>1 DEF Mutations
    <3>3. c = [d EXCEPT !.at = a]
      BY <2>1
    <3> QED
      BY <3>2, <3>3
  <2> QED
    BY <2>1 DEF ServerApplies, ServerRejects, MutationReturns
<1>3. ASSUME NEW what, NEW row, Asked(what, row)
      PROVE  c.what = what /\ c.row = row /\ c.viewer = form.viewer
  BY <1>3 DEF Asked
<1>4. CASE Submit
  <2>1. ~NeedsArming /\ Asked(form.type, 0)
    BY <1>1, <1>4 DEF Submit
  <2>2. c.what = form.type /\ c.row = 0 /\ c.viewer = form.viewer
    BY <1>3, <2>1
  <2>3. form.type \in Actions /\ (form.type \in Disruptive => form.armed = form.type)
    BY <1>0, <2>1 DEF NeedsArming, FormValues
  <2> QED
    BY <1>0, <2>2, <2>3, KindsApart DEF FormBacked
<1>5. CASE RetryCamera
  <2>1. c.what = "resubscribe_stream"
    BY <1>3, <1>5 DEF RetryCamera
  <2> QED
    BY <2>1, KindsApart
<1>6. CASE DeleteSelectedViewer
  <2>1. form.remove /\ form.viewer # Nobody /\ Asked("remove", 0)
    BY <1>1, <1>6 DEF DeleteSelectedViewer
  <2>2. c.what = "remove" /\ c.row = 0 /\ c.viewer = form.viewer
    BY <1>3, <2>1
  <2> QED
    BY <1>0, <2>1, <2>2 DEF FormBacked
<1>7. CASE SaveLabel
  <2>1. form.viewer # Nobody /\ c.what = "label" /\ c.viewer = form.viewer
    BY <1>3, <1>7 DEF SaveLabel
  <2> QED
    BY <1>0, <2>1, KindsApart DEF FormBacked
<1>8. ASSUME NEW i \in DOMAIN page.rows, NEW action \in {"cancel", "delete"}, RunConfirmed(action, i)
      PROVE  /\ c.what \in Disruptive \cup {"cancel", "delete", "remove"} =>
                   [what |-> c.what, viewer |-> c.viewer, row |-> c.row] \in meant
             /\ c.what = "label" => form.label = c.viewer
  <2>1. form.confirm = action /\ form.row = i /\ Asked(action, i)
    BY <1>1, <1>8 DEF RunConfirmed
  <2>2. c.what = action /\ c.row = i /\ c.viewer = form.viewer
    BY <1>3, <2>1
  <2> QED
    BY <1>0, <2>1, <2>2 DEF FormBacked
<1> QED
  BY <1>1, <1>2, <1>4, <1>5, <1>6, <1>7, <1>8 DEF PanelNext, panelVars, ViewersPolled, CommandsPolled, SelectViewer,
    HealthChanges, SelectAction, CommandMoves

\* For any fleet and any number of commands and clicks, every step keeps the types and that what
\* is armed or half confirmed belongs to the Viewer selected.
THEOREM ConfirmationsAreCurrent == PanelSpec => []PanelInv
<1>1. PanelInit => PanelInv
  BY PanelStart
<1>2. PanelInv /\ [PanelNext]_panelVars => PanelInv'
  BY PanelStep
<1> QED
  BY <1>1, <1>2, PTL DEF PanelSpec

\* For any fleet, a disruptive command, a cancellation or a deletion leaves the page only when the
\* operator clicked twice on that very thing, whatever polls and answers came in between
\* (ViewerCommandPanel's armed and confirm states).
THEOREM NothingUnconfirmedLeaves == PanelSpec => OnlyWhatWasConfirmed
<1>1. PanelInit => PanelInv
  BY PanelStart
<1>2. PanelInv /\ [PanelNext]_panelVars => PanelInv'
  BY PanelStep
<1>3. PanelInv /\ [PanelNext]_panelVars =>
        [\A c \in mutations' \ mutations : c.at = "sent" =>
          /\ c.what \in Disruptive \cup {"cancel", "delete", "remove"} =>
                 [what |-> c.what, viewer |-> c.viewer, row |-> c.row] \in meant
          /\ c.what = "label" => form.label = c.viewer]_panelVars
  BY SentIsMeant
<1> QED
  BY <1>1, <1>2, <1>3, PTL DEF PanelSpec, OnlyWhatWasConfirmed

-----------------------------------------------------------------------------
(* The recordings page.                                                    *)

Workspaces ==
    [camera : Archived \cup {NoSource}, day : Days, recording : Recordings \cup {NoRecording},
     list : BOOLEAN, preserve : BOOLEAN, handled : 0..MaxRequests,
     window : Int \X Int, at : Int, playing : BOOLEAN]
PlayRequests == [id : 0..MaxRequests, recording : Recordings \cup {NoRecording}]
Dues == [(0..MaxRequests) -> {"nothing", "seek", "sought", "amiss"}]

NoneAmiss(d) == \A i \in 0..MaxRequests : d[i] # "amiss"

\* A press that may still become a seek is owed one, and nothing else of the pointer is.
GestureOwes(d, g) ==
    /\ g.kind = "cursor" \/ (g.kind = "pan" /\ ~g.moved) => d[0] = "seek"
    /\ g.kind = "none" \/ (g.kind = "pan" /\ g.moved) => d[0] # "seek"

\* The newest request is owed its seek until it is the one that was handled.
RequestsOwe(d, handled, asks) ==
    /\ handled <= asks.id
    /\ asks.id # 0 => asks.recording \in Recordings
    /\ handled # 0 => d[handled] = "sought"
    /\ asks.id \notin {0, handled} => d[asks.id] = "seek"

Highlighted(b, left) ==
    b.recording # NoRecording /\ ~left =>
        b.recording[1] = b.camera /\ DayOf(b.recording[2]) = b.day

BrowserData ==
    /\ tab \in {"playback", "management"} /\ offered \subseteq Archived
    /\ browser \in Workspaces /\ Span(browser.window) \in Spans
    /\ request \in PlayRequests
    /\ gesture \in PointerGesture /\ Span(gesture.window) \in Spans
    /\ candidate \in Int
    /\ table \in [armed : Recordings \cup {NoRecording}, detail : Recordings \cup {NoRecording},
                  deleting : Recordings \cup {NoRecording}]
    /\ kept \subseteq Recordings /\ gestures \in 0..MaxGestures
    /\ due \in Dues /\ loading \in BOOLEAN /\ leftover \in BOOLEAN

\* The flag that spares the highlight outlives a render only when a request found its camera
\* and day shown already.
BrowserInv ==
    /\ BrowserData
    /\ NoneAmiss(due) /\ GestureOwes(due, gesture) /\ RequestsOwe(due, browser.handled, request)
    /\ Highlighted(browser, leftover) /\ (browser.preserve => leftover)

LEMMA Bounds ==
    /\ MaxRequests \in Nat /\ MaxGestures \in Nat /\ 0 \in 0..MaxRequests /\ 0 \in 0..MaxGestures
    /\ \A r \in Recordings : r[1] \in Archived /\ DayOf(r[2]) \in Days /\ r[2] \in Int
    /\ NoSource \notin Archived
    /\ \A d \in Days : DayRange(d) \in Int \X Int /\ Span(DayRange(d)) \in Spans
<1>1. ASSUME NEW r \in Recordings
      PROVE  r[1] \in Archived /\ DayOf(r[2]) \in Days /\ r[2] \in Int
  <2>1. r \in Archived \X (0..7)
    BY ArchivedAssumption DEF Day
  <2>2. r[1] \in Archived /\ r[2] \in 0..7
    BY <2>1
  <2>3. r[2] \div 4 \in 0..1
    BY <2>2
  <2> QED
    BY <2>2, <2>3 DEF DayOf, Day, Days
<1>2. ASSUME NEW d \in Days
      PROVE  DayRange(d) \in Int \X Int /\ Span(DayRange(d)) \in Spans
  BY DEF Days, DayRange, Span, Spans, Day
<1> QED
  BY <1>1, <1>2, ArchivedAssumption

\* The effect of another camera or day.
LEMMA ResetTyped ==
    ASSUME NEW b \in Workspaces, NEW before \in Workspaces, Span(b.window) \in Spans
    PROVE  /\ Reset(b, before) \in Workspaces /\ Span(Reset(b, before).window) \in Spans
           /\ Reset(b, before).camera = b.camera /\ Reset(b, before).day = b.day
           /\ Reset(b, before).handled = b.handled
           /\ b.camera = before.camera /\ b.day = before.day => Reset(b, before) = b
           /\ b.camera # before.camera \/ b.day # before.day =>
                 /\ Reset(b, before).preserve = FALSE
                 /\ Reset(b, before).recording = IF b.preserve THEN b.recording ELSE NoRecording
<1>1. CASE b.camera = before.camera /\ b.day = before.day
  BY <1>1 DEF Reset
<1>2. CASE ~(b.camera = before.camera /\ b.day = before.day)
  <2> DEFINE r == IF b.preserve THEN b.recording ELSE NoRecording
             p == [b EXCEPT !.window = DayRange(b.day)]
             q == [p EXCEPT !.preserve = FALSE]
             e == [q EXCEPT !.recording = r]
  <2>0. DayRange(b.day) \in Int \X Int /\ Span(DayRange(b.day)) \in Spans /\ r \in Recordings \cup {NoRecording}
    BY Bounds DEF Workspaces
  <2>1. /\ p \in Workspaces /\ p.window = DayRange(b.day) /\ p.camera = b.camera /\ p.day = b.day
        /\ p.handled = b.handled /\ p.preserve = b.preserve /\ p.recording = b.recording
    BY <2>0 DEF Workspaces
  <2>2. /\ q \in Workspaces /\ q.window = p.window /\ q.camera = p.camera /\ q.day = p.day
        /\ q.handled = p.handled /\ q.preserve = FALSE /\ q.recording = p.recording
    BY <2>1 DEF Workspaces
  <2>3. Reset(b, before) = e
    BY <1>2, Zenon DEF Reset
  <2> HIDE DEF p, q, r
  <2>4. /\ e \in Workspaces /\ e.window = q.window /\ e.camera = q.camera /\ e.day = q.day
        /\ e.handled = q.handled /\ e.preserve = q.preserve /\ e.recording = r
    BY <2>0, <2>2 DEF Workspaces
  <2> HIDE DEF e
  <2> QED
    BY <1>2, <2>0, <2>1, <2>2, <2>3, <2>4 DEF r
<1> QED
  BY <1>1, <1>2

LEMMA RequestedTyped ==
    ASSUME NEW b \in Workspaces, NEW asks \in PlayRequests, asks.recording \in Recordings
    PROVE  /\ Requested(b, asks) \in Workspaces /\ Requested(b, asks).window = b.window
           /\ Requested(b, asks).camera = asks.recording[1] /\ Requested(b, asks).day = DayOf(asks.recording[2])
           /\ Requested(b, asks).recording = asks.recording /\ Requested(b, asks).handled = asks.id
           /\ Requested(b, asks).preserve = TRUE
<1> DEFINE x1 == [b EXCEPT !.handled = asks.id]
           x2 == [x1 EXCEPT !.preserve = TRUE]
           x3 == [x2 EXCEPT !.camera = asks.recording[1]]
           x4 == [x3 EXCEPT !.recording = asks.recording]
           x5 == [x4 EXCEPT !.day = DayOf(asks.recording[2])]
           x6 == [x5 EXCEPT !.list = FALSE]
           x7 == [x6 EXCEPT !.at = asks.recording[2]]
           x8 == [x7 EXCEPT !.playing = TRUE]
<1>0. /\ asks.recording[1] \in Archived /\ DayOf(asks.recording[2]) \in Days /\ asks.recording[2] \in Int
      /\ asks.id \in 0..MaxRequests
  BY Bounds DEF PlayRequests
<1>1. x1 \in Workspaces /\ x1.window = b.window /\ x1.handled = asks.id
  BY <1>0 DEF Workspaces
<1>2. x2 \in Workspaces /\ x2.window = x1.window /\ x2.handled = x1.handled /\ x2.preserve = TRUE
  BY <1>1 DEF Workspaces
<1>3. x3 \in Workspaces /\ x3.window = x2.window /\ x3.handled = x2.handled /\ x3.preserve = x2.preserve
      /\ x3.camera = asks.recording[1]
  BY <1>0, <1>2 DEF Workspaces
<1>4. x4 \in Workspaces /\ x4.window = x3.window /\ x4.handled = x3.handled /\ x4.preserve = x3.preserve
      /\ x4.camera = x3.camera /\ x4.recording = asks.recording
  BY <1>3 DEF Workspaces
<1>5. x5 \in Workspaces /\ x5.window = x4.window /\ x5.handled = x4.handled /\ x5.preserve = x4.preserve
      /\ x5.camera = x4.camera /\ x5.recording = x4.recording /\ x5.day = DayOf(asks.recording[2])
  BY <1>0, <1>4 DEF Workspaces
<1>6. x6 \in Workspaces /\ x6.window = x5.window /\ x6.handled = x5.handled /\ x6.preserve = x5.preserve
      /\ x6.camera = x5.camera /\ x6.recording = x5.recording /\ x6.day = x5.day
  BY <1>5 DEF Workspaces
<1>7. x7 \in Workspaces /\ x7.window = x6.window /\ x7.handled = x6.handled /\ x7.preserve = x6.preserve
      /\ x7.camera = x6.camera /\ x7.recording = x6.recording /\ x7.day = x6.day
  BY <1>0, <1>6 DEF Workspaces
<1>8. x8 \in Workspaces /\ x8.window = x7.window /\ x8.handled = x7.handled /\ x8.preserve = x7.preserve
      /\ x8.camera = x7.camera /\ x8.recording = x7.recording /\ x8.day = x7.day
  BY <1>7 DEF Workspaces
<1>9. Requested(b, asks) = x8
  BY Zenon DEF Requested
<1> HIDE DEF x1, x2, x3, x4, x5, x6, x7, x8
<1> QED
  BY <1>1, <1>2, <1>3, <1>4, <1>5, <1>6, <1>7, <1>8, <1>9

\* What the operator or the page has made of the workspace before its effects run.
Offers(b) ==
    /\ b \in Workspaces /\ Span(b.window) \in Spans
    /\ b.preserve = browser.preserve /\ b.handled = browser.handled
    /\ b.camera = browser.camera /\ b.day = browser.day => Highlighted(b, leftover)

LEMMA ShownKeeps ==
    ASSUME BrowserInv, NEW b, Offers(b), NEW d \in Dues, NoneAmiss(d),
           request' \in PlayRequests, offered' \subseteq Archived, RequestsOwe(d, browser.handled, request'),
           Shown(b, d)
    PROVE  /\ browser' \in Workspaces /\ Span(browser'.window) \in Spans
           /\ due' \in Dues /\ leftover' \in BOOLEAN
           /\ NoneAmiss(due') /\ RequestsOwe(due', browser'.handled, request') /\ due'[0] = d[0]
           /\ Highlighted(browser', leftover') /\ (browser'.preserve => leftover')
<1> DEFINE own == Reset(b, browser)
           served == IsServed(b)
           here == own.camera = request'.recording[1] /\ own.day = DayOf(request'.recording[2])
<1>0. /\ browser \in Workspaces /\ leftover \in BOOLEAN /\ Highlighted(browser, leftover)
      /\ browser.preserve => leftover
      /\ b \in Workspaces /\ Span(b.window) \in Spans /\ b.preserve = browser.preserve
      /\ b.handled = browser.handled /\ b.handled \in 0..MaxRequests
      /\ b.camera = browser.camera /\ b.day = browser.day => Highlighted(b, leftover)
  BY DEF BrowserInv, BrowserData, Offers, Workspaces
<1>1. /\ own \in Workspaces /\ Span(own.window) \in Spans
      /\ own.camera = b.camera /\ own.day = b.day /\ own.handled = b.handled
      /\ b.camera = browser.camera /\ b.day = browser.day => own = b
      /\ b.camera # browser.camera \/ b.day # browser.day =>
            own.preserve = FALSE /\ own.recording = IF b.preserve THEN b.recording ELSE NoRecording
  BY <1>0, ResetTyped
<1> HIDE DEF own
<1>2. Highlighted(own, leftover) /\ (own.preserve => leftover)
  <2>1. CASE b.camera = browser.camera /\ b.day = browser.day
    BY <1>0, <1>1, <2>1
  <2>2. CASE b.camera # browser.camera \/ b.day # browser.day
    BY <1>0, <1>1, <2>2 DEF Highlighted
  <2> QED
    BY <2>1, <2>2
<1>3. served <=> request'.id \notin {0, own.handled} /\ request'.recording[1] \in offered'
  BY DEF IsServed, CallsFor, own
<1>4. leftover' = (leftover \/ (served /\ here))
  BY DEF Shown, own
<1>5. due' = IF served THEN Pays(d, request'.id) ELSE d
  BY DEF Shown
<1>6. CASE served
  <2> DEFINE next == Requested(own, request')
  <2>1. request'.id \in 1..MaxRequests /\ d[request'.id] = "seek" /\ request'.recording \in Recordings
    BY <1>0, <1>1, <1>3, <1>6 DEF RequestsOwe, PlayRequests
  <2>2. /\ next \in Workspaces /\ next.window = own.window
        /\ next.camera = request'.recording[1] /\ next.day = DayOf(request'.recording[2])
        /\ next.recording = request'.recording /\ next.handled = request'.id /\ next.preserve = TRUE
    BY <1>1, <2>1, RequestedTyped
  <2>3. browser' = Reset(next, own)
    BY <1>3, <1>6 DEF Shown, Rendered, CallsFor, own
  <2> HIDE DEF next
  <2>4. /\ browser' \in Workspaces /\ Span(browser'.window) \in Spans /\ browser'.handled = request'.id
        /\ browser'.camera = next.camera /\ browser'.day = next.day
        /\ next.camera = own.camera /\ next.day = own.day => browser' = next
        /\ next.camera # own.camera \/ next.day # own.day =>
              browser'.preserve = FALSE /\ browser'.recording = request'.recording
    <3>1. /\ Reset(next, own) \in Workspaces /\ Span(Reset(next, own).window) \in Spans
          /\ Reset(next, own).camera = next.camera /\ Reset(next, own).day = next.day
          /\ Reset(next, own).handled = next.handled
          /\ next.camera = own.camera /\ next.day = own.day => Reset(next, own) = next
          /\ next.camera # own.camera \/ next.day # own.day =>
                /\ Reset(next, own).preserve = FALSE
                /\ Reset(next, own).recording = IF next.preserve THEN next.recording ELSE NoRecording
      <4>1. next \in Workspaces /\ own \in Workspaces /\ Span(next.window) \in Spans
        BY <1>1, <2>2
      <4> QED
        BY <4>1, ResetTyped
    <3>2. (IF next.preserve THEN next.recording ELSE NoRecording) = request'.recording
      BY <2>2
    <3> QED
      BY <2>2, <2>3, <3>1, <3>2
  <2>5. here <=> next.camera = own.camera /\ next.day = own.day
    BY <2>2
  <2>6. Highlighted(browser', leftover') /\ (browser'.preserve => leftover') /\ leftover' \in BOOLEAN
    <3>1. CASE here
      BY <1>0, <1>4, <1>6, <3>1 DEF Highlighted
    <3>2. CASE ~here
      <4>1. browser'.preserve = FALSE /\ browser'.recording = request'.recording
        BY <2>4, <2>5, <3>2
      <4>2. leftover' = leftover
        BY <1>0, <1>4, <3>2
      <4> QED
        BY <1>0, <2>2, <2>4, <4>1, <4>2 DEF Highlighted
    <3> QED
      BY <3>1, <3>2
  <2>7. due' \in Dues /\ due'[request'.id] = "sought" /\ due'[0] = d[0]
        /\ \A i \in 0..MaxRequests : i # request'.id => due'[i] = d[i]
    BY <1>5, <1>6, <2>1, Bounds DEF Pays, Dues
  <2>8. NoneAmiss(due') /\ RequestsOwe(due', browser'.handled, request')
    BY <2>1, <2>4, <2>7 DEF NoneAmiss, RequestsOwe
  <2> QED
    BY <2>4, <2>6, <2>7, <2>8
<1>7. CASE ~served
  <2>1. due' = d
    BY <1>5, <1>7
  <2>2. leftover' = leftover
    BY <1>0, <1>4, <1>7
  <2>3. CASE own.camera = NoSource /\ request'.id = 0 /\ offered' # {}
    <3> DEFINE c == CHOOSE c \in offered' : TRUE
               next == [own EXCEPT !.camera = c]
    <3>1. c \in Archived
      BY <2>3
    <3>2. browser' = Reset(next, own)
      BY <1>3, <1>7, <2>3 DEF Shown, Rendered, CallsFor, own
    <3> HIDE DEF c
    <3>3. /\ next \in Workspaces /\ next.window = own.window /\ next.camera = c /\ next.day = own.day
          /\ next.handled = own.handled /\ next.preserve = own.preserve /\ next.recording = own.recording
      BY <1>1, <3>1 DEF Workspaces
    <3> HIDE DEF next
    <3>4. c # own.camera
      BY <2>3, <3>1, Bounds
    <3>5. /\ browser' \in Workspaces /\ Span(browser'.window) \in Spans /\ browser'.handled = own.handled
          /\ browser'.preserve = FALSE
          /\ browser'.recording = IF own.preserve THEN own.recording ELSE NoRecording
      BY <1>1, <3>2, <3>3, <3>4, ResetTyped
    <3>6. Highlighted(browser', leftover')
      BY <1>2, <2>2, <3>5 DEF Highlighted
    <3> QED
      BY <1>0, <1>1, <2>1, <2>2, <3>5, <3>6
  <2>4. CASE ~(own.camera = NoSource /\ request'.id = 0 /\ offered' # {})
    <3>1. browser' = Reset(own, own)
      BY <1>3, <1>7, <2>4 DEF Shown, Rendered, CallsFor, own
    <3>2. browser' = own
      BY <3>1 DEF Reset
    <3> QED
      BY <1>0, <1>1, <1>2, <2>1, <2>2, <3>2
  <2> QED
    BY <2>3, <2>4
<1> QED
  BY <1>6, <1>7

LEMMA BrowserStart ==
    ASSUME BrowserInit
    PROVE  BrowserInv /\ CandidateIsHeld
<1>1. /\ browser \in Workspaces /\ browser.window = DayRange(0) /\ browser.recording = NoRecording
      /\ browser.preserve = FALSE /\ browser.handled = 0
  BY Bounds DEF BrowserInit, Workspaces, Days, NoTime
<1>2. /\ gesture \in PointerGesture /\ gesture.window = DayRange(0) /\ gesture.kind = "none" /\ candidate = NoTime
  BY Bounds DEF BrowserInit, PointerGesture, Still, Days, NoTime, Track
<1>3. request \in PlayRequests /\ request.id = 0
  BY Bounds DEF BrowserInit, NoRequest, PlayRequests
<1>4. due \in Dues /\ \A i \in 0..MaxRequests : due[i] = "nothing"
  BY DEF BrowserInit, Dues
<1>5. BrowserData
  <2>1. Span(browser.window) \in Spans /\ Span(gesture.window) \in Spans
    BY <1>1, <1>2, Bounds DEF Days
  <2>2. /\ tab = "playback" /\ offered = {} /\ kept = Recordings /\ gestures = 0 /\ loading = FALSE
        /\ leftover = FALSE /\ candidate \in Int
    BY DEF BrowserInit, NoTime
  <2>3. table \in [armed : Recordings \cup {NoRecording}, detail : Recordings \cup {NoRecording},
                  deleting : Recordings \cup {NoRecording}]
    BY DEF BrowserInit
  <2> QED
    BY <1>1, <1>2, <1>3, <1>4, <2>1, <2>2, <2>3, Bounds DEF BrowserData
<1> QED
  BY <1>1, <1>2, <1>3, <1>4, <1>5, Bounds
  DEF BrowserInv, NoneAmiss, GestureOwes, RequestsOwe, Highlighted, CandidateIsHeld

LEMMA Owing ==
    ASSUME NEW d \in Dues, NoneAmiss(d), NEW v \in {"nothing", "seek", "sought"}, NEW i \in 0..MaxRequests
    PROVE  /\ [d EXCEPT ![i] = v] \in Dues /\ NoneAmiss([d EXCEPT ![i] = v])
           /\ [d EXCEPT ![i] = v][i] = v
           /\ \A k \in 0..MaxRequests : k # i => [d EXCEPT ![i] = v][k] = d[k]
BY DEF Dues, NoneAmiss

\* A step that leaves the recordings' list, the requests and the cameras alone.
LEMMA PointerKeeps ==
    ASSUME BrowserInv, UNCHANGED <<tab, offered, request, table, kept, leftover>>, gestures' \in 0..MaxGestures,
           gesture' \in PointerGesture, Span(gesture'.window) \in Spans, candidate' \in Int,
           due' \in Dues, NoneAmiss(due'), GestureOwes(due', gesture'), loading' \in BOOLEAN,
           \A i \in 1..MaxRequests : due'[i] = due[i],
           browser' = browser \/ \E w \in Int \X Int : Span(w) \in Spans /\ browser' = [browser EXCEPT !.window = w]
    PROVE  BrowserInv'
<1>0. BrowserData /\ browser \in Workspaces /\ Span(browser.window) \in Spans
  BY DEF BrowserInv, BrowserData
<1>1. /\ browser' \in Workspaces /\ Span(browser'.window) \in Spans
      /\ browser'.camera = browser.camera /\ browser'.day = browser.day
      /\ browser'.handled = browser.handled /\ browser'.preserve = browser.preserve
      /\ browser'.recording = browser.recording
  BY <1>0 DEF Workspaces
<1>2. BrowserData'
  BY <1>0, <1>1 DEF BrowserData
<1>3. RequestsOwe(due', browser'.handled, request')
  BY <1>0, <1>1 DEF BrowserInv, BrowserData, RequestsOwe, Workspaces, PlayRequests
<1>4. Highlighted(browser', leftover') /\ (browser'.preserve => leftover')
  BY <1>1 DEF BrowserInv, Highlighted
<1> QED
  BY <1>2, <1>3, <1>4 DEF BrowserInv

\* A step of which the operator or the page makes the workspace b.
LEMMA WorkspaceShown ==
    ASSUME BrowserInv, NEW b, Offers(b), NEW d \in Dues, NoneAmiss(d), Shown(b, d),
           UNCHANGED <<table, kept>>, gestures' \in 0..MaxGestures, loading' \in BOOLEAN,
           tab' \in {"playback", "management"}, request' \in PlayRequests, offered' \subseteq Archived,
           RequestsOwe(d, browser.handled, request'), candidate' \in Int,
           gesture' \in PointerGesture, Span(gesture'.window) \in Spans, GestureOwes(d, gesture')
    PROVE  BrowserInv'
<1>1. /\ browser' \in Workspaces /\ Span(browser'.window) \in Spans
      /\ due' \in Dues /\ leftover' \in BOOLEAN
      /\ NoneAmiss(due') /\ RequestsOwe(due', browser'.handled, request') /\ due'[0] = d[0]
      /\ Highlighted(browser', leftover') /\ (browser'.preserve => leftover')
  BY ShownKeeps
<1>2. BrowserData'
  BY <1>1 DEF BrowserInv, BrowserData
<1>3. GestureOwes(due', gesture')
  BY <1>1 DEF GestureOwes
<1> QED
  BY <1>1, <1>2, <1>3 DEF BrowserInv

LEMMA WindowArithmetic ==
    /\ \A x \in Track, w \in Int \X Int : TimeAt(x, w) \in Int
    /\ \A w \in Int \X Int, k \in Int : Span(w) \in Spans => Span(<<w[1] + k, w[2] + k>>) \in Spans
    /\ \A t \in Int, w \in Int \X Int : Clamp(t, w) \in Int
    /\ \A n \in Spans : Clamp(n * 2, <<2, 8>>) \in Spans /\ Clamp(n \div 2, <<2, 8>>) \in Spans
<1>1. ASSUME NEW x \in Track, NEW w \in Int \X Int PROVE TimeAt(x, w) \in Int
  <2>1. w[1] \in Int /\ w[2] \in Int
    OBVIOUS
  <2>2. x \in Int
    BY DEF Track
  <2>3. (w[2] - w[1]) * x \in Int
    BY <2>1, <2>2
  <2>4. ((w[2] - w[1]) * x) \div 2 \in Int
    BY <2>3
  <2> QED
    BY <2>1, <2>4 DEF TimeAt, Span
<1>2. ASSUME NEW w \in Int \X Int, NEW k \in Int, Span(w) \in Spans PROVE Span(<<w[1] + k, w[2] + k>>) \in Spans
  BY <1>2 DEF Span, Spans
<1>3. ASSUME NEW t \in Int, NEW w \in Int \X Int PROVE Clamp(t, w) \in Int
  BY DEF Clamp
<1>4. ASSUME NEW n \in Spans PROVE Clamp(n * 2, <<2, 8>>) \in Spans /\ Clamp(n \div 2, <<2, 8>>) \in Spans
  BY DEF Clamp, Spans
<1> QED
  BY <1>1, <1>2, <1>3, <1>4

LEMMA BrowserStep ==
    ASSUME BrowserInv, [BrowserNext]_browserVars
    PROVE  BrowserInv'
<1>0. /\ BrowserData /\ NoneAmiss(due) /\ GestureOwes(due, gesture)
      /\ RequestsOwe(due, browser.handled, request) /\ Highlighted(browser, leftover)
      /\ browser \in Workspaces /\ Span(browser.window) \in Spans /\ browser.handled \in 0..MaxRequests
      /\ browser.window \in Int \X Int /\ browser.at \in Int /\ browser.camera \in Archived \cup {NoSource}
      /\ gesture \in PointerGesture /\ Span(gesture.window) \in Spans /\ gesture.window \in Int \X Int
      /\ gesture.at \in Int /\ gesture.x \in Track
      /\ due \in Dues /\ request \in PlayRequests /\ offered \subseteq Archived
      /\ candidate \in Int /\ gestures \in 0..MaxGestures /\ tab \in {"playback", "management"}
      /\ loading \in BOOLEAN
  BY DEF BrowserInv, BrowserData, Workspaces, PointerGesture
<1>g. Gestures => gestures' \in 0..MaxGestures
  BY <1>0, Bounds DEF Gestures
<1>l. TimelineAsked => loading' \in BOOLEAN
  BY <1>0 DEF TimelineAsked
<1>r. RequestsOwe(due, browser.handled, request)
  BY <1>0
<1>1. CASE UNCHANGED browserVars
  BY <1>1 DEF browserVars, BrowserInv, BrowserData, NoneAmiss, GestureOwes, RequestsOwe, Highlighted
<1>2. CASE TimelineLoaded
  <2>1. /\ loading' = FALSE
        /\ UNCHANGED <<tab, offered, browser, request, gesture, candidate, table, kept, gestures, due, leftover>>
    BY <1>2 DEF TimelineLoaded
  <2>2. BrowserData'
    BY <2>1 DEF BrowserInv, BrowserData
  <2>3. NoneAmiss(due)' /\ GestureOwes(due, gesture)'
    BY <2>1 DEF BrowserInv, NoneAmiss, GestureOwes
  <2>4. RequestsOwe(due, browser.handled, request)'
    BY <2>1 DEF BrowserInv, RequestsOwe
  <2>5. Highlighted(browser, leftover)' /\ (browser.preserve => leftover)'
    BY <2>1 DEF BrowserInv, Highlighted
  <2> QED
    BY <2>2, <2>3, <2>4, <2>5 DEF BrowserInv
<1> SUFFICES ASSUME BrowserEvents, TimelineAsked
             PROVE  BrowserInv'
  BY <1>1, <1>2 DEF BrowserNext
<1>l2. loading' \in BOOLEAN
  BY <1>l
\* The workspace as it is, as the page offers it to its effects.
<1>o. Offers(browser)
  BY <1>0 DEF Offers
\* What the operator changes of the workspace while no pointer is down.
<1>b. ASSUME NEW b, Offers(b), Shown(b, due), UNCHANGED <<table, kept, request, gesture, candidate>>,
             gestures' \in 0..MaxGestures, tab' \in {"playback", "management"}, offered' \subseteq Archived
      PROVE  BrowserInv'
  BY <1>0, <1>l2, <1>b, WorkspaceShown
<1>3. CASE CamerasListed \/ CamerasRefetched
  <2>1. PICK cameras : Camera(cameras) /\ cameras \subseteq Archived
    <3>1. CASE CamerasListed
      <4>1. PICK c \in Archived : Camera(offered \cup {c})
        BY <3>1 DEF CamerasListed
      <4> QED
        BY <1>0, <4>1
    <3>2. CASE CamerasRefetched
      BY <1>0, <3>2 DEF CamerasRefetched
    <3> QED
      BY <1>3, <3>1, <3>2
  <2> QED
    BY <1>0, <1>o, <1>b, <2>1 DEF Camera, PointerKept, ListKept
<1>4. CASE SwitchTab
  <2> DEFINE b == IF tab = "playback" THEN Left(browser) ELSE browser
  <2>1. Offers(Left(browser))
    BY <1>0 DEF Left, Offers, Workspaces, Highlighted
  <2>2. Offers(b)
    BY <1>o, <2>1
  <2> HIDE DEF b
  <2>3. Shown(b, due)
    BY <1>4 DEF SwitchTab, b
  <2>4. /\ UNCHANGED <<table, kept, request, gesture, candidate>> /\ offered' \subseteq Archived
        /\ gestures' \in 0..MaxGestures /\ tab' \in {"playback", "management"}
    BY <1>0, <1>g, <1>4 DEF SwitchTab, PointerKept, ListKept
  <2> QED
    BY <1>b, <2>2, <2>3, <2>4
<1>5. ASSUME NEW r \in Recordings, PlaySegment(r) PROVE BrowserInv'
  <2> DEFINE d == [due EXCEPT ![request.id + 1] = "seek"]
  <2>1. request.id \in Nat /\ request.id + 1 \in 1..MaxRequests /\ browser.handled <= request.id
    BY <1>0, <1>5, Bounds DEF PlaySegment, PlayRequests, RequestsOwe
  <2>2. d \in Dues /\ NoneAmiss(d) /\ d[request.id + 1] = "seek"
        /\ \A k \in 0..MaxRequests : k # request.id + 1 => d[k] = due[k]
    BY <1>0, <2>1, Owing
  <2>3. request' = [id |-> request.id + 1, recording |-> r] /\ tab' = "playback" /\ Shown(browser, d)
        /\ UNCHANGED <<offered, gesture, candidate, table, kept>> /\ gestures' \in 0..MaxGestures
    BY <1>g, <1>5 DEF PlaySegment, PointerKept, ListKept
  <2> HIDE DEF d
  <2>4. request' \in PlayRequests /\ request'.id = request.id + 1 /\ request'.recording = r
    BY <2>1, <2>3 DEF PlayRequests
  <2>5. RequestsOwe(d, browser.handled, request')
    <3>1. browser.handled <= request'.id
      BY <1>0, <2>1, <2>4
    <3>2. browser.handled # 0 => d[browser.handled] = "sought"
      BY <1>0, <2>1, <2>2 DEF RequestsOwe
    <3> QED
      BY <2>2, <2>4, <3>1, <3>2 DEF RequestsOwe
  <2>6. GestureOwes(d, gesture')
    BY <1>0, <2>1, <2>2, <2>3, Bounds DEF GestureOwes
  <2> QED
    BY <1>0, <1>l2, <1>o, <2>2, <2>3, <2>4, <2>5, <2>6, WorkspaceShown
\* The list of recordings alone.
<1>6. ASSUME UNCHANGED <<tab, offered, browser, request, gesture, candidate, due, leftover>>,
             gestures' \in 0..MaxGestures, kept' \subseteq Recordings,
             table' \in [armed : Recordings \cup {NoRecording}, detail : Recordings \cup {NoRecording},
                         deleting : Recordings \cup {NoRecording}]
      PROVE  BrowserInv'
  BY <1>0, <1>l2, <1>6 DEF BrowserInv, BrowserData
<1>7. ASSUME NEW r \in Recordings \cup {NoRecording}, SelectSegment(r) PROVE BrowserInv'
  <2>1. table' \in [armed : Recordings \cup {NoRecording}, detail : Recordings \cup {NoRecording},
                    deleting : Recordings \cup {NoRecording}]
    BY <1>0, <1>7 DEF SelectSegment, BrowserData
  <2> QED
    BY <1>0, <1>g, <1>6, <1>7, <2>1 DEF SelectSegment, Manages, BrowserData
<1>8. ASSUME NEW r \in Recordings, DeleteSelectedSegment(r) PROVE BrowserInv'
  <2>1. table' \in [armed : Recordings \cup {NoRecording}, detail : Recordings \cup {NoRecording},
                    deleting : Recordings \cup {NoRecording}]
    <3>1. CASE table.armed # r
      BY <1>0, <1>8, <3>1 DEF DeleteSelectedSegment, BrowserData
    <3>2. CASE table.armed = r
      BY <1>0, <1>8, <3>2 DEF DeleteSelectedSegment, BrowserData
    <3> QED
      BY <3>1, <3>2
  <2> QED
    BY <1>0, <1>g, <1>6, <1>8, <2>1 DEF DeleteSelectedSegment, Manages, BrowserData
<1>9. CASE CancelDelete
  <2>1. table' \in [armed : Recordings \cup {NoRecording}, detail : Recordings \cup {NoRecording},
                    deleting : Recordings \cup {NoRecording}]
    BY <1>0, <1>9 DEF CancelDelete, BrowserData
  <2> QED
    BY <1>0, <1>g, <1>6, <1>9, <2>1 DEF CancelDelete, Manages, BrowserData
<1>10. ASSUME NEW ok \in BOOLEAN, DeleteReturned(ok) PROVE BrowserInv'
  <2>1. CASE ok
    <3> DEFINE e == IF table.detail = table.deleting THEN NoRecording ELSE table.detail
               a == [table EXCEPT !.armed = NoRecording]
               b == [a EXCEPT !.deleting = NoRecording]
               c == [b EXCEPT !.detail = e]
    <3>1. table' = c /\ kept' = kept \ {table.deleting}
      BY <1>10, <2>1, Zenon DEF DeleteReturned
    <3>2. e \in Recordings \cup {NoRecording}
      BY <1>0 DEF BrowserData
    <3> HIDE DEF e
    <3>3. a \in [armed : Recordings \cup {NoRecording}, detail : Recordings \cup {NoRecording},
                 deleting : Recordings \cup {NoRecording}]
      BY <1>0 DEF BrowserData
    <3> HIDE DEF a
    <3>4. b \in [armed : Recordings \cup {NoRecording}, detail : Recordings \cup {NoRecording},
                 deleting : Recordings \cup {NoRecording}]
      BY <3>3
    <3> HIDE DEF b
    <3>5. c \in [armed : Recordings \cup {NoRecording}, detail : Recordings \cup {NoRecording},
                 deleting : Recordings \cup {NoRecording}]
      BY <3>2, <3>4
    <3> HIDE DEF c
    <3> QED
      BY <1>0, <1>6, <1>10, <3>1, <3>5 DEF DeleteReturned, BrowserData
  <2>2. CASE ~ok
    <3>1. table' = [table EXCEPT !.deleting = NoRecording] /\ kept' = kept
      BY <1>10, <2>2 DEF DeleteReturned
    <3>2. table' \in [armed : Recordings \cup {NoRecording}, detail : Recordings \cup {NoRecording},
                      deleting : Recordings \cup {NoRecording}]
      BY <1>0, <3>1 DEF BrowserData
    <3> QED
      BY <1>0, <1>6, <1>10, <3>1, <3>2 DEF DeleteReturned, BrowserData
  <2> QED
    BY <2>1, <2>2
\* The browser's own controls.
<1>11. ASSUME Browses
       PROVE  /\ UNCHANGED <<table, kept, request, gesture, candidate, tab, offered>>
              /\ gestures' \in 0..MaxGestures
  BY <1>g, <1>11 DEF Browses, PointerKept, ListKept
<1>12. ASSUME NEW b, Offers(b), Browses, Shown(b, due) PROVE BrowserInv'
  BY <1>0, <1>b, <1>11, <1>12
<1>13. ASSUME NEW c \in Archived, ChooseCamera(c) PROVE BrowserInv'
  <2> DEFINE a == [browser EXCEPT !.camera = c]
             b == [a EXCEPT !.list = FALSE]
  <2>1. /\ a \in Workspaces /\ a.window = browser.window /\ a.preserve = browser.preserve /\ a.handled = browser.handled
        /\ a.camera = c /\ a.day = browser.day /\ a.recording = browser.recording
    BY <1>0 DEF Workspaces
  <2>2. /\ b \in Workspaces /\ b.window = a.window /\ b.preserve = a.preserve /\ b.handled = a.handled
        /\ b.camera = a.camera /\ b.day = a.day /\ b.recording = a.recording
    BY <2>1 DEF Workspaces
  <2>3. Browses /\ Shown(b, due)
    BY <1>13, Zenon DEF ChooseCamera
  <2> HIDE DEF a, b
  <2>4. Offers(b)
    BY <1>0, <2>1, <2>2 DEF Offers, Highlighted
  <2> QED
    BY <1>12, <2>3, <2>4
<1>14. ASSUME NEW d \in Days, ChooseDate(d) PROVE BrowserInv'
  <2> DEFINE b == [browser EXCEPT !.day = d]
  <2>1. /\ b \in Workspaces /\ b.window = browser.window /\ b.preserve = browser.preserve
        /\ b.handled = browser.handled /\ b.camera = browser.camera /\ b.recording = browser.recording
    BY <1>0 DEF Workspaces
  <2>2. Browses /\ Shown(b, due)
    BY <1>14 DEF ChooseDate
  <2>3. b.day = browser.day => b.day = browser.day
    OBVIOUS
  <2> HIDE DEF b
  <2>4. Offers(b)
    BY <1>0, <2>1, <2>3 DEF Offers, Highlighted
  <2> QED
    BY <1>12, <2>2, <2>4
<1>15. ASSUME NEW t \in 0..(2 * Day - 1), SeekDraft(t) PROVE BrowserInv'
  <2> DEFINE b == [browser EXCEPT !.at = t]
  <2>1. /\ b \in Workspaces /\ b.window = browser.window /\ b.preserve = browser.preserve
        /\ b.handled = browser.handled /\ b.camera = browser.camera /\ b.day = browser.day
        /\ b.recording = browser.recording
    BY <1>0 DEF Workspaces, Day
  <2>2. Browses /\ Shown(b, due)
    BY <1>15 DEF SeekDraft
  <2> HIDE DEF b
  <2>3. Offers(b)
    BY <1>0, <2>1 DEF Offers, Highlighted
  <2> QED
    BY <1>12, <2>2, <2>3
<1>16. ASSUME NEW r \in Recordings, ChooseSegment(r) PROVE BrowserInv'
  <2> DEFINE x1 == [browser EXCEPT !.recording = r]
             x2 == [x1 EXCEPT !.at = r[2]]
             x3 == [x2 EXCEPT !.playing = TRUE]
             b == [x3 EXCEPT !.list = FALSE]
  <2>1. /\ x1 \in Workspaces /\ x1.window = browser.window /\ x1.preserve = browser.preserve
        /\ x1.handled = browser.handled /\ x1.camera = browser.camera /\ x1.day = browser.day /\ x1.recording = r
    BY <1>0 DEF Workspaces
  <2>2. /\ x2 \in Workspaces /\ x2.window = x1.window /\ x2.preserve = x1.preserve
        /\ x2.handled = x1.handled /\ x2.camera = x1.camera /\ x2.day = x1.day /\ x2.recording = r
    BY <2>1, Bounds DEF Workspaces
  <2>3. /\ x3 \in Workspaces /\ x3.window = x2.window /\ x3.preserve = x2.preserve
        /\ x3.handled = x2.handled /\ x3.camera = x2.camera /\ x3.day = x2.day /\ x3.recording = r
    BY <2>2 DEF Workspaces
  <2>4. /\ b \in Workspaces /\ b.window = x3.window /\ b.preserve = x3.preserve
        /\ b.handled = x3.handled /\ b.camera = x3.camera /\ b.day = x3.day /\ b.recording = r
    BY <2>3 DEF Workspaces
  <2>5. Browses /\ Shown(b, due)
    BY <1>16, Zenon DEF ChooseSegment
  <2>6. r[1] = browser.camera /\ DayOf(r[2]) = browser.day
    BY <1>16 DEF ChooseSegment
  <2> HIDE DEF x1, x2, x3, b
  <2>7. Offers(b)
    BY <1>0, <2>1, <2>2, <2>3, <2>4, <2>6 DEF Offers, Highlighted
  <2> QED
    BY <1>12, <2>5, <2>7
<1>17. ASSUME NEW open \in BOOLEAN, ToggleList(open) PROVE BrowserInv'
  <2> DEFINE b == [browser EXCEPT !.list = open]
  <2>1. /\ b \in Workspaces /\ b.window = browser.window /\ b.preserve = browser.preserve
        /\ b.handled = browser.handled /\ b.camera = browser.camera /\ b.day = browser.day
        /\ b.recording = browser.recording
    BY <1>0 DEF Workspaces
  <2>2. Browses /\ Shown(b, due)
    BY <1>17 DEF ToggleList
  <2> HIDE DEF b
  <2>3. Offers(b)
    BY <1>0, <2>1 DEF Offers, Highlighted
  <2> QED
    BY <1>12, <2>2, <2>3
\* The time line.
<1>18. ASSUME OnTrack
       PROVE  UNCHANGED <<tab, offered, request, table, kept>> /\ gestures' \in 0..MaxGestures
  BY <1>g, <1>18 DEF OnTrack, ListKept
<1>19. due[0] \in {"nothing", "seek", "sought"} /\ 0 \in 0..MaxRequests
  BY <1>0, Bounds DEF Dues, NoneAmiss
<1>20. [due EXCEPT ![0] = "seek"] \in Dues /\ NoneAmiss([due EXCEPT ![0] = "seek"])
       /\ [due EXCEPT ![0] = "seek"][0] = "seek"
       /\ \A i \in 1..MaxRequests : [due EXCEPT ![0] = "seek"][i] = due[i]
  BY <1>0, <1>19, Owing
<1>21. Released(due) \in Dues /\ NoneAmiss(Released(due)) /\ Released(due)[0] # "seek"
       /\ \A i \in 1..MaxRequests : Released(due)[i] = due[i]
  <2> DEFINE v == IF due[0] = "seek" THEN "nothing" ELSE due[0]
  <2>1. Released(due) = [due EXCEPT ![0] = v]
    BY DEF Released
  <2>2. v \in {"nothing", "seek", "sought"} /\ v # "seek"
    BY <1>19
  <2> HIDE DEF v
  <2> DEFINE e == [due EXCEPT ![0] = v]
  <2>3. e \in Dues /\ NoneAmiss(e) /\ e[0] = v /\ \A k \in 0..MaxRequests : k # 0 => e[k] = due[k]
    BY <1>0, <1>19, <2>2, Owing
  <2>4. Released(due) = e
    BY <2>1
  <2> HIDE DEF e
  <2> QED
    BY <2>2, <2>3, <2>4
<1>22. due[0] = "seek" =>
          /\ Pays(due, 0) \in Dues /\ NoneAmiss(Pays(due, 0)) /\ Pays(due, 0)[0] = "sought"
          /\ \A i \in 1..MaxRequests : Pays(due, 0)[i] = due[i]
  <2>1. Pays(due, 0) = [due EXCEPT ![0] = IF due[0] = "seek" THEN "sought" ELSE "amiss"]
    BY DEF Pays
  <2> QED
    BY <1>0, <1>19, <2>1, Owing
<1>23. ASSUME NEW p \in 1..2, NEW x \in Track, BeginPan(p, x) \/ BeginCursorDrag(p, x) PROVE BrowserInv'
  <2> DEFINE t == TimeAt(x, browser.window)
             window == IF gesture'.kind = "pan" THEN browser.window ELSE DayRange(0)
  <2>1. t \in Int /\ p \in 0..2 /\ 0 \in Days
    BY <1>0, WindowArithmetic DEF Days
  <2> HIDE DEF t
  <2>2. OnTrack /\ due' = [due EXCEPT ![0] = "seek"] /\ UNCHANGED <<browser, leftover>>
    BY <1>23 DEF BeginPan, BeginCursorDrag, MayBegin
  <2>3. /\ gesture' \in PointerGesture /\ Span(gesture'.window) \in Spans /\ candidate' \in Int
        /\ gesture'.kind # "none" /\ (gesture'.kind = "pan" => gesture'.moved = FALSE)
    <3>1. CASE BeginPan(p, x)
      <4>1. gesture' = [kind |-> "pan", pointer |-> p, x |-> x, window |-> browser.window, moved |-> FALSE,
                        at |-> NoTime]
        BY <3>1 DEF BeginPan, Still
      <4>2. candidate' = candidate /\ NoTime \in Int
        BY <3>1 DEF BeginPan, NoTime
      <4>3. gesture' \in PointerGesture
        BY <1>0, <2>1, <4>1, <4>2 DEF PointerGesture
      <4>4. gesture'.kind = "pan" /\ gesture'.moved = FALSE /\ gesture'.window = browser.window
        BY <4>1
      <4> QED
        BY <1>0, <4>2, <4>3, <4>4
    <3>2. CASE BeginCursorDrag(p, x)
      <4>1. gesture' = [kind |-> "cursor", pointer |-> p, x |-> 0, window |-> DayRange(0), moved |-> FALSE, at |-> t]
            /\ candidate' = t
        BY <3>2 DEF BeginCursorDrag, Still, t
      <4> QED
        BY <2>1, <4>1, Bounds DEF PointerGesture, Track
    <3> QED
      BY <1>23, <3>1, <3>2
  <2>4. GestureOwes(due', gesture')
    BY <1>20, <2>2, <2>3 DEF GestureOwes, PointerGesture
  <2> QED
    BY <1>18, <1>20, <1>l2, <2>2, <2>3, <2>4, PointerKeeps
<1>24. ASSUME NEW p \in 1..2, NEW x \in Track, UpdatePointer(p, x) PROVE BrowserInv'
  <2>1. OnTrack /\ gesture.kind # "none"
    BY <1>24 DEF UpdatePointer
  <2>2. CASE gesture.kind = "cursor"
    <3>1. /\ gesture' = [gesture EXCEPT !.at = TimeAt(x, browser.window)]
          /\ candidate' = TimeAt(x, browser.window) /\ UNCHANGED <<browser, due, leftover>>
      BY <1>24, <2>2 DEF UpdatePointer
    <3>2. TimeAt(x, browser.window) \in Int
      BY <1>0, WindowArithmetic
    <3>3. /\ gesture' \in PointerGesture /\ gesture'.window = gesture.window /\ gesture'.kind = gesture.kind
          /\ gesture'.moved = gesture.moved
      BY <1>0, <3>1, <3>2 DEF PointerGesture
    <3>4. GestureOwes(due', gesture')
      BY <1>0, <2>2, <3>1, <3>3 DEF GestureOwes
    <3> QED
      BY <1>0, <1>18, <1>l2, <2>1, <3>1, <3>2, <3>3, <3>4, PointerKeeps
  <2>3. CASE gesture.kind = "pan"
    <3> DEFINE shift == (Span(gesture.window) * (gesture.x - x)) \div 2
               w == <<gesture.window[1] + shift, gesture.window[2] + shift>>
    <3>1. /\ gesture' = [gesture EXCEPT !.moved = TRUE] /\ browser' = [browser EXCEPT !.window = w]
          /\ due' = Released(due) /\ UNCHANGED <<candidate, leftover>>
      BY <1>24, <2>3 DEF UpdatePointer
    <3>2. shift \in Int
      <4>1. Span(gesture.window) \in Int /\ gesture.x - x \in Int
        BY <1>0 DEF Spans, Track
      <4>2. Span(gesture.window) * (gesture.x - x) \in Int
        BY <4>1
      <4> QED
        BY <4>2
    <3> HIDE DEF shift
    <3>3. w \in Int \X Int /\ Span(w) \in Spans
      BY <1>0, <3>2, WindowArithmetic
    <3> HIDE DEF w
    <3>4. /\ gesture' \in PointerGesture /\ gesture'.window = gesture.window /\ gesture'.kind = "pan"
          /\ gesture'.moved = TRUE
      BY <1>0, <2>3, <3>1 DEF PointerGesture
    <3>5. GestureOwes(due', gesture')
      BY <1>21, <3>1, <3>4 DEF GestureOwes
    <3> QED
      BY <1>0, <1>18, <1>21, <1>l2, <2>1, <3>1, <3>3, <3>4, <3>5, PointerKeeps
  <2> QED
    BY <1>0, <2>1, <2>2, <2>3 DEF PointerGesture
\* The pointer is gone: still again.
<1>25. Still \in PointerGesture /\ Span(Still.window) \in Spans /\ Still.kind = "none" /\ NoTime \in Int
  <2>1. 0 \in Days
    BY DEF Days
  <2> QED
    BY <2>1, Bounds DEF Still, PointerGesture, NoTime, Track
<1>26. ASSUME NEW p \in 1..2, NEW x \in Track, FinishPointer(p, x) PROVE BrowserInv'
  <2>1. OnTrack /\ gesture.kind # "none" /\ gesture' = Still
    BY <1>26 DEF FinishPointer
  <2>2. CASE gesture.kind = "pan" /\ gesture.moved
    <3>1. UNCHANGED <<candidate, browser, due, leftover>>
      BY <1>26, <2>2 DEF FinishPointer
    <3>2. GestureOwes(due', gesture')
      BY <1>0, <1>25, <2>1, <2>2, <3>1 DEF GestureOwes
    <3> QED
      BY <1>0, <1>18, <1>25, <1>l2, <2>1, <3>1, <3>2, PointerKeeps
  <2>3. CASE gesture.kind = "cursor" \/ (gesture.kind = "pan" /\ ~gesture.moved)
    <3>1. \E t : SeekTimeline(t, Pays(due, 0)) /\ candidate' \in {candidate, NoTime} /\ t \in Int
      <4>1. TimeAt(x, gesture.window) \in Int
        BY <1>0, WindowArithmetic
      <4>2. CASE gesture.kind = "cursor"
        BY <1>0, <1>26, <4>2 DEF FinishPointer
      <4>3. CASE gesture.kind = "pan" /\ ~gesture.moved
        BY <1>26, <4>1, <4>3 DEF FinishPointer
      <4> QED
        BY <2>3, <4>2, <4>3
    <3>2. PICK t \in Int : SeekTimeline(t, Pays(due, 0)) /\ candidate' \in {candidate, NoTime}
      BY <3>1
    <3> DEFINE b == [browser EXCEPT !.at = t]
    <3>3. /\ b \in Workspaces /\ b.window = browser.window /\ b.preserve = browser.preserve
          /\ b.handled = browser.handled /\ b.camera = browser.camera /\ b.day = browser.day
          /\ b.recording = browser.recording
      BY <1>0 DEF Workspaces
    <3>4. Shown(b, Pays(due, 0))
      BY <3>2 DEF SeekTimeline
    <3> HIDE DEF b
    <3>5. Offers(b)
      BY <1>0, <3>3 DEF Offers, Highlighted
    <3>6. due[0] = "seek"
      BY <1>0, <2>3 DEF GestureOwes
    <3>7. RequestsOwe(Pays(due, 0), browser.handled, request')
      <4>1. request' = request
        BY <1>18, <2>1
      <4> QED
        BY <1>0, <1>22, <3>6, <4>1 DEF RequestsOwe, PlayRequests
    <3>8. GestureOwes(Pays(due, 0), gesture')
      BY <1>22, <1>25, <2>1, <3>6 DEF GestureOwes
    <3> QED
      BY <1>0, <1>18, <1>22, <1>25, <1>l2, <2>1, <3>2, <3>4, <3>5, <3>6, <3>7, <3>8, WorkspaceShown
  <2> QED
    BY <1>0, <2>1, <2>2, <2>3 DEF PointerGesture
<1>27. ASSUME EscapeGesture \/ \E p \in 1..2 : CancelPointer(p) PROVE BrowserInv'
  <2>1. /\ OnTrack /\ gesture' = Still /\ candidate' = NoTime /\ due' = Released(due)
        /\ UNCHANGED <<browser, leftover>>
    BY <1>27 DEF EscapeGesture, CancelPointer
  <2>2. GestureOwes(due', gesture')
    BY <1>21, <1>25, <2>1 DEF GestureOwes
  <2> QED
    BY <1>18, <1>21, <1>25, <1>l2, <2>1, <2>2, PointerKeeps
<1>28. ASSUME NEW x \in Track, NEW wider \in BOOLEAN, ZoomViewport(x, wider) PROVE BrowserInv'
  <2> DEFINE span == IF wider THEN Clamp(Span(browser.window) * 2, <<2, 8>>)
                     ELSE Clamp(Span(browser.window) \div 2, <<2, 8>>)
             from == TimeAt(x, browser.window) - (span * x) \div 2
             w == <<from, from + span>>
  <2>1. browser' = [browser EXCEPT !.window = w] /\ OnTrack /\ UNCHANGED <<gesture, candidate, due, leftover>>
    BY <1>28 DEF ZoomViewport, PointerKept
  <2>2. span \in Spans
    BY <1>0, WindowArithmetic
  <2> HIDE DEF span
  <2>3. from \in Int
    <3>1. TimeAt(x, browser.window) \in Int
      BY <1>0, WindowArithmetic
    <3>2. span * x \in Int
      BY <2>2 DEF Spans, Track
    <3> QED
      BY <3>1, <3>2
  <2> HIDE DEF from
  <2>4. w \in Int \X Int /\ Span(w) \in Spans
    BY <2>2, <2>3 DEF Span, Spans
  <2> HIDE DEF w
  <2>5. UNCHANGED <<tab, offered, request, table, kept>> /\ gestures' \in 0..MaxGestures
    BY <1>18, <2>1
  <2> QED
    BY <1>0, <1>l2, <2>1, <2>4, <2>5, PointerKeeps
<1>29. ASSUME NEW step \in {"home", "end", "back", "on"}, HandleKeyboard(step) PROVE BrowserInv'
  <2> DEFINE w == browser.window
             current == Clamp(IF browser.at = NoTime THEN TimeAt(1, w) ELSE browser.at, w)
             t == Clamp(CASE step = "home" -> w[1] [] step = "end" -> w[2]
                          [] step = "back" -> current - 1 [] step = "on" -> current + 1, w)
             b == [browser EXCEPT !.at = t]
  <2>1. OnTrack /\ Shown(b, due) /\ UNCHANGED <<gesture, candidate>>
    BY <1>29 DEF HandleKeyboard, SeekTimeline, PointerKept
  <2>2. t \in Int
    <3>1. w \in Int \X Int /\ w[1] \in Int /\ w[2] \in Int /\ 1 \in Track
      BY <1>0 DEF Track
    <3>2. (IF browser.at = NoTime THEN TimeAt(1, w) ELSE browser.at) \in Int
      BY <1>0, <3>1, WindowArithmetic
    <3>3. current \in Int
      BY <3>1, <3>2, WindowArithmetic
    <3> HIDE DEF current
    <3>4. (CASE step = "home" -> w[1] [] step = "end" -> w[2]
             [] step = "back" -> current - 1 [] step = "on" -> current + 1) \in Int
      BY <3>1, <3>3
    <3> QED
      BY <3>1, <3>4, WindowArithmetic
  <2> HIDE DEF t
  <2>3. /\ b \in Workspaces /\ b.window = browser.window /\ b.preserve = browser.preserve
        /\ b.handled = browser.handled /\ b.camera = browser.camera /\ b.day = browser.day
        /\ b.recording = browser.recording
    BY <1>0, <2>2 DEF Workspaces
  <2> HIDE DEF b
  <2>4. Offers(b)
    BY <1>0, <2>3 DEF Offers, Highlighted
  <2>5. UNCHANGED <<tab, offered, request, table, kept>> /\ gestures' \in 0..MaxGestures
    BY <1>18, <2>1
  <2> QED
    BY <1>0, <1>b, <2>1, <2>4, <2>5
<1> QED
  BY <1>3, <1>4, <1>5, <1>7, <1>8, <1>9, <1>10, <1>13, <1>14, <1>15, <1>16, <1>17, <1>23, <1>24, <1>26, <1>27,
     <1>28, <1>29 DEF BrowserEvents

\* With one pointer a candidate begins and ends with the hold of the cursor.
LEMMA CandidateStep ==
    ASSUME BrowserInv, CandidateIsHeld, OnePointer, [BrowserNext]_browserVars
    PROVE  CandidateIsHeld'
<1>1. CASE UNCHANGED <<gesture, candidate>>
  BY <1>1 DEF CandidateIsHeld
<1>2. ASSUME NEW p \in 1..2, NEW x \in Track, BeginPan(p, x) PROVE CandidateIsHeld'
  BY <1>2 DEF BeginPan, MayBegin, CandidateIsHeld, Still
<1>3. ASSUME NEW p \in 1..2, NEW x \in Track, BeginCursorDrag(p, x) PROVE CandidateIsHeld'
  BY <1>3 DEF BeginCursorDrag, CandidateIsHeld, Still
<1>4. ASSUME NEW p \in 1..2, NEW x \in Track, UpdatePointer(p, x) PROVE CandidateIsHeld'
  <2>1. gesture \in PointerGesture
    BY DEF BrowserInv, BrowserData
  <2>2. CASE gesture.kind = "cursor"
    <3>1. gesture' = [gesture EXCEPT !.at = TimeAt(x, browser.window)] /\ candidate' = TimeAt(x, browser.window)
      BY <1>4, <2>2 DEF UpdatePointer
    <3>2. gesture'.kind = "cursor" /\ gesture'.at = TimeAt(x, browser.window)
      BY <2>1, <2>2, <3>1 DEF PointerGesture
    <3> QED
      BY <3>1, <3>2 DEF CandidateIsHeld
  <2>3. CASE gesture.kind # "cursor"
    <3>1. gesture' = [gesture EXCEPT !.moved = TRUE] /\ candidate' = candidate
      BY <1>4, <2>3 DEF UpdatePointer
    <3>2. gesture'.kind = gesture.kind
      BY <2>1, <3>1 DEF PointerGesture
    <3> QED
      BY <2>3, <3>1, <3>2 DEF CandidateIsHeld
  <2> QED
    BY <2>2, <2>3
<1>5. ASSUME NEW p \in 1..2, NEW x \in Track, FinishPointer(p, x) PROVE CandidateIsHeld'
  <2>1. gesture' = Still /\ Still.kind = "none"
    BY <1>5 DEF FinishPointer, Still
  <2>2. candidate' = NoTime
    <3>1. CASE gesture.kind = "cursor"
      BY <1>5, <3>1 DEF FinishPointer
    <3>2. CASE gesture.kind # "cursor"
      <4>1. candidate' = candidate
        <5>1. CASE gesture.kind = "pan" /\ gesture.moved
          BY <1>5, <5>1 DEF FinishPointer
        <5>2. CASE ~(gesture.kind = "pan" /\ gesture.moved)
          BY <1>5, <3>2, <5>2 DEF FinishPointer
        <5> QED
          BY <5>1, <5>2
      <4> QED
        BY <3>2, <4>1 DEF CandidateIsHeld
    <3> QED
      BY <3>1, <3>2
  <2> QED
    BY <2>1, <2>2 DEF CandidateIsHeld
<1>6. CASE EscapeGesture \/ \E p \in 1..2 : CancelPointer(p)
  BY <1>6 DEF EscapeGesture, CancelPointer, CandidateIsHeld, Still
<1> QED
  BY <1>1, <1>2, <1>3, <1>4, <1>5, <1>6
  DEF BrowserNext, browserVars, TimelineLoaded, BrowserEvents, CamerasListed, CamerasRefetched, Camera, SwitchTab,
      PointerKept, PlaySegment, SelectSegment, DeleteSelectedSegment, CancelDelete, Manages, DeleteReturned,
      ChooseCamera, ChooseDate, SeekDraft, ChooseSegment, ToggleList, Browses, ZoomViewport, HandleKeyboard

\* What the proofs keep is what the page is asked to show.
LEMMA AsAsked ==
    ASSUME BrowserInv
    PROVE  BrowserTypeOK /\ SeeksOnce /\ HighlightIsHere
<1>1. BrowserTypeOK
  BY DEF BrowserInv, BrowserData, BrowserTypeOK, Workspaces, PlayRequests, Dues
<1>2. SeeksOnce
  BY DEF BrowserInv, NoneAmiss, GestureOwes, RequestsOwe, SeeksOnce, Still
<1>3. HighlightIsHere
  BY DEF BrowserInv, Highlighted, HighlightIsHere
<1> QED
  BY <1>1, <1>2, <1>3

\* For any recordings, requests and gestures, of one finger or two: a press seeks at most once,
\* a request is served once, and the highlighted recording is of the camera and day shown
\* (the effects of RecordingBrowserWorkspace.tsx).
THEOREM SeeksAreServedOnce == BrowserSpec => [](BrowserTypeOK /\ SeeksOnce /\ HighlightIsHere)
<1>1. BrowserInit => BrowserInv
  BY BrowserStart
<1>2. BrowserInv /\ [BrowserNext]_browserVars => BrowserInv'
  BY BrowserStep
<1>3. BrowserInv => BrowserTypeOK /\ SeeksOnce /\ HighlightIsHere
  BY AsAsked
<1> QED
  BY <1>1, <1>2, <1>3, PTL DEF BrowserSpec

\* With one pointer at a time the page also shows a candidate just while the cursor is held
\* (gestureRef and candidateMs of PlaybackTimeline.tsx).
THEOREM PageShowsWhatWasAsked ==
    ASSUME OnePointer
    PROVE  BrowserSpec => []ShowsWhatWasAsked
<1> DEFINE Inv == BrowserInv /\ CandidateIsHeld
<1>1. BrowserInit => Inv
  BY BrowserStart
<1>2. Inv /\ [BrowserNext]_browserVars => Inv'
  BY BrowserStep, CandidateStep
<1>3. Inv => ShowsWhatWasAsked
  BY AsAsked DEF ShowsWhatWasAsked
<1> QED
  BY <1>1, <1>2, <1>3, PTL DEF BrowserSpec

-----------------------------------------------------------------------------
(* The arrangement of the live page.                                       *)

Arranged ==
    [set : {TRUE}, id : LayoutIds \cup {Unsaved}, items : Arrangements, collapsed : BOOLEAN, dirty : BOOLEAN]
Saves ==
    [kind : {"update", "create"}, id : LayoutIds \cup {Unsaved}, at : {"sent", "done", "refused"},
     nth : 0..MaxOperations, items : Arrangements, collapsed : BOOLEAN]
Deletes ==
    [kind : {"delete"}, id : LayoutIds, at : {"sent", "done", "refused"}, nth : 0..MaxOperations,
     current : LayoutIds \cup {Unsaved}, layouts : Seq(Layout), cameras : SUBSET Views]

LayoutTyped ==
    /\ saved \in Seq(Layout) /\ listed \in [ready : BOOLEAN, layouts : Seq(Layout)] /\ rows \subseteq Views
    /\ shown = NotShown \/ shown \in Arranged
    /\ remembered \in [id : LayoutIds \cup {Unsaved}, collapsed : BOOLEAN]
    /\ sent \subseteq Saves \cup Deletes
    /\ operations \in 0..MaxOperations /\ crossed \in BOOLEAN

\* A request that saves is one of those numbered so far, and has a name unless it asks for a new one.
NamesGiven ==
    \A r \in sent :
        /\ r.nth < operations
        /\ r.kind = "update" \/ (r.kind = "create" /\ r.at = "done") => r.id # Unsaved

\* Nothing is asked for before there is an arrangement, and that needs cameras and a list.
Arrived ==
    /\ ~shown.set => sent = {}
    /\ shown.set => listed.ready /\ rows # {}

\* What is shown with no mark of an edit is what list has under that name.
Clean(s, list) ==
    ~s.dirty =>
        IF s.id = Unsaved THEN list = <<>>
        ELSE \E i \in DOMAIN list :
                /\ list[i].id = s.id /\ list[i].collapsed = s.collapsed
                /\ s.items = MergeWithCameras(list[i].items, DOMAIN s.items)

\* While the operator waits, the page's list is the server's and what is shown is clean.
InStep ==
    ~crossed /\ sent = {} /\ listed.ready => listed.layouts = saved /\ (shown.set => Clean(shown, saved))

\* While the operator waits for one request, its answer is about what is shown.
Waits(r) ==
    /\ sent = {r}
    /\ r.at \in {"sent", "refused"} => listed.layouts = saved /\ Clean(shown, saved)
    /\ r.kind # "delete" =>
          /\ r.items = shown.items /\ r.collapsed = shown.collapsed
          /\ r.at = "done" =>
                saved # <<>> /\ saved[1] = [id |-> r.id, items |-> r.items, collapsed |-> r.collapsed]
    /\ r.kind = "delete" =>
          /\ r.current = shown.id /\ r.cameras # {}
          /\ r.at = "sent" => r.layouts = saved
          /\ r.at = "done" => saved = Others(r.layouts, r.id) /\ (r.id # r.current => Clean(shown, saved))

AnswersFit == ~crossed => \A r \in sent : Waits(r)

LayoutInv == LayoutTyped /\ NamesGiven /\ Arrived /\ InStep /\ AnswersFit

-----------------------------------------------------------------------------

LEMMA LayoutTypes ==
    LayoutTyped' <=>
        /\ saved' \in Seq(Layout) /\ listed' \in [ready : BOOLEAN, layouts : Seq(Layout)] /\ rows' \subseteq Views
        /\ shown' = NotShown \/ shown' \in Arranged
        /\ remembered' \in [id : LayoutIds \cup {Unsaved}, collapsed : BOOLEAN]
        /\ sent' \subseteq Saves \cup Deletes
        /\ operations' \in 0..MaxOperations /\ crossed' \in BOOLEAN
BY DEF LayoutTyped, Arranged, Saves, Deletes

LEMMA Identifiers == /\ Unsaved \notin LayoutIds /\ 1 \in LayoutIds /\ 2 \in LayoutIds /\ MaxOperations \in Nat
                     /\ LayoutIds \subseteq Nat
BY OperationsAssumption DEF LayoutIds, Unsaved

\* Arithmetic of a place in a list and of the places after it.
LEMMA PlacesAfter ==
    ASSUME NEW n \in Nat, NEW p \in 1..n
    PROVE  /\ p + 1 <= n => n - (p + 1) + 1 = n - p
           /\ ~(p + 1 <= n) => n - p = 0
           /\ \A i \in 1..(n - p) : i \in 1..(n - (p + 1) + 1) /\ (p + 1) + i - 1 = p + i
OBVIOUS

LEMMA Homes == Home \in Item /\ Moved \in Item
BY DEF Home, Moved, Item

LEMMA ArrangementOf ==
    ASSUME NEW S \in SUBSET Views, NEW f \in [S -> Item]
    PROVE  f \in Arrangements /\ DOMAIN f = S
BY DEF Arrangements

LEMMA ArrangementIs ==
    ASSUME NEW f \in Arrangements
    PROVE  DOMAIN f \in SUBSET Views /\ f \in [DOMAIN f -> Item]
BY DEF Arrangements

LEMMA Rearranged ==
    ASSUME NEW f \in Arrangements, NEW c \in DOMAIN f, NEW v \in Item
    PROVE  [f EXCEPT ![c] = v] \in Arrangements
BY ArrangementIs, ArrangementOf

LEMMA Merged ==
    ASSUME NEW f \in Arrangements, NEW S \in SUBSET Views
    PROVE  /\ MergeWithCameras(f, S) \in Arrangements /\ DOMAIN MergeWithCameras(f, S) = S
           /\ MergeWithCameras(f, DOMAIN f) = f
<1>1. MergeWithCameras(f, S) \in [S -> Item]
  BY ArrangementIs, Homes DEF MergeWithCameras
<1>2. MergeWithCameras(f, DOMAIN f) = f
  BY ArrangementIs DEF MergeWithCameras
<1> QED
  BY <1>1, <1>2, ArrangementOf

LEMMA LayoutAt ==
    ASSUME NEW list \in Seq(Layout), NEW i \in DOMAIN list
    PROVE  /\ list[i] \in Layout /\ list[i].id \in LayoutIds /\ list[i].items \in Arrangements
           /\ list[i].collapsed \in BOOLEAN /\ i \in 1..Len(list) /\ Len(list) \in Nat
<1>1. i \in 1..Len(list) /\ list[i] \in Layout /\ Len(list) \in Nat
  BY LenProperties, ElementOfSeq
<1> QED
  BY <1>1 DEF Layout

\* Where a list has a layout of that name, the place found is one of those it has it at.
LEMMA PlaceFound ==
    ASSUME NEW list \in Seq(Layout), NEW id, Named(list, id) # {}
    PROVE  /\ Place(list, id) \in 1..Len(list) /\ Len(list) \in Nat
           /\ list[Place(list, id)].id = id
<1>1. Place(list, id) \in Named(list, id)
  BY DEF Place
<1> QED
  BY <1>1, LayoutAt DEF Named

\* A layout taken out of a list: what remains is a list, with every layout of another name.
LEMMA OthersRemain ==
    ASSUME NEW list \in Seq(Layout), NEW id
    PROVE  /\ Others(list, id) \in Seq(Layout)
           /\ \A i \in DOMAIN list : list[i].id # id =>
                 \E j \in DOMAIN Others(list, id) : Others(list, id)[j] = list[i]
<1>1. CASE Named(list, id) = {}
  BY <1>1 DEF Others
<1>2. CASE Named(list, id) # {}
  <2> DEFINE p == Place(list, id)
             before == SubSeq(list, 1, p - 1)
             after == SubSeq(list, p + 1, Len(list))
  <2>1. p \in 1..Len(list) /\ Len(list) \in Nat /\ list[p].id = id /\ DOMAIN list = 1..Len(list)
    BY <1>2, PlaceFound, LenProperties
  <2>2. Others(list, id) = before \o after
    BY <1>2 DEF Others
  <2> HIDE DEF p
  <2>3. before \in Seq(Layout) /\ Len(before) = p - 1 /\ \A i \in 1..(p - 1) : before[i] = list[i]
    <3>1. 1 \in 1..(Len(list) + 1) /\ p - 1 \in 0..Len(list) /\ \A i \in 1..(p - 1) : i \in 1..Len(list)
      BY <2>1
    <3>2. /\ before \in Seq(Layout) /\ Len(before) = (IF 1 <= p - 1 THEN (p - 1) - 1 + 1 ELSE 0)
          /\ \A i \in 1..((p - 1) - 1 + 1) : before[i] = list[1 + i - 1]
      BY <2>1, <3>1, SubSeqProperties
    <3> QED
      BY <2>1, <3>2
  <2>4. /\ after \in Seq(Layout) /\ Len(after) = Len(list) - p
        /\ \A i \in 1..(Len(list) - p) : after[i] = list[p + i]
    <3>2. /\ after \in Seq(Layout) /\ Len(after) = (IF p + 1 <= Len(list) THEN Len(list) - (p + 1) + 1 ELSE 0)
          /\ \A i \in 1..(Len(list) - (p + 1) + 1) : after[i] = list[(p + 1) + i - 1]
      BY <2>1, SubSeqProperties
    <3>3. /\ (p + 1 <= Len(list) => Len(list) - (p + 1) + 1 = Len(list) - p)
          /\ (~(p + 1 <= Len(list)) => Len(list) - p = 0)
          /\ \A i \in 1..(Len(list) - p) : i \in 1..(Len(list) - (p + 1) + 1) /\ (p + 1) + i - 1 = p + i
      BY <2>1, PlacesAfter
    <3> HIDE DEF after
    <3>4. \A i \in 1..(Len(list) - p) : after[i] = list[p + i]
      <4> SUFFICES ASSUME NEW i \in 1..(Len(list) - p) PROVE after[i] = list[p + i]
        OBVIOUS
      <4> QED
        BY <3>2, <3>3, Zenon
    <3> QED
      BY <3>2, <3>3, <3>4, Zenon
  <2> HIDE DEF before, after
  <2>5. /\ before \o after \in Seq(Layout) /\ Len(before \o after) = Len(before) + Len(after)
        /\ DOMAIN (before \o after) = 1..(Len(before) + Len(after))
        /\ \A i \in 1..(Len(before) + Len(after)) :
              (before \o after)[i] = IF i <= Len(before) THEN before[i] ELSE after[i - Len(before)]
    <3>1. /\ before \o after \in Seq(Layout) /\ Len(before \o after) = Len(before) + Len(after)
          /\ \A i \in 1..(Len(before) + Len(after)) :
                (before \o after)[i] = IF i <= Len(before) THEN before[i] ELSE after[i - Len(before)]
      BY <2>3, <2>4, ConcatProperties, Zenon
    <3>2. DOMAIN (before \o after) = 1..Len(before \o after)
      BY <3>1, LenProperties, Zenon
    <3> QED
      BY <3>1, <3>2, Zenon
  <2>6. ASSUME NEW i \in DOMAIN list, list[i].id # id
        PROVE  \E j \in 1..(Len(before) + Len(after)) : (before \o after)[j] = list[i]
    <3>1. CASE i < p
      <4>1. i \in 1..(Len(before) + Len(after)) /\ i <= Len(before) /\ before[i] = list[i]
        BY <2>1, <2>3, <2>4, <3>1
      <4> QED
        BY <2>5, <4>1
    <3>2. CASE i > p
      <4>1. /\ i - 1 \in 1..(Len(before) + Len(after)) /\ ~(i - 1 <= Len(before))
            /\ (i - 1) - Len(before) = i - p /\ after[i - p] = list[i]
        BY <2>1, <2>3, <2>4, <3>2
      <4> QED
        BY <2>5, <4>1
    <3> QED
      BY <2>1, <2>6, <3>1, <3>2
  <2> QED
    BY <2>2, <2>5, <2>6
<1> QED
  BY <1>1, <1>2

\* What is installed from a list is an arrangement that the list has under its name.
LEMMA ResolvedIsClean ==
    ASSUME NEW cameras \in SUBSET Views, NEW list \in Seq(Layout), NEW id, NEW collapsed \in BOOLEAN
    PROVE  /\ ResolveLayout(cameras, list, id, collapsed) \in Arranged
           /\ Clean(ResolveLayout(cameras, list, id, collapsed), list)
<1> DEFINE it == ResolveLayout(cameras, list, id, collapsed)
<1>1. CASE list = <<>>
  <2>1. [c \in cameras |-> Home] \in Arrangements
    BY Homes, ArrangementOf
  <2>2. it = [set |-> TRUE, id |-> Unsaved, items |-> [c \in cameras |-> Home],
              collapsed |-> collapsed, dirty |-> FALSE]
    BY <1>1 DEF ResolveLayout
  <2>3. it \in Arranged
    BY <2>1, <2>2, Identifiers DEF Arranged
  <2> HIDE DEF it
  <2>4. it.id = Unsaved
    BY <2>2
  <2> QED
    BY <1>1, <2>3, <2>4 DEF Clean, it
<1>2. CASE list # <<>>
  <2> DEFINE p == IF Named(list, id) = {} THEN 1 ELSE Place(list, id)
  <2>1. p \in DOMAIN list
    BY <1>2, PlaceFound, LenProperties, EmptySeq
  <2>2. list[p].id \in LayoutIds /\ list[p].items \in Arrangements /\ list[p].collapsed \in BOOLEAN
    BY <2>1, LayoutAt
  <2>3. it = [set |-> TRUE, id |-> list[p].id, items |-> MergeWithCameras(list[p].items, cameras),
              collapsed |-> list[p].collapsed, dirty |-> FALSE]
    BY <1>2 DEF ResolveLayout
  <2> HIDE DEF p
  <2>4. /\ MergeWithCameras(list[p].items, cameras) \in Arrangements
        /\ DOMAIN MergeWithCameras(list[p].items, cameras) = cameras
    BY <2>2, Merged
  <2>5. it \in Arranged
    BY <2>2, <2>3, <2>4 DEF Arranged
  <2> HIDE DEF it
  <2>6. it.id # Unsaved /\ it.id = list[p].id /\ it.collapsed = list[p].collapsed
    BY <2>2, <2>3, Identifiers
  <2>7. it.items = MergeWithCameras(list[p].items, DOMAIN it.items)
    BY <2>3, <2>4
  <2> QED
    BY <2>1, <2>5, <2>6, <2>7 DEF Clean, it
<1> QED
  BY <1>1, <1>2

-----------------------------------------------------------------------------
(* The invariant.                                                          *)

LEMMA LayoutInvInit == LayoutInit => LayoutInv
<1> SUFFICES ASSUME LayoutInit PROVE LayoutInv
  OBVIOUS
<1>1. [c \in Views |-> Home] \in Arrangements /\ \A v \in Views : [c \in {v} |-> Moved] \in Arrangements
  BY Homes, ArrangementOf
<1>2. saved \in Seq(Layout)
  <2>1. CASE saved = <<>>
    BY <2>1
  <2>2. ASSUME NEW v \in Views,
               saved = <<[id |-> 1, items |-> [c \in Views |-> Home], collapsed |-> FALSE],
                         [id |-> 2, items |-> [c \in {v} |-> Moved], collapsed |-> TRUE]>>
        PROVE  saved \in Seq(Layout)
    <3> DEFINE one == [id |-> 1, items |-> [c \in Views |-> Home], collapsed |-> FALSE]
               two == [id |-> 2, items |-> [c \in {v} |-> Moved], collapsed |-> TRUE]
    <3>1. one \in Layout /\ two \in Layout
      BY <1>1, Identifiers DEF Layout
    <3> HIDE DEF one, two
    <3>2. <<one, two>> \in Seq(Layout)
      BY <3>1
    <3> QED
      BY <2>2, <3>2 DEF one, two
  <2> QED
    BY <2>1, <2>2 DEF LayoutInit
<1>3. LayoutTyped
  <2>1. listed \in [ready : BOOLEAN, layouts : Seq(Layout)]
    BY DEF LayoutInit
  <2>2. remembered \in [id : LayoutIds \cup {Unsaved}, collapsed : BOOLEAN]
    BY DEF LayoutInit
  <2>3. rows = {} /\ sent = {} /\ operations = 0 /\ crossed = FALSE /\ shown = NotShown
    BY DEF LayoutInit
  <2>4. operations \in 0..MaxOperations
    BY <2>3, Identifiers
  <2> QED
    BY <1>2, <2>1, <2>2, <2>3, <2>4 DEF LayoutTyped
<1>4. NamesGiven /\ Arrived /\ InStep /\ AnswersFit
  BY DEF NamesGiven, Arrived, InStep, AnswersFit, LayoutInit, NotShown
<1> QED
  BY <1>3, <1>4 DEF LayoutInv

\* The effect that installs the first arrangement: it does so only from a list that arrived.
LEMMA InitialisedIs ==
    ASSUME LayoutInv, NEW cameras \in SUBSET Views, NEW ready \in BOOLEAN, NEW layouts \in Seq(Layout)
    PROVE  LET list == [ready |-> ready, layouts |-> layouts]
           IN \/ Initialised(cameras, list) = shown
              \/ /\ ~shown.set /\ cameras # {} /\ ready
                 /\ Initialised(cameras, list) \in Arranged /\ Clean(Initialised(cameras, list), layouts)
<1> DEFINE list == [ready |-> ready, layouts |-> layouts]
<1>1. CASE InitialiseDue(cameras, list)
  <2>1. Initialised(cameras, list) = ResolveLayout(cameras, layouts, remembered.id, remembered.collapsed)
    BY <1>1 DEF Initialised
  <2>2. remembered.collapsed \in BOOLEAN
    BY DEF LayoutInv, LayoutTyped
  <2>3. ~shown.set /\ cameras # {} /\ ready
    BY <1>1 DEF InitialiseDue
  <2> QED
    BY <2>1, <2>2, <2>3, ResolvedIsClean
<1>2. CASE ~InitialiseDue(cameras, list)
  BY <1>2 DEF Initialised
<1> QED
  BY <1>1, <1>2

LEMMA CamerasArriveKeeps ==
    ASSUME LayoutInv, CamerasArrive
    PROVE  LayoutInv'
<1> USE DEF LayoutInv
<1>1. /\ saved' = saved /\ listed' = listed /\ remembered' = remembered /\ sent' = sent /\ crossed' = crossed
      /\ rows' \in SUBSET Views /\ rows' # {} /\ operations' \in {operations, operations + 1}
      /\ operations' \in 0..MaxOperations /\ shown' = Initialised(rows', listed)
  BY Identifiers DEF CamerasArrive, Bounded, LayoutTyped
<1>2. listed = [ready |-> listed.ready, layouts |-> listed.layouts] /\ listed.ready \in BOOLEAN /\ listed.layouts \in Seq(Layout)
  BY DEF LayoutTyped
<1>3. \/ shown' = shown
      \/ ~shown.set /\ listed.ready /\ shown' \in Arranged /\ Clean(shown', listed.layouts)
  BY <1>1, <1>2, InitialisedIs
<1>4. LayoutTyped'
  BY <1>1, <1>3, LayoutTypes DEF LayoutTyped
<1>5. NamesGiven'
  <2>1. \A r \in sent : r.nth \in Nat
    BY DEF LayoutTyped, Saves, Deletes
  <2> QED
    BY <1>1, <2>1 DEF NamesGiven, LayoutTyped
<1>6. Arrived' /\ (shown' # shown => sent = {})
  BY <1>1, <1>3 DEF Arrived, Arranged
<1>7. InStep'
  BY <1>1, <1>3, <1>6 DEF InStep, Arrived, Clean
<1>8. AnswersFit'
  <2>1. ASSUME shown' = shown, ~crossed, NEW r \in sent PROVE Waits(r)'
    <3>1. Waits(r)
      BY <2>1 DEF AnswersFit
    <3> QED
      BY <1>1, <2>1, <3>1 DEF Waits, Clean
  <2>2. CASE shown' # shown
    BY <1>1, <1>6, <2>2 DEF AnswersFit
  <2> QED
    BY <1>1, <2>1, <2>2 DEF AnswersFit
<1> QED
  BY <1>4, <1>5, <1>6, <1>7, <1>8

LEMMA LayoutsArriveKeeps ==
    ASSUME LayoutInv, LayoutsArrive
    PROVE  LayoutInv'
<1> USE DEF LayoutInv
<1>1. /\ listed' = [ready |-> TRUE, layouts |-> saved] /\ shown' = Initialised(rows, listed')
      /\ UNCHANGED <<saved, rows, remembered, sent, operations, crossed>>
      /\ saved \in Seq(Layout) /\ rows \in SUBSET Views
  BY DEF LayoutsArrive, LayoutTyped
<1>2. \/ shown' = shown
      \/ ~shown.set /\ rows # {} /\ shown' \in Arranged /\ Clean(shown', saved)
  BY <1>1, InitialisedIs
<1>3. listed' \in [ready : BOOLEAN, layouts : Seq(Layout)] /\ listed'.ready /\ listed'.layouts = saved
  BY <1>1
<1>4. LayoutTyped'
  BY <1>1, <1>2, <1>3, LayoutTypes DEF LayoutTyped
<1>5. NamesGiven'
  BY <1>1 DEF NamesGiven
<1>6. Arrived' /\ (shown' # shown => sent = {})
  BY <1>1, <1>2, <1>3 DEF Arrived, Arranged
<1>7. InStep'
  BY <1>1, <1>2, <1>3, <1>6 DEF InStep, Arrived, Clean
<1>8. AnswersFit'
  <2>1. ASSUME shown' = shown, ~crossed, NEW r \in sent PROVE Waits(r)'
    <3>1. Waits(r)
      BY <2>1 DEF AnswersFit
    <3>2. saved' = saved /\ sent' = sent /\ listed'.layouts = saved'
      BY <1>1, <1>3
    <3> QED
      BY <2>1, <3>1, <3>2 DEF Waits, Clean
  <2>2. CASE shown' # shown
    BY <1>1, <1>6, <2>2 DEF AnswersFit
  <2> QED
    BY <1>1, <2>1, <2>2 DEF AnswersFit
<1> QED
  BY <1>4, <1>5, <1>6, <1>7, <1>8

\* What the operator does to the arrangement or to its choice, without a request.
LEMMA OperatesKeeps ==
    ASSUME LayoutInv, Operates, UNCHANGED <<saved, listed, rows, sent>>,
           shown' \in Arranged,
           remembered' \in [id : LayoutIds \cup {Unsaved}, collapsed : BOOLEAN],
           Clean(shown', listed.layouts)
    PROVE  LayoutInv'
<1> USE DEF LayoutInv
<1>1. /\ operations' = operations + 1 /\ operations' \in 0..MaxOperations
      /\ crossed' = (crossed \/ sent # {}) /\ shown.set /\ crossed' \in BOOLEAN
  BY Identifiers DEF Operates, Bounded, LayoutTyped
<1>2. LayoutTyped'
  BY <1>1, LayoutTypes DEF LayoutTyped
<1>3. NamesGiven'
  <2>1. \A r \in sent : r.nth \in Nat
    BY DEF LayoutTyped, Saves, Deletes
  <2> QED
    BY <1>1, <2>1 DEF NamesGiven, LayoutTyped
<1>4. Arrived'
  BY <1>1 DEF Arrived, Arranged
<1>5. InStep'
  BY <1>1 DEF InStep, Arrived, Clean
<1>6. AnswersFit'
  BY <1>1 DEF AnswersFit
<1> QED
  BY <1>2, <1>3, <1>4, <1>5, <1>6

LEMMA ShownIs ==
    ASSUME LayoutInv, shown.set
    PROVE  /\ shown \in Arranged /\ shown.id \in LayoutIds \cup {Unsaved} /\ shown.items \in Arrangements
           /\ shown.collapsed \in BOOLEAN /\ shown.dirty \in BOOLEAN
<1>1. shown \in Arranged
  BY DEF LayoutInv, LayoutTyped, NotShown
<1> QED
  BY <1>1 DEF Arranged

\* An edit: the arrangement is marked as edited.
LEMMA EditKeeps ==
    ASSUME LayoutInv, Operates, UNCHANGED <<saved, listed, rows, sent>>,
           NEW items \in Arrangements, NEW collapsed \in BOOLEAN,
           shown' = [shown EXCEPT !.items = items, !.collapsed = collapsed, !.dirty = TRUE],
           remembered' \in [id : LayoutIds \cup {Unsaved}, collapsed : BOOLEAN]
    PROVE  LayoutInv'
<1>1. shown.set /\ shown \in Arranged
  BY ShownIs DEF Operates
<1>2. shown' \in Arranged /\ shown'.dirty
  BY <1>1 DEF Arranged
<1>3. Clean(shown', listed.layouts)
  BY <1>2 DEF Clean
<1> QED
  BY <1>2, <1>3, OperatesKeeps

LEMMA EditOfTileKeeps ==
    ASSUME LayoutInv, Operates, UNCHANGED <<saved, listed, rows, remembered, sent>>,
           NEW c \in DOMAIN shown.items, NEW v \in Item,
           shown' = [shown EXCEPT !.items[c] = v, !.dirty = TRUE]
    PROVE  LayoutInv'
<1>1. shown.set /\ shown \in Arranged /\ shown.items \in Arrangements /\ shown.collapsed \in BOOLEAN
  BY ShownIs DEF Operates
<1>2. [shown.items EXCEPT ![c] = v] \in Arrangements
  BY <1>1, Rearranged
<1>3. shown' = [shown EXCEPT !.items = [shown.items EXCEPT ![c] = v], !.collapsed = shown.collapsed, !.dirty = TRUE]
  BY <1>1 DEF Arranged
<1>4. remembered' \in [id : LayoutIds \cup {Unsaved}, collapsed : BOOLEAN]
  BY DEF LayoutInv, LayoutTyped
<1> QED
  BY <1>1, <1>2, <1>3, <1>4, EditKeeps

LEMMA ItemOf ==
    ASSUME LayoutInv, shown.set, NEW c \in DOMAIN shown.items, NEW b \in BOOLEAN
    PROVE  /\ [shown.items[c] EXCEPT !.moved = b] \in Item
           /\ [shown.items[c] EXCEPT !.zoom = b] \in Item
<1>1. shown.items[c] \in Item
  BY ShownIs, ArrangementIs
<1> QED
  BY <1>1 DEF Item

LEMMA EditsKeep ==
    ASSUME LayoutInv, NEW c \in DOMAIN shown.items
    PROVE  /\ HandleLayoutChange(c) => LayoutInv'
           /\ \A enlarged \in BOOLEAN : HandleVideoViewportChange(c, enlarged) => LayoutInv'
<1>1. ASSUME HandleLayoutChange(c) PROVE LayoutInv'
  <2>1. Operates /\ shown.set /\ UNCHANGED <<saved, listed, rows, remembered, sent>>
    BY <1>1 DEF HandleLayoutChange, Operates
  <2>2. [shown.items[c] EXCEPT !.moved = TRUE] \in Item
    BY <2>1, ItemOf
  <2>3. shown' = [shown EXCEPT !.items[c] = [shown.items[c] EXCEPT !.moved = TRUE], !.dirty = TRUE]
    BY <1>1 DEF HandleLayoutChange
  <2> QED
    BY <2>1, <2>2, <2>3, EditOfTileKeeps
<1>2. ASSUME NEW enlarged \in BOOLEAN, HandleVideoViewportChange(c, enlarged) PROVE LayoutInv'
  <2>1. Operates /\ shown.set /\ UNCHANGED <<saved, listed, rows, remembered, sent>>
    BY <1>2 DEF HandleVideoViewportChange, Operates
  <2>2. [shown.items[c] EXCEPT !.zoom = enlarged] \in Item
    BY <2>1, ItemOf
  <2>3. shown' = [shown EXCEPT !.items[c] = [shown.items[c] EXCEPT !.zoom = enlarged], !.dirty = TRUE]
    BY <1>2 DEF HandleVideoViewportChange
  <2> QED
    BY <2>1, <2>2, <2>3, EditOfTileKeeps
<1> QED
  BY <1>1, <1>2

LEMMA ToggleKeeps ==
    ASSUME LayoutInv, ToggleTimeline
    PROVE  LayoutInv'
<1>1. Operates /\ shown.set /\ UNCHANGED <<saved, listed, rows, sent>>
  BY DEF ToggleTimeline, Operates
<1>2. shown \in Arranged /\ shown.items \in Arrangements /\ (~shown.collapsed) \in BOOLEAN
  BY <1>1, ShownIs
<1>3. shown' = [shown EXCEPT !.items = shown.items, !.collapsed = ~shown.collapsed, !.dirty = TRUE]
  BY <1>2 DEF ToggleTimeline, Arranged
<1>4. remembered' \in [id : LayoutIds \cup {Unsaved}, collapsed : BOOLEAN]
  BY <1>2 DEF ToggleTimeline, LayoutInv, LayoutTyped
<1> QED
  BY <1>1, <1>2, <1>3, <1>4, EditKeeps

LEMMA LoadLayoutKeeps ==
    ASSUME LayoutInv, NEW id \in LayoutIds, LoadLayout(id)
    PROVE  LayoutInv'
<1>1. /\ Operates /\ UNCHANGED <<saved, listed, rows, sent>>
      /\ shown' = ResolveLayout(rows, listed.layouts, id, FALSE)
      /\ remembered' = [remembered EXCEPT !.id = id]
  BY DEF LoadLayout
<1>2. rows \in SUBSET Views /\ listed.layouts \in Seq(Layout) /\ FALSE \in BOOLEAN
  BY DEF LayoutInv, LayoutTyped
<1>3. shown' \in Arranged /\ Clean(shown', listed.layouts)
  BY <1>1, <1>2, ResolvedIsClean
<1>4. remembered' \in [id : LayoutIds \cup {Unsaved}, collapsed : BOOLEAN]
  BY <1>1 DEF LayoutInv, LayoutTyped
<1> QED
  BY <1>1, <1>3, <1>4, OperatesKeeps

-----------------------------------------------------------------------------
(* The requests of the operator, and their answers.                        *)

LEMMA AsksKeeps ==
    ASSUME LayoutInv, NEW question \in Saves \cup Deletes, Asks(question),
           question.at = "sent", question.nth = operations,
           question.kind = "update" => question.id # Unsaved,
           question.kind # "delete" => question.items = shown.items /\ question.collapsed = shown.collapsed,
           question.kind = "delete" =>
              question.current = shown.id /\ question.layouts = listed.layouts /\ question.cameras = rows
    PROVE  LayoutInv'
<1> USE DEF LayoutInv
<1>1. /\ operations' = operations + 1 /\ operations' \in 0..MaxOperations /\ operations < operations'
      /\ crossed' = (crossed \/ sent # {}) /\ shown.set /\ crossed' \in BOOLEAN
      /\ sent' = sent \cup {question} /\ UNCHANGED <<saved, listed, rows, shown, remembered>>
  BY Identifiers DEF Asks, Operates, Bounded, LayoutTyped
<1>2. LayoutTyped'
  BY <1>1, LayoutTypes DEF LayoutTyped
<1>3. NamesGiven'
  <2>1. \A r \in sent : r.nth \in Nat
    BY DEF LayoutTyped, Saves, Deletes
  <2>2. \A r \in sent : r.nth < operations'
    BY <1>1, <2>1 DEF NamesGiven, LayoutTyped
  <2> QED
    BY <1>1, <2>2 DEF NamesGiven
<1>4. Arrived'
  BY <1>1 DEF Arrived
<1>5. InStep'
  BY <1>1 DEF InStep
<1>6. AnswersFit'
  <2> SUFFICES ASSUME ~crossed', NEW r \in sent' PROVE Waits(r)'
    BY DEF AnswersFit
  <2>1. sent = {} /\ ~crossed /\ sent' = {question} /\ r = question
    BY <1>1
  <2>2. listed.layouts = saved /\ Clean(shown, saved) /\ rows # {}
    BY <1>1, <2>1 DEF InStep, Arrived
  <2> QED
    BY <1>1, <2>1, <2>2 DEF Waits, Clean
<1> QED
  BY <1>2, <1>3, <1>4, <1>5, <1>6

LEMMA SavingIs ==
    ASSUME LayoutInv, Operates, NEW kind \in {"update", "create"}, NEW id \in LayoutIds \cup {Unsaved}
    PROVE  /\ Saving(kind, id) \in Saves /\ Saving(kind, id).kind = kind /\ Saving(kind, id).id = id
           /\ Saving(kind, id).at = "sent" /\ Saving(kind, id).nth = operations
           /\ Saving(kind, id).items = shown.items /\ Saving(kind, id).collapsed = shown.collapsed
<1>1. shown.items \in Arrangements /\ shown.collapsed \in BOOLEAN /\ operations \in 0..MaxOperations
  BY ShownIs DEF Operates, LayoutInv, LayoutTyped
<1> QED
  BY <1>1 DEF Saving, Saves

LEMMA SavesKeep ==
    ASSUME LayoutInv
    PROVE  /\ SaveCurrentLayout => LayoutInv'
           /\ SaveAsLayout => LayoutInv'
<1>1. ASSUME NEW kind \in {"update", "create"}, NEW id \in LayoutIds \cup {Unsaved},
             kind = "update" => id # Unsaved, Asks(Saving(kind, id))
      PROVE  LayoutInv'
  <2>1. Operates
    BY <1>1 DEF Asks
  <2> QED
    BY <1>1, <2>1, SavingIs, AsksKeeps
<1>2. ASSUME SaveCurrentLayout PROVE LayoutInv'
  <2>1. shown.id \in LayoutIds \cup {Unsaved}
    BY <1>2, ShownIs DEF SaveCurrentLayout, Asks, Operates
  <2>2. CASE shown.id = Unsaved
    BY <1>1, <1>2, <2>2 DEF SaveCurrentLayout
  <2>3. CASE shown.id # Unsaved
    BY <1>1, <1>2, <2>1, <2>3 DEF SaveCurrentLayout
  <2> QED
    BY <2>2, <2>3
<1>3. ASSUME SaveAsLayout PROVE LayoutInv'
  BY <1>1, <1>3 DEF SaveAsLayout
<1> QED
  BY <1>2, <1>3

LEMMA DeleteKeeps ==
    ASSUME LayoutInv, NEW id \in LayoutIds, DeleteSavedLayout(id)
    PROVE  LayoutInv'
<1>1. Asks(Deleting(id)) /\ shown.set
  BY DEF DeleteSavedLayout, Asks, Operates
<1>2. /\ shown.id \in LayoutIds \cup {Unsaved} /\ listed.layouts \in Seq(Layout) /\ rows \in SUBSET Views
      /\ operations \in 0..MaxOperations
  BY <1>1, ShownIs DEF LayoutInv, LayoutTyped
<1>3. /\ Deleting(id) \in Deletes /\ Deleting(id).kind = "delete" /\ Deleting(id).at = "sent"
      /\ Deleting(id).nth = operations /\ Deleting(id).current = shown.id
      /\ Deleting(id).layouts = listed.layouts /\ Deleting(id).cameras = rows
  BY <1>2 DEF Deleting, Deletes
<1> QED
  BY <1>1, <1>3, AsksKeeps

\* What the server makes of a request.
Told(r, id, at) == [r EXCEPT !.at = at, !.id = id]

LEMMA AnsweredIs ==
    ASSUME LayoutInv, NEW r \in sent, NEW id \in LayoutIds \cup {Unsaved}, NEW at \in {"done", "refused"},
           r.kind = "delete" => id = r.id
    PROVE  /\ Told(r, id, at) \in Saves \cup Deletes /\ Told(r, id, at).kind = r.kind
           /\ Told(r, id, at).at = at /\ Told(r, id, at).id = id /\ Told(r, id, at).nth = r.nth
           /\ r.kind # "delete" =>
                 Told(r, id, at).items = r.items /\ Told(r, id, at).collapsed = r.collapsed
           /\ r.kind = "delete" =>
                 /\ Told(r, id, at).current = r.current /\ Told(r, id, at).layouts = r.layouts
                 /\ Told(r, id, at).cameras = r.cameras
<1>1. r \in Saves \/ r \in Deletes
  BY DEF LayoutInv, LayoutTyped
<1>2. CASE r \in Saves
  BY <1>2 DEF Saves, Told
<1>3. CASE r \in Deletes
  BY <1>3 DEF Deletes, Told
<1> QED
  BY <1>1, <1>2, <1>3

LEMMA RequestIs ==
    ASSUME LayoutInv, NEW r \in sent
    PROVE  /\ r.nth \in 0..MaxOperations /\ r.id \in LayoutIds \cup {Unsaved}
           /\ r.kind \in {"update", "create", "delete"} /\ r.at \in {"sent", "done", "refused"}
           /\ r.kind # "delete" => r.items \in Arrangements /\ r.collapsed \in BOOLEAN
           /\ r.kind = "delete" =>
                 /\ r.id \in LayoutIds /\ r.layouts \in Seq(Layout) /\ r.cameras \in SUBSET Views
           /\ shown.set /\ listed.ready /\ rows # {}
           /\ r.nth < operations
<1>1. r \in Saves \/ r \in Deletes
  BY DEF LayoutInv, LayoutTyped
<1>2. CASE r \in Saves
  BY <1>2 DEF Saves, LayoutInv, Arrived, NamesGiven
<1>3. CASE r \in Deletes
  BY <1>3 DEF Deletes, LayoutInv, Arrived, NamesGiven
<1> QED
  BY <1>1, <1>2, <1>3

\* An answer that keeps the invariant: all it takes is that it fits, if the operator waits.
LEMMA AnswerKeeps ==
    ASSUME LayoutInv, NEW r \in sent, NEW id \in LayoutIds \cup {Unsaved}, NEW at \in {"done", "refused"},
           r.kind = "delete" => id = r.id,
           r.kind = "update" \/ (r.kind = "create" /\ at = "done") => id # Unsaved,
           Answer(r, id, at), saved' \in Seq(Layout),
           UNCHANGED <<listed, rows, shown, remembered, operations, crossed>>,
           ~crossed /\ Waits(r) /\ sent' = {Told(r, id, at)}
              => Waits(Told(r, id, at))'
    PROVE  LayoutInv'
<1> DEFINE it == Told(r, id, at)
<1>1. /\ it \in Saves \cup Deletes /\ it.kind = r.kind /\ it.at = at /\ it.id = id /\ it.nth = r.nth
  BY AnsweredIs
<1>2. sent' = (sent \ {r}) \cup {it} /\ crossed' = crossed
  BY DEF Answer, Told
<1>3. ~crossed => Waits(r) /\ sent = {r}
  BY DEF LayoutInv, AnswersFit, Waits
<1>4. ~crossed => Waits(it)' /\ sent' = {it}
  BY <1>2, <1>3
<1> HIDE DEF it
<1>5. LayoutTyped'
  BY <1>1, <1>2, LayoutTypes DEF LayoutInv, LayoutTyped
<1>6. NamesGiven'
  BY <1>1, <1>2 DEF NamesGiven, LayoutInv
<1>7. Arrived'
  BY <1>2 DEF Arrived, LayoutInv
<1>8. InStep' /\ AnswersFit'
  BY <1>2, <1>4 DEF InStep, AnswersFit
<1> QED
  BY <1>5, <1>6, <1>7, <1>8 DEF LayoutInv

LEMMA NewIdIs ==
    ASSUME LayoutInv, NEW r \in sent
    PROVE  NewId(r) \in LayoutIds
<1>1. r.nth \in Nat /\ operations \in 0..MaxOperations /\ r.nth < operations /\ MaxOperations \in Nat
  BY RequestIs, Identifiers DEF LayoutInv, LayoutTyped
<1>2. r.nth + 3 \in 1..(MaxOperations + 2)
  BY <1>1
<1> QED
  BY <1>2 DEF NewId, LayoutIds

\* A saved layout becomes the newest.
LEMMA StoredIs ==
    ASSUME LayoutInv, NEW r \in sent, r.kind # "delete", NEW id \in LayoutIds
    PROVE  /\ Stored(r, id) \in Seq(Layout) /\ Stored(r, id) # <<>>
           /\ Stored(r, id)[1] = [id |-> id, items |-> r.items, collapsed |-> r.collapsed]
<1> DEFINE new == [id |-> id, items |-> r.items, collapsed |-> r.collapsed]
           rest == Others(saved, id)
<1>1. new \in Layout
  BY RequestIs DEF Layout
<1>2. rest \in Seq(Layout)
  BY OthersRemain DEF LayoutInv, LayoutTyped
<1>3. Stored(r, id) = <<new>> \o rest
  BY DEF Stored
<1> HIDE DEF new, rest
<1>4. <<new>> \in Seq(Layout) /\ Len(<<new>>) = 1 /\ <<new>>[1] = new
  BY <1>1
<1>5. Len(rest) \in Nat
  BY <1>2, LenProperties
<1>6. /\ <<new>> \o rest \in Seq(Layout) /\ Len(<<new>> \o rest) = 1 + Len(rest)
      /\ (<<new>> \o rest)[1] = new
  <2>1. 1 \in 1..(Len(<<new>>) + Len(rest)) /\ 1 <= Len(<<new>>)
    BY <1>4, <1>5
  <2>2. /\ <<new>> \o rest \in Seq(Layout) /\ Len(<<new>> \o rest) = Len(<<new>>) + Len(rest)
        /\ \A i \in 1..(Len(<<new>>) + Len(rest)) :
              (<<new>> \o rest)[i] = IF i <= Len(<<new>>) THEN <<new>>[i] ELSE rest[i - Len(<<new>>)]
    BY <1>2, <1>4, ConcatProperties, Zenon
  <2> QED
    BY <1>4, <2>1, <2>2
<1>7. <<new>> \o rest # <<>>
  BY <1>5, <1>6, EmptySeq
<1> QED
  BY <1>3, <1>6, <1>7 DEF new

LEMMA ServerSavesKeeps ==
    ASSUME LayoutInv, NEW r \in sent, ServerSaves(r)
    PROVE  LayoutInv'
<1>1. r.at = "sent" /\ UNCHANGED <<listed, rows, shown, remembered, operations, crossed>>
  BY DEF ServerSaves
<1>2. ASSUME NEW id \in LayoutIds, r.kind # "delete", saved' = Stored(r, id), Answer(r, id, "done")
      PROVE  LayoutInv'
  <2> DEFINE it == Told(r, id, "done")
  <2>1. id \in LayoutIds \cup {Unsaved} /\ id # Unsaved
    BY Identifiers
  <2>2. /\ it.kind = r.kind /\ it.at = "done" /\ it.id = id
        /\ it.items = r.items /\ it.collapsed = r.collapsed
    BY <1>2, <2>1, AnsweredIs
  <2>3. /\ saved' \in Seq(Layout) /\ saved' # <<>>
        /\ saved'[1] = [id |-> id, items |-> r.items, collapsed |-> r.collapsed]
    BY <1>2, StoredIs
  <2>4. ASSUME Waits(r), sent' = {it} PROVE Waits(it)'
    <3> HIDE DEF it
    <3>1. it.kind # "delete" /\ it.at = "done" /\ shown' = shown
      BY <1>1, <1>2, <2>2
    <3>2. it.items = shown'.items /\ it.collapsed = shown'.collapsed
      BY <1>2, <2>2, <2>4, <3>1 DEF Waits
    <3>3. saved'[1] = [id |-> it.id, items |-> it.items, collapsed |-> it.collapsed]
      BY <2>2, <2>3
    <3> QED
      BY <2>3, <2>4, <3>1, <3>2, <3>3 DEF Waits
  <2> HIDE DEF it
  <2> QED
    BY <1>1, <1>2, <2>1, <2>3, <2>4, AnswerKeeps DEF it
<1>3. ASSUME r.kind = "update", Named(saved, r.id) # {}, saved' = Stored(r, r.id), Answer(r, r.id, "done")
      PROVE  LayoutInv'
  <2>1. r.id \in LayoutIds
    BY <1>3, RequestIs DEF LayoutInv, NamesGiven
  <2> QED
    BY <1>2, <1>3, <2>1
<1>4. ASSUME r.kind = "create", saved' = Stored(r, NewId(r)), Answer(r, NewId(r), "done")
      PROVE  LayoutInv'
  BY <1>2, <1>4, NewIdIs
<1>5. ASSUME r.kind = "delete", Named(saved, r.id) # {}, saved' = Others(saved, r.id), Answer(r, r.id, "done")
      PROVE  LayoutInv'
  <2> DEFINE it == Told(r, r.id, "done")
  <2>1. /\ it.kind = "delete" /\ it.at = "done" /\ it.id = r.id /\ r.id \in LayoutIds \cup {Unsaved}
        /\ it.current = r.current /\ it.layouts = r.layouts /\ it.cameras = r.cameras
    BY <1>5, RequestIs, AnsweredIs
  <2>2. saved \in Seq(Layout) /\ saved' \in Seq(Layout)
    BY <1>5, OthersRemain DEF LayoutInv, LayoutTyped
  <2>3. ASSUME Waits(r), sent' = {it} PROVE Waits(it)'
    <3> HIDE DEF it
    <3>1. /\ listed.layouts = saved /\ Clean(shown, saved) /\ r.layouts = saved
          /\ r.current = shown.id /\ r.cameras # {}
      BY <1>1, <1>5, <2>3 DEF Waits
    <3>2. saved' = Others(it.layouts, it.id)
      BY <1>5, <2>1, <3>1
    <3>3. ASSUME it.id # it.current PROVE Clean(shown, saved')
      <4>1. CASE shown.dirty
        BY <4>1 DEF Clean
      <4>2. CASE ~shown.dirty /\ shown.id = Unsaved
        <5>1. saved = <<>>
          BY <3>1, <4>2 DEF Clean
        <5>2. Named(saved, r.id) = {}
          BY <5>1 DEF Named
        <5> QED
          BY <1>5, <5>2
      <4>3. CASE ~shown.dirty /\ shown.id # Unsaved
        <5>1. PICK i \in DOMAIN saved :
                /\ saved[i].id = shown.id /\ saved[i].collapsed = shown.collapsed
                /\ shown.items = MergeWithCameras(saved[i].items, DOMAIN shown.items)
          BY <3>1, <4>3 DEF Clean
        <5>2. saved[i].id # r.id
          BY <2>1, <3>1, <3>3, <5>1
        <5>3. \E j \in DOMAIN saved' : saved'[j] = saved[i]
          BY <1>5, <2>2, <5>2, OthersRemain
        <5> QED
          BY <4>3, <5>1, <5>3 DEF Clean
      <4> QED
        BY <4>1, <4>2, <4>3
    <3>4. shown' = shown /\ saved' = saved'
      BY <1>1
    <3>5. it.id # it.current => Clean(shown, saved)'
      BY <3>3, <3>4 DEF Clean
    <3> QED
      BY <2>1, <2>3, <3>1, <3>2, <3>4, <3>5 DEF Waits
  <2> HIDE DEF it
  <2> QED
    BY <1>1, <1>5, <2>1, <2>2, <2>3, AnswerKeeps DEF it
<1> QED
  BY <1>3, <1>4, <1>5 DEF ServerSaves

LEMMA ServerRefusesKeeps ==
    ASSUME LayoutInv, NEW r \in sent, ServerRefuses(r)
    PROVE  LayoutInv'
<1> DEFINE it == Told(r, r.id, "refused")
<1>1. /\ r.at = "sent" /\ UNCHANGED <<saved, listed, rows, shown, remembered, operations, crossed>>
      /\ Answer(r, r.id, "refused")
  BY DEF ServerRefuses
<1>2. /\ r.id \in LayoutIds \cup {Unsaved} /\ saved' \in Seq(Layout) /\ (r.kind = "update" => r.id # Unsaved)
  BY <1>1, RequestIs DEF LayoutInv, LayoutTyped, NamesGiven
<1>3. /\ it.kind = r.kind /\ it.at = "refused"
      /\ r.kind # "delete" => it.items = r.items /\ it.collapsed = r.collapsed
      /\ r.kind = "delete" => it.current = r.current /\ it.layouts = r.layouts /\ it.cameras = r.cameras
  BY <1>2, AnsweredIs
<1>4. ASSUME Waits(r), sent' = {it} PROVE Waits(it)'
  <2> HIDE DEF it
  <2> QED
    BY <1>1, <1>3, <1>4 DEF Waits, Clean
<1> HIDE DEF it
<1> QED
  BY <1>1, <1>2, <1>4, AnswerKeeps DEF it

LEMMA ReturnsRefusedKeeps ==
    ASSUME LayoutInv, NEW r \in sent, ReturnsRefused(r)
    PROVE  LayoutInv'
<1> USE DEF LayoutInv
<1>1. /\ r.at = "refused" /\ UNCHANGED <<saved, listed, rows, shown, remembered, operations, crossed>>
      /\ sent' = sent \ {r}
  BY DEF ReturnsRefused
<1>2. LayoutTyped'
  BY <1>1, LayoutTypes DEF LayoutTyped
<1>3. NamesGiven' /\ Arrived'
  BY <1>1 DEF NamesGiven, Arrived
<1>4. ~crossed => sent' = {} /\ listed.layouts = saved /\ Clean(shown, saved)
  BY <1>1 DEF AnswersFit, Waits
<1>5. InStep'
  BY <1>1, <1>4 DEF InStep, Clean
<1>6. AnswersFit'
  BY <1>1, <1>4 DEF AnswersFit
<1> QED
  BY <1>2, <1>3, <1>5, <1>6

\* The continuation of a request that succeeded leaves an arrangement, clean if the list arrives.
LEMMA ContinuesClean ==
    ASSUME LayoutInv, NEW r \in sent, r.at = "done", saved' = saved,
           IF r.kind = "delete" THEN DeleteReturns(r) ELSE SaveReturns(r)
    PROVE  /\ shown' \in Arranged
           /\ remembered' \in [id : LayoutIds \cup {Unsaved}, collapsed : BOOLEAN]
           /\ ~crossed => Clean(shown', saved)
<1>1. /\ shown \in Arranged /\ shown.items \in Arrangements /\ shown.collapsed \in BOOLEAN
      /\ remembered \in [id : LayoutIds \cup {Unsaved}, collapsed : BOOLEAN]
      /\ saved \in Seq(Layout) /\ r.id \in LayoutIds \cup {Unsaved}
  BY RequestIs, ShownIs DEF LayoutInv, LayoutTyped
<1>2. ~crossed => Waits(r)
  BY DEF LayoutInv, AnswersFit
<1>3. CASE r.kind # "delete"
  <2>1. /\ shown' = [shown EXCEPT !.id = r.id, !.dirty = FALSE]
        /\ remembered' = [remembered EXCEPT !.id = r.id]
    BY <1>3 DEF SaveReturns
  <2>2. /\ shown' \in Arranged /\ shown'.id = r.id /\ shown'.items = shown.items
        /\ shown'.collapsed = shown.collapsed
    BY <1>1, <2>1 DEF Arranged
  <2>3. remembered' \in [id : LayoutIds \cup {Unsaved}, collapsed : BOOLEAN]
    BY <1>1, <2>1
  <2>4. ASSUME ~crossed PROVE Clean(shown', saved)
    <3>1. /\ saved # <<>> /\ saved[1] = [id |-> r.id, items |-> r.items, collapsed |-> r.collapsed]
          /\ r.items = shown.items /\ r.collapsed = shown.collapsed
      BY <1>2, <1>3, <2>4 DEF Waits
    <3>2. 1 \in DOMAIN saved
      BY <1>1, <3>1, LenProperties, EmptySeq
    <3>3. r.id # Unsaved
      BY <1>3, RequestIs DEF LayoutInv, NamesGiven
    <3>4. shown.items = MergeWithCameras(saved[1].items, DOMAIN shown.items)
      <4>1. saved[1].items = shown.items
        BY <3>1
      <4>2. MergeWithCameras(shown.items, DOMAIN shown.items) = shown.items
        BY <1>1, ArrangementIs, Merged
      <4> QED
        BY <4>1, <4>2
    <3>5. saved[1].id = shown'.id /\ saved[1].collapsed = shown'.collapsed
      BY <2>2, <3>1
    <3> QED
      BY <2>2, <3>2, <3>3, <3>4, <3>5 DEF Clean
  <2> QED
    BY <2>2, <2>3, <2>4
<1>4. CASE r.kind = "delete" /\ (r.id # r.current \/ r.cameras = {})
  <2>1. shown' = shown /\ remembered' = remembered
    BY <1>4 DEF DeleteReturns
  <2>2. ~crossed => Clean(shown, saved)
    BY <1>2, <1>4 DEF Waits
  <2> QED
    BY <1>1, <2>1, <2>2
<1>5. CASE r.kind = "delete" /\ ~(r.id # r.current \/ r.cameras = {})
  <2>1. /\ shown' = ResolveLayout(r.cameras, Others(r.layouts, r.id), Unsaved, shown.collapsed)
        /\ remembered' = [remembered EXCEPT !.id = shown'.id]
    BY <1>5 DEF DeleteReturns, AfterDelete
  <2>2. r.cameras \in SUBSET Views /\ Others(r.layouts, r.id) \in Seq(Layout)
    BY <1>5, RequestIs, OthersRemain
  <2>3. shown' \in Arranged /\ Clean(shown', Others(r.layouts, r.id))
    BY <1>1, <2>1, <2>2, ResolvedIsClean
  <2>4. remembered' \in [id : LayoutIds \cup {Unsaved}, collapsed : BOOLEAN]
    BY <1>1, <2>1, <2>3 DEF Arranged
  <2>5. ~crossed => saved = Others(r.layouts, r.id)
    BY <1>2, <1>5 DEF Waits
  <2> QED
    BY <2>3, <2>4, <2>5
<1> QED
  BY <1>3, <1>4, <1>5

LEMMA ReturnsKeeps ==
    ASSUME LayoutInv, NEW r \in sent, Returns(r)
    PROVE  LayoutInv'
<1>1. /\ r.at = "done" /\ UNCHANGED <<saved, rows, operations>> /\ sent' = sent \ {r}
      /\ \/ listed' = [ready |-> TRUE, layouts |-> saved] /\ crossed' = crossed
         \/ listed' = listed /\ crossed' = TRUE
  BY DEF Returns
<1>2. IF r.kind = "delete" THEN DeleteReturns(r) ELSE SaveReturns(r)
  BY DEF Returns
<1>3. /\ shown' \in Arranged
      /\ remembered' \in [id : LayoutIds \cup {Unsaved}, collapsed : BOOLEAN]
      /\ ~crossed => Clean(shown', saved)
  BY <1>1, <1>2, ContinuesClean
<1>4. /\ listed' \in [ready : BOOLEAN, layouts : Seq(Layout)] /\ listed'.ready /\ rows # {}
      /\ crossed' \in BOOLEAN
  <2>1. /\ listed \in [ready : BOOLEAN, layouts : Seq(Layout)] /\ listed.ready /\ rows # {}
        /\ saved \in Seq(Layout) /\ crossed \in BOOLEAN
    BY RequestIs DEF LayoutInv, LayoutTyped
  <2>2. [ready |-> TRUE, layouts |-> saved] \in [ready : BOOLEAN, layouts : Seq(Layout)]
    BY <2>1
  <2> QED
    BY <1>1, <2>1, <2>2
<1>5. LayoutTyped'
  BY <1>1, <1>3, <1>4, LayoutTypes DEF LayoutInv, LayoutTyped
<1>6. NamesGiven'
  BY <1>1 DEF LayoutInv, NamesGiven
<1>7. Arrived'
  BY <1>1, <1>3, <1>4 DEF Arrived, Arranged
<1>8. ~crossed' => ~crossed /\ sent' = {} /\ listed'.layouts = saved
  <2>1. ~crossed => sent = {r}
    BY DEF LayoutInv, AnswersFit, Waits
  <2> QED
    BY <1>1, <2>1
<1>9. InStep'
  BY <1>1, <1>3, <1>8 DEF InStep, Clean
<1>10. AnswersFit'
  BY <1>8 DEF AnswersFit
<1> QED
  BY <1>5, <1>6, <1>7, <1>9, <1>10 DEF LayoutInv

LEMMA ReloadPageKeeps ==
    ASSUME LayoutInv, ReloadPage
    PROVE  LayoutInv'
<1>1. /\ listed' = [ready |-> FALSE, layouts |-> <<>>] /\ rows' = {} /\ shown' = NotShown
      /\ sent' = {} /\ crossed' = FALSE /\ UNCHANGED <<saved, remembered>>
      /\ operations' \in 0..MaxOperations
  BY Identifiers DEF ReloadPage, Bounded, LayoutInv, LayoutTyped
<1>2. listed' \in [ready : BOOLEAN, layouts : Seq(Layout)] /\ ~listed'.ready
  BY <1>1
<1>3. LayoutTyped'
  BY <1>1, <1>2, LayoutTypes DEF LayoutInv, LayoutTyped
<1>4. NamesGiven' /\ Arrived' /\ InStep' /\ AnswersFit'
  BY <1>1, <1>2 DEF NamesGiven, Arrived, InStep, AnswersFit, NotShown
<1> QED
  BY <1>3, <1>4 DEF LayoutInv

\* Every step of the page, of the operator and of the server keeps the invariant.
LEMMA LayoutInvNext == LayoutInv /\ [LayoutNext]_layoutVars => LayoutInv'
<1> SUFFICES ASSUME LayoutInv, [LayoutNext]_layoutVars PROVE LayoutInv'
  OBVIOUS
<1>1. CASE UNCHANGED layoutVars
  BY <1>1 DEF layoutVars, LayoutInv, LayoutTyped, NamesGiven, Arrived, InStep, AnswersFit, Waits, Clean
<1>2. CASE LayoutNext
  <2>1. ASSUME NEW c \in DOMAIN shown.items,
               HandleLayoutChange(c) \/ HandleWheel(c) \/ HandleDrag(c) \/ HandleDoubleClick(c)
        PROVE  LayoutInv'
    BY <2>1, EditsKeep DEF HandleWheel, HandleDrag, HandleDoubleClick
  <2>2. ASSUME NEW id \in LayoutIds, LoadLayout(id) \/ DeleteSavedLayout(id) PROVE LayoutInv'
    BY <2>2, LoadLayoutKeeps, DeleteKeeps
  <2>3. ASSUME NEW r \in sent, ServerSaves(r) \/ ServerRefuses(r) \/ Returns(r) \/ ReturnsRefused(r)
        PROVE  LayoutInv'
    BY <2>3, ServerSavesKeeps, ServerRefusesKeeps, ReturnsKeeps, ReturnsRefusedKeeps
  <2> QED
    BY <1>2, <2>1, <2>2, <2>3, CamerasArriveKeeps, LayoutsArriveKeeps, ReloadPageKeeps,
       ToggleKeeps, SavesKeep DEF LayoutNext
<1> QED
  BY <1>1, <1>2

\* The page and the server stay in step while the operator waits for each request: the list is the
\* table's, an unmarked arrangement is the one saved under its name, and an answer is about what is
\* shown (the handlers of LiveWorkspace.tsx and the layout handlers of the server).
THEOREM LayoutsInvariant == LayoutSpec => []LayoutInv
<1> QED
  BY LayoutInvInit, LayoutInvNext, PTL DEF LayoutSpec

\* An arrangement that carries no mark of an edit is what the server holds under its name, and the
\* default one is shown only where nothing is saved, for any cameras and any number of operations,
\* as long as the operator waits for each request (LiveWorkspace.tsx, liveLayoutState.ts).
THEOREM WhatIsShownCleanIsSaved == LayoutSpec => [](LayoutTypeOK /\ CleanMeansSaved)
<1>1. LayoutInv => CleanMeansSaved
  BY DEF LayoutInv, InStep, Arrived, Clean, CleanMeansSaved
<1>2. LayoutInv => LayoutTypeOK
  BY DEF LayoutInv, LayoutTyped, LayoutTypeOK, Arranged, Saves, Deletes
<1> QED
  BY <1>1, <1>2, LayoutsInvariant, PTL
===============================================================================
