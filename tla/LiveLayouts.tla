------------------------------ MODULE LiveLayouts ------------------------------
(******************************************************************************)
(* The camera arrangement of the live page (LiveWorkspace.tsx and             *)
(* liveLayoutState.ts): where it comes from, how the operator edits, saves,   *)
(* loads and deletes it, and the copy of the saved layouts the page keeps in  *)
(* its query cache.  A request awaits its answer and then a new list, and     *)
(* its continuation works with what the page held when it was made.           *)
(******************************************************************************)
EXTENDS Naturals, Sequences

CONSTANTS
    Views,        \* the cameras there may be
    MaxOperations \* bound: what the operator does, and changes of the cameras

Unsaved == 0      \* currentId when no saved layout is shown
LayoutIds == 1..(MaxOperations + 2)
ASSUME OperationsAssumption == MaxOperations \in Nat

VARIABLES
    saved,        \* the layouts table, newest first
    listed,       \* the page's copy of it, and whether the query has succeeded
    rows,         \* the enabled cameras the page knows; empty before the first answer
    shown,        \* the arrangement on the screen
    remembered,   \* localStorage: the last layout, and whether the timeline is collapsed
    sent,         \* the requests in flight
    operations,
    crossed       \* has the operator gone on while a request was in flight, or a list been missed?

layoutVars == <<saved, listed, rows, shown, remembered, sent, operations, crossed>>

Item == [moved : BOOLEAN, zoom : BOOLEAN]
Home == [moved |-> FALSE, zoom |-> FALSE]
Moved == [moved |-> TRUE, zoom |-> FALSE]
Arrangements == UNION {[S -> Item] : S \in SUBSET Views}
Layout == [id : LayoutIds, items : Arrangements, collapsed : BOOLEAN]
NotShown == [set |-> FALSE, id |-> Unsaved, items |-> <<>>, collapsed |-> FALSE, dirty |-> FALSE]

LayoutTypeOK ==
    /\ saved \in Seq(Layout)
    /\ listed \in [ready : BOOLEAN, layouts : Seq(Layout)]
    /\ rows \subseteq Views
    /\ shown = NotShown \/
       shown \in [set : {TRUE}, id : LayoutIds \cup {Unsaved}, items : Arrangements,
                  collapsed : BOOLEAN, dirty : BOOLEAN]
    /\ remembered \in [id : LayoutIds \cup {Unsaved}, collapsed : BOOLEAN]
    /\ \A r \in sent : r.kind \in {"update", "create", "delete"} /\ r.at \in {"sent", "done", "refused"}
    /\ operations \in 0..MaxOperations /\ crossed \in BOOLEAN

\* What earlier sessions left: nothing, or a layout of all cameras and one of a moved camera.
LayoutInit ==
    /\ saved \in {<<>>} \cup
         {<<[id |-> 1, items |-> [c \in Views |-> Home], collapsed |-> FALSE],
            [id |-> 2, items |-> [c \in {v} |-> Moved], collapsed |-> TRUE]>> : v \in Views}
    /\ listed = [ready |-> FALSE, layouts |-> <<>>] /\ rows = {} /\ shown = NotShown
    /\ remembered = [id |-> Unsaved, collapsed |-> FALSE]
    /\ sent = {} /\ operations = 0 /\ crossed = FALSE

--------------------------------------------------------------------------------
\* liveLayoutState.ts: the arrangement of a saved layout for the cameras there are.
MergeWithCameras(items, cameras) == [c \in cameras |-> IF c \in DOMAIN items THEN items[c] ELSE Home]

\* Where a list has the layout of that identifier (there is one at most), and the others.
Named(list, id) == {i \in DOMAIN list : list[i].id = id}
Place(list, id) == CHOOSE i \in Named(list, id) : TRUE
Others(list, id) ==
    IF Named(list, id) = {} THEN list
    ELSE SubSeq(list, 1, Place(list, id) - 1) \o SubSeq(list, Place(list, id) + 1, Len(list))

\* The layout named, else the newest, else the default arrangement.
ResolveLayout(cameras, list, id, collapsed) ==
    LET found == list[IF Named(list, id) = {} THEN 1 ELSE Place(list, id)]
    IN IF list = <<>>
       THEN [set |-> TRUE, id |-> Unsaved, items |-> [c \in cameras |-> Home],
             collapsed |-> collapsed, dirty |-> FALSE]
       ELSE [set |-> TRUE, id |-> found.id, items |-> MergeWithCameras(found.items, cameras),
             collapsed |-> found.collapsed, dirty |-> FALSE]

Bounded == operations < MaxOperations /\ operations' = operations + 1

\* a mutant: the layouts that have not arrived are taken for none
InitialiseEarly(cameras, list) == ~shown.set /\ cameras # {}

InitialiseDue(cameras, list) == ~shown.set /\ cameras # {} /\ list.ready

\* The effect that installs the first arrangement, once both queries have succeeded.
Initialised(cameras, list) ==
    IF InitialiseDue(cameras, list)
    THEN ResolveLayout(cameras, list.layouts, remembered.id, remembered.collapsed)
    ELSE shown

CamerasArrive ==
    /\ rows' \in SUBSET Views /\ rows' # {} /\ rows' # rows
    /\ IF rows = {} THEN UNCHANGED operations ELSE Bounded
    /\ shown' = Initialised(rows', listed)
    /\ UNCHANGED <<saved, listed, remembered, sent, crossed>>

LayoutsArrive ==
    /\ listed' = [ready |-> TRUE, layouts |-> saved]
    /\ shown' = Initialised(rows, listed')
    /\ UNCHANGED <<saved, rows, remembered, sent, operations, crossed>>

--------------------------------------------------------------------------------
\* The operator.  Whatever is done while a request is in flight crosses it.
Operates == shown.set /\ Bounded /\ crossed' = (crossed \/ sent # {})

\* A move or a resize; the grid knows nothing of zooms, so each tile keeps its own.
HandleLayoutChange(c) ==
    /\ Operates
    /\ shown' = [shown EXCEPT !.items[c] = [@ EXCEPT !.moved = TRUE], !.dirty = TRUE]
    /\ UNCHANGED <<saved, listed, rows, remembered, sent>>

\* The viewport inside a tile: only whether it is enlarged is told apart.
HandleVideoViewportChange(c, enlarged) ==
    /\ Operates /\ c \in rows
    /\ shown' = [shown EXCEPT !.items[c] = [@ EXCEPT !.zoom = enlarged], !.dirty = TRUE]
    /\ UNCHANGED <<saved, listed, rows, remembered, sent>>

HandleWheel(c) == \E enlarged \in BOOLEAN : HandleVideoViewportChange(c, enlarged)

HandleDrag(c) == shown.items[c].zoom /\ HandleVideoViewportChange(c, TRUE)

HandleDoubleClick(c) == HandleVideoViewportChange(c, FALSE)

ToggleTimeline ==
    /\ Operates
    /\ shown' = [shown EXCEPT !.collapsed = ~@, !.dirty = TRUE]
    /\ remembered' = [remembered EXCEPT !.collapsed = ~shown.collapsed]
    /\ UNCHANGED <<saved, listed, rows, sent>>

\* What a request carries: the arrangement, or what the continuation of a delete will use.
Asks(question) ==
    /\ Operates
    /\ sent' = sent \cup {question}
    /\ UNCHANGED <<saved, listed, rows, shown, remembered>>

Saving(kind, id) ==
    [kind |-> kind, id |-> id, at |-> "sent", nth |-> operations,
     items |-> shown.items, collapsed |-> shown.collapsed]

Deleting(id) ==
    [kind |-> "delete", id |-> id, at |-> "sent", nth |-> operations,
     current |-> shown.id, layouts |-> listed.layouts, cameras |-> rows]

SaveCurrentLayout ==
    Asks(IF shown.id = Unsaved THEN Saving("create", Unsaved) ELSE Saving("update", shown.id))

SaveAsLayout == Asks(Saving("create", Unsaved))

DeleteSavedLayout(id) ==
    /\ \A r \in sent : r.kind # "delete"
    /\ Named(listed.layouts, id) # {}
    /\ Asks(Deleting(id))

LoadLayout(id) ==
    /\ Operates /\ Named(listed.layouts, id) # {}
    /\ shown' = ResolveLayout(rows, listed.layouts, id, FALSE)
    /\ remembered' = [remembered EXCEPT !.id = id]
    /\ UNCHANGED <<saved, listed, rows, sent>>

--------------------------------------------------------------------------------
\* The server: a saved layout becomes the newest; a missing one is refused.
Stored(r, id) == <<[id |-> id, items |-> r.items, collapsed |-> r.collapsed]>> \o Others(saved, id)

NewId(r) == r.nth + 3   \* layoutID: no identifier is given twice

Answer(r, id, at) == sent' = (sent \ {r}) \cup {[r EXCEPT !.at = at, !.id = id]}

ServerSaves(r) ==
    /\ r.at = "sent"
    /\ \/ /\ r.kind = "update" /\ Named(saved, r.id) # {}
          /\ saved' = Stored(r, r.id) /\ Answer(r, r.id, "done")
       \/ /\ r.kind = "create"
          /\ saved' = Stored(r, NewId(r)) /\ Answer(r, NewId(r), "done")
       \/ /\ r.kind = "delete" /\ Named(saved, r.id) # {}
          /\ saved' = Others(saved, r.id) /\ Answer(r, r.id, "done")
    /\ UNCHANGED <<listed, rows, shown, remembered, operations, crossed>>

\* The row is gone, the store fails or the request is lost.
ServerRefuses(r) ==
    /\ r.at = "sent"
    /\ Answer(r, r.id, "refused")
    /\ UNCHANGED <<saved, listed, rows, shown, remembered, operations, crossed>>

--------------------------------------------------------------------------------
\* The continuation of a save: what is on the screen now counts as saved.
SaveReturns(r) ==
    /\ shown' = [shown EXCEPT !.id = r.id, !.dirty = FALSE]
    /\ remembered' = [remembered EXCEPT !.id = r.id]

\* resolveLayoutAfterDelete: of the layouts there were, the newest that remains.
AfterDelete(r) ==
    ResolveLayout(r.cameras, Others(r.layouts, r.id), Unsaved, shown.collapsed)

DeleteReturns(r) ==
    IF r.id # r.current \/ r.cameras = {}
    THEN UNCHANGED <<shown, remembered>>
    ELSE /\ shown' = AfterDelete(r)
         /\ remembered' = [remembered EXCEPT !.id = shown'.id]

\* A request that succeeded first refreshes the list; the refresh itself may fail.
Returns(r) ==
    /\ r.at = "done"
    /\ \/ listed' = [ready |-> TRUE, layouts |-> saved] /\ UNCHANGED crossed
       \/ listed' = listed /\ crossed' = TRUE
    /\ IF r.kind = "delete" THEN DeleteReturns(r) ELSE SaveReturns(r)
    /\ sent' = sent \ {r}
    /\ UNCHANGED <<saved, rows, operations>>

ReturnsRefused(r) ==
    /\ r.at = "refused"
    /\ sent' = sent \ {r}
    /\ UNCHANGED <<saved, listed, rows, shown, remembered, operations, crossed>>

\* The page is loaded again: only localStorage survives.
ReloadPage ==
    /\ Bounded /\ \A r \in sent : r.at # "sent"
    /\ listed' = [ready |-> FALSE, layouts |-> <<>>] /\ rows' = {} /\ shown' = NotShown
    /\ sent' = {} /\ crossed' = FALSE
    /\ UNCHANGED <<saved, remembered>>

LayoutNext ==
    \/ CamerasArrive \/ LayoutsArrive \/ ReloadPage
    \/ \E c \in DOMAIN shown.items :
          HandleLayoutChange(c) \/ HandleWheel(c) \/ HandleDrag(c) \/ HandleDoubleClick(c)
    \/ ToggleTimeline \/ SaveCurrentLayout \/ SaveAsLayout
    \/ \E id \in LayoutIds : LoadLayout(id) \/ DeleteSavedLayout(id)
    \/ \E r \in sent : ServerSaves(r) \/ ServerRefuses(r) \/ Returns(r) \/ ReturnsRefused(r)

LayoutSpec == LayoutInit /\ [][LayoutNext]_layoutVars

--------------------------------------------------------------------------------
\* What the page shows as saved is what the server holds under that name, and nothing
\* is shown as the default while there are saved layouts, as long as the operator waits
\* for each request (LiveWorkspace.tsx clears the mark of an edit made in the meantime).
CleanMeansSaved ==
    shown.set /\ ~shown.dirty /\ ~crossed /\ sent = {} =>
        IF shown.id = Unsaved THEN saved = <<>>
        ELSE \E i \in DOMAIN saved :
                /\ saved[i].id = shown.id /\ saved[i].collapsed = shown.collapsed
                /\ shown.items = MergeWithCameras(saved[i].items, DOMAIN shown.items)
===============================================================================
