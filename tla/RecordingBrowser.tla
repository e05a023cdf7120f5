---------------------------- MODULE RecordingBrowser ----------------------------
(******************************************************************************)
(* The recordings page (RecordingsPage.tsx): the list from which a recording  *)
(* is deleted or sent to the player, the player's browser                     *)
(* (RecordingBrowserWorkspace.tsx) and the time line on which a pointer, the  *)
(* wheel and the keyboard seek, pan and zoom (PlaybackTimeline.tsx).          *)
(*                                                                            *)
(* A discrete event and the effects of the renders it causes are one step.    *)
(* The player itself is RecordedPlayback's subject; here it is what it was    *)
(* last told.  Times are ticks, four to a day; a track is two pixels wide.    *)
(******************************************************************************)
EXTENDS Integers, FiniteSets

CONSTANTS
    Archived,         \* the cameras with recordings
    Recordings,      \* the recordings, as <<camera, start>>
    MaxRequests,     \* bound: recordings sent to the player
    MaxGestures,     \* bound: what the operator does
    OnePointer       \* a second finger waits for the first

Day == 4
Days == 0..1
NoSource == "none"
NoTime == -99
NoRecording == <<>>
ASSUME ArchivedAssumption ==
    /\ IsFiniteSet(Archived) /\ NoSource \notin Archived
    /\ Recordings \subseteq Archived \X (0..(2 * Day - 1))
    /\ MaxRequests \in Nat /\ MaxGestures \in Nat /\ OnePointer \in BOOLEAN

VARIABLES
    tab,        \* activeTab
    offered,     \* the cameras the page has received
    browser,    \* the state of the workspace
    loading,    \* timelineQuery.isLoading
    request,    \* playbackRequest
    gesture,    \* gestureRef
    candidate,  \* candidateMs
    table,      \* the list of recordings
    kept,       \* the server's recordings
    gestures,   \* number of the operator's actions
    due,        \* history: what is owed to the pointer's gesture and to each request
    leftover    \* history: a request found its camera and day shown already

browserVars == <<tab, offered, browser, loading, request, gesture, candidate, table, kept,
                 gestures, due, leftover>>

Spans == {2, 4, 8}     \* ten seconds to 31 days
Track == 0..2
Span(w) == w[2] - w[1]
DayRange(d) == <<d * Day, (d + 1) * Day>>
DayOf(t) == t \div Day
Clamp(t, w) == IF t < w[1] THEN w[1] ELSE IF t > w[2] THEN w[2] ELSE t

NoRequest == [id |-> 0, recording |-> NoRecording]
Still == [kind |-> "none", pointer |-> 0, x |-> 0, window |-> DayRange(0), moved |-> FALSE, at |-> NoTime]

\* A pan remembers the window and the place it began at, a cursor the instant it would seek.
PointerGesture == [kind : {"none", "cursor", "pan"}, pointer : 0..2, x : Track, window : Int \X Int,
                   moved : BOOLEAN, at : Int]

BrowserTypeOK ==
    /\ tab \in {"playback", "management"} /\ offered \subseteq Archived
    /\ browser \in [camera : Archived \cup {NoSource}, day : Days, recording : Recordings \cup {NoRecording},
                    list : BOOLEAN, preserve : BOOLEAN, handled : 0..MaxRequests,
                    window : Int \X Int, at : Int, playing : BOOLEAN]
    /\ request \in [id : 0..MaxRequests, recording : Recordings \cup {NoRecording}]
    /\ gesture \in PointerGesture
    /\ Span(browser.window) \in Spans /\ Span(gesture.window) \in Spans
    /\ candidate \in Int
    /\ table \in [armed : Recordings \cup {NoRecording}, detail : Recordings \cup {NoRecording},
                  deleting : Recordings \cup {NoRecording}]
    /\ kept \subseteq Recordings /\ gestures \in 0..MaxGestures
    /\ due \in [(0..MaxRequests) -> {"nothing", "seek", "sought", "amiss"}]
    /\ loading \in BOOLEAN /\ leftover \in BOOLEAN

BrowserInit ==
    /\ tab = "playback" /\ offered = {}
    /\ browser = [camera |-> NoSource, day |-> 0, recording |-> NoRecording, list |-> FALSE,
                  preserve |-> FALSE, handled |-> 0, window |-> DayRange(0), at |-> NoTime, playing |-> FALSE]
    /\ request = NoRequest /\ gesture = Still /\ candidate = NoTime
    /\ table = [armed |-> NoRecording, detail |-> NoRecording, deleting |-> NoRecording]
    /\ kept = Recordings /\ gestures = 0
    /\ due = [i \in 0..MaxRequests |-> "nothing"] /\ loading = FALSE /\ leftover = FALSE

-----------------------------------------------------------------------------
(* Effects.                                                                  *)

\* The gesture counts as 0, a request by its number.
Pays(d, i) == [d EXCEPT ![i] = IF @ = "seek" THEN "sought" ELSE "amiss"]
Released(d) == [d EXCEPT ![0] = IF @ = "seek" THEN "nothing" ELSE @]

\* The effect of another day or camera: the whole day, and no recording
\* highlighted unless a request has just chosen one.
Reset(b, before) ==
    IF b.camera = before.camera /\ b.day = before.day THEN b
    ELSE [b EXCEPT !.window = DayRange(b.day), !.preserve = FALSE,
                   !.recording = IF b.preserve THEN @ ELSE NoRecording]

CallsFor(b, asks, cameras) == asks.id \notin {0, b.handled} /\ asks.recording[1] \in cameras

Requested(b, asks) ==
    [b EXCEPT !.handled = asks.id, !.preserve = TRUE, !.camera = asks.recording[1],
              !.recording = asks.recording, !.day = DayOf(asks.recording[2]), !.list = FALSE,
              !.at = asks.recording[2], !.playing = TRUE]

\* The effect of going to the other tab.
Left(b) == [b EXCEPT !.playing = FALSE]

\* b after an event, and what its effects make of it.
Rendered(b, asks, cameras) ==
    LET own == Reset(b, browser)
        next == IF CallsFor(own, asks, cameras) THEN Requested(own, asks)
                ELSE IF own.camera = NoSource /\ asks.id = 0 /\ cameras # {}
                     THEN [own EXCEPT !.camera = CHOOSE c \in cameras : TRUE]
                ELSE own
    IN Reset(next, own)

IsServed(b) == CallsFor(Reset(b, browser), request', offered')

\* An event makes the workspace b; d is what is owed apart from the request.
Shown(b, d) ==
    /\ browser' = Rendered(b, request', offered')
    /\ due' = IF IsServed(b) THEN Pays(d, request'.id) ELSE d
    /\ leftover' = (leftover \/ (IsServed(b) /\ LET own == Reset(b, browser) IN
                       own.camera = request'.recording[1] /\ own.day = DayOf(request'.recording[2])))

Gestures == gestures < MaxGestures /\ gestures' = gestures + 1
PointerKept == UNCHANGED <<gesture, candidate>>
ListKept == UNCHANGED <<table, kept>>

-----------------------------------------------------------------------------
(* The list of recordings.                                                   *)

Camera(cameras) == offered' = cameras /\ UNCHANGED <<tab, request, gestures>>
                   /\ Shown(browser, due) /\ PointerKept /\ ListKept

\* The list of cameras arrives, and again in the background.
CamerasListed == \E c \in Archived : Camera(offered \cup {c})
CamerasRefetched == offered # {} /\ Camera(offered)

SwitchTab ==
    /\ Gestures /\ gesture = Still
    /\ tab' = IF tab = "playback" THEN "management" ELSE "playback"
    /\ UNCHANGED <<request, offered>> /\ PointerKept /\ ListKept
    /\ Shown(IF tab = "playback" THEN Left(browser) ELSE browser, due)

Playable(r) == r \in kept
DeleteOffered == table.deleting = NoRecording

PlaySegment(r) ==
    /\ Gestures /\ tab = "management" /\ gesture = Still
    /\ Playable(r) /\ request.id < MaxRequests
    /\ request' = [id |-> request.id + 1, recording |-> r] /\ tab' = "playback"
    /\ UNCHANGED offered /\ PointerKept /\ ListKept
    /\ Shown(browser, [due EXCEPT ![request.id + 1] = "seek"])

Manages == Gestures /\ tab = "management"
           /\ UNCHANGED <<tab, offered, browser, request, gesture, candidate, due, leftover>>

SelectSegment(r) ==
    /\ Manages /\ r \in kept \cup {NoRecording} /\ r # table.detail
    /\ table' = [table EXCEPT !.detail = r] /\ UNCHANGED kept

\* The first click arms one row's button, the second deletes.
DeleteSelectedSegment(r) ==
    /\ Manages /\ r \in kept /\ DeleteOffered
    /\ table' = IF table.armed # r THEN [table EXCEPT !.armed = r] ELSE [table EXCEPT !.deleting = r]
    /\ UNCHANGED kept

CancelDelete ==
    /\ Manages /\ table.armed # NoRecording /\ DeleteOffered
    /\ table' = [table EXCEPT !.armed = NoRecording] /\ UNCHANGED kept

DeleteReturned(ok) ==
    /\ table.deleting # NoRecording
    /\ IF ok THEN /\ kept' = kept \ {table.deleting}
                  /\ table' = [table EXCEPT !.armed = NoRecording, !.deleting = NoRecording,
                                            !.detail = IF @ = table.deleting THEN NoRecording ELSE @]
       ELSE table' = [table EXCEPT !.deleting = NoRecording] /\ UNCHANGED kept
    /\ UNCHANGED <<tab, offered, browser, request, gesture, candidate, gestures, due, leftover>>

-----------------------------------------------------------------------------
(* The browser's own controls.                                               *)

Browses == Gestures /\ tab = "playback" /\ gesture = Still
           /\ UNCHANGED <<tab, offered, request>> /\ PointerKept /\ ListKept

ChooseCamera(c) == Browses /\ c \in offered /\ Shown([browser EXCEPT !.camera = c, !.list = FALSE], due)
ChooseDate(d) == Browses /\ Shown([browser EXCEPT !.day = d], due)
SeekDraft(t) ==
    /\ Browses /\ browser.camera # NoSource /\ DayOf(t) = browser.day
    /\ Shown([browser EXCEPT !.at = t], due)
ChooseSegment(r) ==
    /\ Browses /\ r \in kept /\ r[1] = browser.camera /\ DayOf(r[2]) = browser.day
    /\ Shown([browser EXCEPT !.recording = r, !.at = r[2], !.playing = TRUE, !.list = FALSE], due)
ToggleList(open) == Browses /\ browser.list # open /\ Shown([browser EXCEPT !.list = open], due)

-----------------------------------------------------------------------------
(* The time line.                                                            *)

TimeAt(x, w) == w[1] + (Span(w) * x) \div 2
Enabled == browser.camera # NoSource /\ ~loading
OnTrack == Gestures /\ tab = "playback" /\ UNCHANGED <<tab, offered, request>> /\ ListKept

SeekTimeline(t, d) == Shown([browser EXCEPT !.at = t], d)
CursorShown == candidate # NoTime \/ (browser.at # NoTime /\ Clamp(browser.at, browser.window) = browser.at)

MayBegin(p) == OnTrack /\ Enabled /\ (OnePointer => gesture = Still) /\ p # gesture.pointer

BeginPan(p, x) ==
    /\ MayBegin(p)
    /\ gesture' = [Still EXCEPT !.kind = "pan", !.pointer = p, !.x = x, !.window = browser.window]
    /\ due' = [due EXCEPT ![0] = "seek"]
    /\ UNCHANGED <<candidate, browser, leftover>>

BeginCursorDrag(p, x) ==
    /\ MayBegin(p) /\ CursorShown
    /\ gesture' = [Still EXCEPT !.kind = "cursor", !.pointer = p, !.at = TimeAt(x, browser.window)]
    /\ candidate' = TimeAt(x, browser.window)
    /\ due' = [due EXCEPT ![0] = "seek"]
    /\ UNCHANGED <<browser, leftover>>

UpdatePointer(p, x) ==
    /\ OnTrack /\ gesture.kind # "none" /\ gesture.pointer = p
    /\ IF gesture.kind = "cursor"
       THEN /\ gesture' = [gesture EXCEPT !.at = TimeAt(x, browser.window)]
            /\ candidate' = TimeAt(x, browser.window) /\ UNCHANGED <<browser, due, leftover>>
       ELSE LET shift == (Span(gesture.window) * (gesture.x - x)) \div 2
            IN /\ gesture.moved \/ x # gesture.x
               /\ gesture' = [gesture EXCEPT !.moved = TRUE]
               /\ browser' = [browser EXCEPT !.window = <<gesture.window[1] + shift, gesture.window[2] + shift>>]
               /\ due' = Released(due) /\ UNCHANGED <<candidate, leftover>>

FinishPointer(p, x) ==
    /\ OnTrack /\ gesture.kind # "none" /\ gesture.pointer = p
    /\ gesture' = Still
    /\ CASE gesture.kind = "cursor" -> candidate' = NoTime /\ SeekTimeline(gesture.at, Pays(due, 0))
         [] gesture.kind = "pan" /\ gesture.moved -> UNCHANGED <<candidate, browser, due, leftover>>
         [] OTHER -> UNCHANGED candidate /\ SeekTimeline(TimeAt(x, gesture.window), Pays(due, 0))

\* The browser cancels the pointer, or takes its capture away.
CancelPointer(p) ==
    /\ OnTrack /\ gesture.kind # "none" /\ gesture.pointer = p
    /\ gesture' = Still /\ candidate' = NoTime /\ due' = Released(due) /\ UNCHANGED <<browser, leftover>>

ZoomViewport(x, wider) ==
    /\ OnTrack /\ Enabled
    /\ LET w == browser.window
           span == IF wider THEN Clamp(Span(w) * 2, <<2, 8>>) ELSE Clamp(Span(w) \div 2, <<2, 8>>)
           from == TimeAt(x, w) - (span * x) \div 2
       IN browser' = [browser EXCEPT !.window = <<from, from + span>>]
    /\ PointerKept /\ UNCHANGED <<due, leftover>>

\* a mutant: the candidate goes but the gesture stays
EscapeGestureHidden ==
    /\ OnTrack /\ Enabled /\ candidate # NoTime
    /\ candidate' = NoTime /\ due' = Released(due) /\ UNCHANGED <<gesture, browser, leftover>>

EscapeGesture ==
    /\ OnTrack /\ Enabled /\ candidate # NoTime
    /\ gesture' = Still /\ candidate' = NoTime /\ due' = Released(due) /\ UNCHANGED <<browser, leftover>>

\* Arrows, pages, Home and End, from the playhead.
HandleKeyboard(step) ==
    /\ OnTrack /\ Enabled /\ PointerKept
    /\ LET w == browser.window
           current == Clamp(IF browser.at = NoTime THEN TimeAt(1, w) ELSE browser.at, w)
       IN SeekTimeline(Clamp(CASE step = "home" -> w[1] [] step = "end" -> w[2]
                               [] step = "back" -> current - 1 [] step = "on" -> current + 1, w), due)

-----------------------------------------------------------------------------
BrowserEvents ==
    \/ CamerasListed \/ CamerasRefetched \/ SwitchTab \/ CancelDelete \/ EscapeGesture
    \/ \E r \in Recordings : PlaySegment(r) \/ DeleteSelectedSegment(r) \/ ChooseSegment(r)
    \/ \E r \in Recordings \cup {NoRecording} : SelectSegment(r)
    \/ \E ok \in BOOLEAN : DeleteReturned(ok) \/ ToggleList(ok)
    \/ \E c \in Archived : ChooseCamera(c)
    \/ \E d \in Days : ChooseDate(d)
    \/ \E t \in 0..(2 * Day - 1) : SeekDraft(t)
    \/ \E p \in 1..2, x \in Track :
        BeginPan(p, x) \/ BeginCursorDrag(p, x) \/ UpdatePointer(p, x) \/ FinishPointer(p, x)
    \/ \E p \in 1..2 : CancelPointer(p)
    \/ \E x \in Track, wider \in BOOLEAN : ZoomViewport(x, wider)
    \/ \E step \in {"home", "end", "back", "on"} : HandleKeyboard(step)

\* Another camera, or another stretch of its time, is loaded unless it is at hand;
\* until it is, the time line takes no press, wheel or key.
TimelineAsked ==
    loading' \in IF tab' = "playback" /\ browser'.camera # NoSource
                    /\ <<tab', browser'.camera, browser'.window>> # <<tab, browser.camera, browser.window>>
                 THEN BOOLEAN ELSE {loading}

TimelineLoaded ==
    /\ loading /\ loading' = FALSE
    /\ UNCHANGED <<tab, offered, browser, request, gesture, candidate, table, kept, gestures, due, leftover>>

BrowserNext == (BrowserEvents /\ TimelineAsked) \/ TimelineLoaded

BrowserSpec == BrowserInit /\ [][BrowserNext]_browserVars

-----------------------------------------------------------------------------
\* One gesture of the pointer seeks at most once, and not after Escape, a lost
\* pointer or a pan; a request is served once, however often the cameras are
\* offered again.
SeeksOnce ==
    /\ \A i \in 0..MaxRequests : due[i] # "amiss"
    /\ gesture = Still => due[0] # "seek"
    /\ browser.handled # 0 => due[browser.handled] = "sought"

\* A candidate is shown just while the cursor is held.
CandidateIsHeld == IF gesture.kind = "cursor" THEN candidate = gesture.at ELSE candidate = NoTime

\* The highlighted recording is one of the camera and the day shown, unless a
\* request came for what was shown already: its flag then stays set, and the next
\* choice of a camera or a day keeps the old highlight.
HighlightIsHere ==
    browser.recording # NoRecording /\ ~leftover =>
        browser.recording[1] = browser.camera /\ DayOf(browser.recording[2]) = browser.day

\* What the recordings page shows and plays is what was asked of it last
\* (RecordingBrowserWorkspace.tsx, PlaybackTimeline.tsx).
ShowsWhatWasAsked == SeeksOnce /\ CandidateIsHeld /\ HighlightIsHere
===============================================================================
