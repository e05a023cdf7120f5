---------------------------- MODULE RecordedPlayback ----------------------------
(*******************************************************************************)
(* Playback of recordings by several tiles that share one clock                *)
(* (usePlaybackWorkspace) and the video element of each tile (RecordedVideo).  *)
(*                                                                             *)
(* For each camera the workspace asks the server for the file at the playhead  *)
(* and prepares its video; a barrier holds all of them until each is ready.    *)
(* From then on the playhead follows what the videos present.  Answers,        *)
(* media events and the 100 ms interval interleave with the operator's         *)
(* seeks, so each carries the number of the request it belongs to.             *)
(* Time is counted in seconds.                                                 *)
(*******************************************************************************)
EXTENDS Integers, FiniteSets, FiniteSetsExt

CONSTANTS
    Cameras,
    Archive,     \* camera -> the recorded files, as <<start, end>>
    LastTime,    \* bound: the present
    MaxCalls,    \* bound: requests under way, abandoned ones included, and cameras shown
    MaxActs      \* bound: what the operator does, where an act on a page of n cameras counts 1 + n
ASSUME ArchiveAssumption ==
    /\ IsFiniteSet(Cameras) /\ LastTime \in Nat /\ MaxCalls \in Nat /\ MaxActs \in Nat
    /\ Archive \in [Cameras -> SUBSET {f \in (0..LastTime) \X (0..LastTime) : f[1] < f[2]}]

VARIABLES
    view,       \* mode and playing: "live", "idle" (nothing selected), "paused", "playing"
    preparing,  \* preparation
    playhead,   \* playheadMs
    keys,       \* keys
    cams,       \* cameras
    calls,      \* calls of resolveCamera that have not returned
    current,    \* requests: the call whose controller is kept; 0 for none
    tiles,      \* the video element of each camera
    acts        \* number of the operator's actions

recVars == <<view, preparing, playhead, keys, cams, calls, current, tiles, acts>>

Never == -1
NoFile == <<>>
Absent == [status |-> "absent", id |-> 0, file |-> NoFile, next |-> Never, from |-> Never]
Loading(i) == [Absent EXCEPT !.status = "loading", !.id = i]
Unmounted0 == [mounted |-> FALSE, serves |-> 0, ready |-> FALSE, runs |-> FALSE, pos |-> 0]
Ids == 1..(2 * Cardinality(Cameras) + MaxCalls)

RecInit ==
    /\ view \in {"live", "idle"} /\ preparing = FALSE /\ playhead = LastTime
    /\ keys = Cameras /\ cams = [k \in Cameras |-> Absent]
    /\ calls = {} /\ current = [k \in Cameras |-> 0]
    /\ tiles = [k \in Cameras |-> Unmounted0]
    /\ acts = 0

-----------------------------------------------------------------------------
(* The server's answers and the clock.                                       *)

Contains(file, t) == file # NoFile /\ file[1] <= t /\ t < file[2]

\* Past the last file the recorder may be about to finish one.
Answers(k, t) ==
    LET here == {f \in Archive[k] : Contains(f, t)}
        after == {f[1] : f \in {g \in Archive[k] : g[1] > t}}
    IN IF here # {} THEN {[status |-> "loading", file |-> f, next |-> Never] : f \in here}
       ELSE IF after # {} THEN {[status |-> "gap", file |-> NoFile, next |-> Min(after)]}
       ELSE {[status |-> s, file |-> NoFile, next |-> Never] : s \in {"gap", "edge_wait"}}

\* continuationSeekAt: the gap left by a rotation is bridged.
Continues(answer, from) ==
    from # Never /\ answer.status = "gap" /\ answer.next > from /\ answer.next - from <= 1

\* resumeBoundaryClock
ResumeBoundaryClock(t, files) ==
    LET starts == {f[1] : f \in {g \in files : g[1] > t /\ g[1] - t <= 1}}
    IN IF (\E f \in files : Contains(f, t)) \/ starts = {} THEN t ELSE Min(starts)

-----------------------------------------------------------------------------
(* resolveCamera.                                                            *)

Used == {cams[k].id : k \in Cameras} \cup {c.id : c \in calls}
        \cup {current[k] : k \in Cameras} \cup {tiles[k].serves : k \in Cameras}

\* ++requestSequence: a number no camera, call or video holds.
NewIds(ks) ==
    CHOOSE f \in [ks -> Ids \ Used] : \A a, b \in ks : a # b => f[a] # f[b]

Abandon(ks) == {IF c.key \in ks /\ c.id = current[c.key] THEN [c EXCEPT !.aborted = TRUE] ELSE c : c \in calls}

\* resolveCamera for each camera of ks, up to its first await; before holds the other
\* cameras, and after what else became of the calls.
ResolveCameras(ks, t, from, before, others) ==
    LET id == NewIds(ks)
    IN /\ cams' = [k \in Cameras |-> IF k \in ks THEN Loading(id[k]) ELSE before[k]]
       /\ calls' = others \cup {[key |-> k, id |-> id[k], at |-> t, from |-> from[k],
                                 second |-> FALSE, aborted |-> FALSE, fresh |-> TRUE] : k \in ks}
       /\ current' = [k \in Cameras |-> IF k \in ks THEN id[k] ELSE current[k]]

\* Bound: requests under way, those to come, and the cameras shown, so that a page of one
\* camera leaves room for more of its requests.
Room(ks, shown) == Cardinality(calls) + Cardinality(ks) + Cardinality(shown) <= MaxCalls
FromStart == [k \in Cameras |-> Never]

\* finally
Returned(c) ==
    current' = IF current[c.key] = c.id THEN [current EXCEPT ![c.key] = 0] ELSE current

\* An answer is of use while its request is neither aborted nor overtaken.
Obsolete(c) == c.aborted \/ ~c.fresh

\* Mutant: the answer fills the camera in although its request is obsolete.
CallAnsweredLate(c) ==
    /\ c.key \in keys
    /\ \E answer \in Answers(c.key, c.at) :
        cams' = [cams EXCEPT ![c.key] = [status |-> answer.status, id |-> c.id, file |-> answer.file,
                                         next |-> answer.next, from |-> c.from]]
    /\ calls' = calls \ {c} /\ Returned(c)
    /\ UNCHANGED <<view, preparing, playhead, keys, tiles, acts>>

CallAnswered(c) ==
    /\ \/ /\ Obsolete(c) \/ c.key \notin keys
          /\ calls' = calls \ {c} /\ Returned(c) /\ UNCHANGED cams
       \/ /\ ~Obsolete(c) /\ c.key \in keys
          /\ \E answer \in Answers(c.key, c.at) :
              IF Continues(answer, c.from) /\ ~c.second
              THEN /\ calls' = (calls \ {c}) \cup {[c EXCEPT !.at = answer.next, !.second = TRUE]}
                   /\ UNCHANGED <<cams, current>>
              ELSE /\ cams' = [cams EXCEPT ![c.key] =
                                  [status |-> answer.status, id |-> c.id, file |-> answer.file,
                                   next |-> answer.next, from |-> c.from]]
                   /\ calls' = calls \ {c} /\ Returned(c)
    /\ UNCHANGED <<view, preparing, playhead, keys, tiles, acts>>

\* The request fails, or its answer cannot be used.
CallFails(c) ==
    /\ cams' = IF Obsolete(c) THEN cams
               ELSE [cams EXCEPT ![c.key] = [Loading(c.id) EXCEPT !.status = "error"]]
    /\ calls' = calls \ {c} /\ Returned(c)
    /\ UNCHANGED <<view, preparing, playhead, keys, tiles, acts>>

\* Mutant: the timeout abandons the request and says nothing.
CallTimesOutSilently(c) ==
    /\ ~c.aborted /\ cams[c.key].id = c.id
    /\ calls' = (calls \ {c}) \cup {[c EXCEPT !.aborted = TRUE]}
    /\ UNCHANGED <<view, preparing, playhead, keys, cams, current, tiles, acts>>

\* After 15 s.
CallTimesOut(c) ==
    /\ ~c.aborted /\ cams[c.key].id = c.id
    /\ calls' = (calls \ {c}) \cup {[c EXCEPT !.aborted = TRUE]}
    /\ cams' = [cams EXCEPT ![c.key] = [Loading(c.id) EXCEPT !.status = "error"]]
    /\ UNCHANGED <<view, preparing, playhead, keys, current, tiles, acts>>

-----------------------------------------------------------------------------
(* The operator.                                                             *)

\* Bound: an act counts the more, the more cameras the page shows.
ActsOn(shown) == acts' = acts + 1 + Cardinality(shown) /\ acts' <= MaxActs
Acts == ActsOn(keys)
Watching == view \in {"paused", "playing"}
Paused(ks) == [k \in Cameras |-> IF k \in ks THEN [tiles[k] EXCEPT !.runs = FALSE] ELSE tiles[k]]

\* seek
SeekTo(t, play) ==
    /\ view' = IF play THEN "playing" ELSE "paused"
    /\ playhead' = t /\ preparing' = TRUE
    /\ tiles' = Paused(Cameras)
    /\ ResolveCameras(keys, t, FromStart, [k \in Cameras |-> Absent],
                      {[c EXCEPT !.aborted = TRUE, !.fresh = FALSE] : c \in calls})
    /\ UNCHANGED keys

\* The timeline, a step and the list of recordings; leaving the live view starts playing.
Seeks ==
    /\ Acts /\ Room(keys, keys)
    /\ \E t \in 0..LastTime, play \in BOOLEAN :
        /\ view \in {"live", "playing"} => play
        /\ SeekTo(t, play)

\* The button over a video that stands in a gap; it asks for the first recording of any.
NextOffered == \E k \in keys : cams[k].status = "gap" /\ cams[k].next >= 0

\* nextRecording
NextRecording ==
    /\ Acts /\ Room(keys, keys) /\ Watching /\ NextOffered
    /\ LET nexts == {cams[k].next : k \in keys} \cap (playhead + 1)..LastTime
       IN nexts # {} /\ SeekTo(Min(nexts), view = "playing")

\* retry, of one camera
ResolveAgain(k) == ResolveCameras({k}, playhead, FromStart, cams, Abandon({k}))

\* From the list of cameras, or over a video that failed.
Retry ==
    /\ Acts /\ Watching
    /\ \E k \in keys : Room({k}, keys) /\ ResolveAgain(k)
    /\ UNCHANGED <<view, preparing, playhead, keys, tiles>>

\* pause, play, togglePlaying
Toggles ==
    /\ Acts /\ Watching
    /\ IF view = "playing" THEN view' = "paused" /\ tiles' = Paused(Cameras)
       ELSE view' = "playing" /\ UNCHANGED tiles
    /\ UNCHANGED <<preparing, playhead, keys, cams, calls, current>>

\* goLive
GoLive ==
    /\ Acts /\ view # "live"
    /\ view' = "live" /\ preparing' = FALSE /\ playhead' = LastTime
    /\ tiles' = Paused(Cameras)
    /\ cams' = [k \in Cameras |-> Absent]
    /\ calls' = {[c EXCEPT !.aborted = c.aborted \/ c.id = current[c.key], !.fresh = FALSE] : c \in calls}
    /\ UNCHANGED <<keys, current>>

\* The effect of keySignature: another page or layout shows other cameras, whose tiles
\* are removed in the same commit.
KeysChange ==
    /\ \E ks \in SUBSET Cameras \ {keys} :
        LET gone == keys \ ks
            retained == [k \in Cameras |-> IF k \in gone THEN Absent ELSE cams[k]]
            missing == {k \in ks : retained[k] = Absent
                            \/ \E c \in calls : c.id = current[k] /\ c.aborted}
        IN /\ ActsOn(ks) /\ keys' = ks
           /\ tiles' = [k \in Cameras |-> IF k \in gone THEN Unmounted0 ELSE tiles[k]]
           /\ IF Watching
              THEN Room(missing, ks) /\ ResolveCameras(missing, playhead, FromStart, retained, Abandon(gone \cup missing))
              ELSE cams' = retained /\ calls' = Abandon(gone)
                   /\ current' = [k \in Cameras |-> IF k \in gone THEN 0 ELSE current[k]]
    /\ UNCHANGED <<view, preparing, playhead>>

-----------------------------------------------------------------------------
(* The video element.                                                        *)

\* attachVideo
Mount(k) ==
    /\ k \in keys /\ Watching /\ ~tiles[k].mounted
    /\ tiles' = [tiles EXCEPT ![k].mounted = TRUE]
    /\ cams' = IF cams[k].status = "ready" THEN [cams EXCEPT ![k].status = "loading"] ELSE cams
    /\ UNCHANGED <<view, preparing, playhead, keys, calls, current, acts>>

\* The focus of another tile, or the live view, removes the element.
Detach(k) ==
    /\ tiles[k].mounted /\ (Acts \/ (view = "live" /\ UNCHANGED acts))
    /\ tiles' = [tiles EXCEPT ![k] = Unmounted0]
    /\ UNCHANGED <<view, preparing, playhead, keys, cams, calls, current>>

\* The effect of RecordedVideo, for the media of the camera as rendered.
Loads(k) ==
    LET shown == IF cams[k].file # NoFile THEN cams[k].id ELSE 0
    IN /\ tiles[k].mounted /\ tiles[k].serves # shown
       /\ tiles' = [tiles EXCEPT ![k] = [@ EXCEPT !.serves = shown, !.ready = FALSE, !.runs = FALSE, !.pos = 0]]
       /\ UNCHANGED <<view, preparing, playhead, keys, cams, calls, current, acts>>

\* The guard of the callbacks: the video plays what the camera asks for.
Serves(k) == tiles[k].serves # 0 /\ cams[k].id = tiles[k].serves

\* prepare, then videoReady
Prepared(k) ==
    /\ tiles[k].serves # 0 /\ ~tiles[k].ready
    /\ tiles' = [tiles EXCEPT ![k].ready = TRUE,
                              ![k].pos = IF Serves(k) THEN Max({playhead, cams[k].file[1]}) ELSE 0]
    /\ cams' = IF Serves(k) /\ cams[k].status = "loading"
               THEN [cams EXCEPT ![k].status = "ready"] ELSE cams
    /\ UNCHANGED <<view, preparing, playhead, keys, calls, current, acts>>

\* videoError: an error of the element or of HLS, a play() refused
VideoError(k) ==
    /\ Serves(k)
    /\ tiles' = [tiles EXCEPT ![k].runs = FALSE]
    /\ cams' = [cams EXCEPT ![k].status = "error"]
    /\ UNCHANGED <<view, preparing, playhead, keys, calls, current, acts>>

\* A video that is not ready after 15 s.
GivesUp(k) == ~tiles[k].ready /\ VideoError(k)

Advances(k) ==
    /\ tiles[k].runs /\ Serves(k) /\ tiles[k].pos < cams[k].file[2]
    /\ tiles' = [tiles EXCEPT ![k].pos = @ + 1]
    /\ UNCHANGED <<view, preparing, playhead, keys, cams, calls, current, acts>>

\* videoEnded: the playhead follows unless another tile still plays at it.
Ended(k) ==
    /\ tiles[k].runs /\ Serves(k) /\ tiles[k].pos = cams[k].file[2]
    /\ view = "playing" /\ Room({k}, keys)
    /\ LET end == cams[k].file[2]
           t == Max({playhead, end})
           another == \E o \in keys \ {k} : tiles[o].mounted /\ cams[o].status = "ready"
                                             /\ Contains(cams[o].file, playhead)
       IN /\ playhead' = IF another THEN playhead ELSE t
          /\ ResolveCameras({k}, t, [FromStart EXCEPT ![k] = end], cams, Abandon({k}))
    /\ tiles' = [tiles EXCEPT ![k].runs = FALSE]
    /\ UNCHANGED <<view, preparing, keys, acts>>

-----------------------------------------------------------------------------
(* The interval.                                                             *)

Waiting(k) ==
    \/ cams[k].status = "absent"
    \/ cams[k].status = "loading" /\ (cams[k].file = NoFile \/ tiles[k].mounted)

Ready(k) == cams[k].status = "ready"

HoldsBack ==
    /\ Watching /\ preparing /\ \E k \in keys : Waiting(k)
    /\ tiles' = Paused(Cameras)
    /\ UNCHANGED <<view, preparing, playhead, keys, cams, calls, current, acts>>

Seen == {k \in Cameras : tiles[k].mounted /\ Ready(k)}
Presenting == {k \in Seen : tiles[k].runs /\ cams[k].file[1] <= playhead}

\* The playhead follows the video that is furthest; one that buffers does not advance.
Cursor ==
    LET presented == Max({playhead} \cup {Min({cams[k].file[2], tiles[k].pos}) : k \in Presenting})
    IN IF view = "playing" THEN ResumeBoundaryClock(presented, {cams[k].file : k \in Seen})
       ELSE playhead

Ends(k, t) == Ready(k) /\ view = "playing" /\ t >= cams[k].file[2]

\* Cameras whose next file is due; recent material is polled every 2 s.
Due(t) ==
    {k \in keys : view = "playing" /\ current[k] = 0
                  /\ cams[k].status = "gap" /\ cams[k].next # Never /\ t >= cams[k].next}
Polled == {k \in keys : view = "playing" /\ current[k] = 0 /\ cams[k].status = "edge_wait"}

\* The element of a ready camera is brought to the playhead, held or started.
Driven(k, t) ==
    IF ~(Ready(k) /\ tiles[k].mounted) THEN tiles[k]
    ELSE IF Ends(k, t) \/ view # "playing" \/ t < cams[k].file[1] THEN [tiles[k] EXCEPT !.runs = FALSE]
    ELSE [tiles[k] EXCEPT !.runs = TRUE, !.pos = IF Contains(cams[k].file, t) THEN t ELSE @]

Drives ==
    /\ Watching
    /\ preparing => \A k \in keys : ~Waiting(k)
    /\ preparing' = FALSE
    /\ \E polled \in SUBSET Polled :
        LET t == Cursor
            ended == {k \in keys : Ends(k, t)}
            ks == ended \cup Due(t) \cup polled
            from == [k \in Cameras |-> IF k \in ended THEN cams[k].file[2] ELSE cams[k].from]
        IN /\ Room(ks, keys) /\ playhead' = t
           /\ tiles' = [k \in Cameras |-> IF k \in keys THEN Driven(k, t) ELSE tiles[k]]
           /\ ResolveCameras(ks, t, from, cams, Abandon(ks))
    /\ UNCHANGED <<view, keys, acts>>

RecNext ==
    \/ Seeks \/ NextRecording \/ Retry \/ Toggles \/ GoLive \/ KeysChange
    \/ \E c \in calls : CallAnswered(c) \/ CallFails(c) \/ CallTimesOut(c)
    \/ \E k \in Cameras :
        Mount(k) \/ Detach(k) \/ Loads(k) \/ Prepared(k) \/ VideoError(k) \/ GivesUp(k)
        \/ Advances(k) \/ Ended(k)
    \/ HoldsBack \/ Drives

\* The timer of a call and the rejection it causes; an interval that finds a video ahead
\* of the playhead.
Settles(i) == \E c \in calls : c.id = i /\ IF c.aborted THEN CallFails(c) ELSE CallTimesOut(c)
CursorMoves == Drives /\ playhead' # playhead

RecSpec == RecInit /\ [][RecNext]_recVars

-----------------------------------------------------------------------------
(* Properties.                                                               *)

Files == (UNION {Archive[k] : k \in Cameras}) \cup {NoFile}

RecTypeOK ==
    /\ view \in {"live", "idle", "paused", "playing"} /\ preparing \in BOOLEAN
    /\ playhead \in 0..LastTime /\ keys \subseteq Cameras /\ acts \in 0..MaxActs
    /\ cams \in [Cameras -> [status : {"absent", "loading", "ready", "gap", "edge_wait", "error"},
                             id : Ids \cup {0}, file : Files,
                             next : -1..LastTime, from : -1..LastTime]]
    /\ \A c \in calls : c.key \in Cameras /\ c.id \in Ids
    /\ current \in [Cameras -> Ids \cup {0}]
    /\ tiles \in [Cameras -> [mounted : BOOLEAN, serves : Ids \cup {0}, ready : BOOLEAN,
                              runs : BOOLEAN, pos : 0..LastTime]]

\* A request under way is the newest of its camera, and the camera still waits for it:
\* no answer, error, timeout or video event of an older request has filled it in.
NewestRequestDecides ==
    \A c \in calls : ~Obsolete(c) /\ c.key \in keys =>
        current[c.key] = c.id /\ cams[c.key] = Loading(c.id)

\* A camera counts as ready only when the element now on the page has prepared the very
\* file the camera shows, and no video runs behind the barrier, the pause or the live view.
VideosFollowWorkspace ==
    \A k \in Cameras :
        /\ Ready(k) /\ tiles[k].mounted => Serves(k) /\ tiles[k].ready
        /\ tiles[k].runs => view = "playing" /\ ~preparing

\* What the workspace and its videos show answers the newest seek of each camera, whatever
\* comes back late (resolveCamera, attachVideo).
RecordingsAsAsked == NewestRequestDecides /\ VideosFollowWorkspace

\* The barrier of a seek opens, whatever the server and the videos do.
BarrierOpens == []<>~preparing

\* While something can play, the clock moves on: neither a file boundary nor a short gap
\* nor a lagging tile stops it.
Stopped(k) == cams[k].status \in {"gap", "edge_wait", "error"} \/ ~tiles[k].mounted
PlaybackGoesOn ==
    []<>(view # "playing" \/ playhead = LastTime \/ \A k \in keys : Stopped(k))
=============================================================================
