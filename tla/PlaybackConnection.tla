--------------------------- MODULE PlaybackConnection ---------------------------
(******************************************************************************)
(* One connection of a video element to a stream, over WebRTC or Media        *)
(* Source Extensions (openPlaybackConnection), and the probe that opens one   *)
(* to learn whether a stream plays (probePlaybackProgress).                   *)
(*                                                                            *)
(* Every callback of the socket, the peer, the media source and the source    *)
(* buffer is an action, and so is each continuation after an await: they may  *)
(* run after the connection has been closed.  A piece of media is its number  *)
(* in the order of arrival.                                                   *)
(******************************************************************************)
EXTENDS Integers, Sequences

CONSTANTS
    MaxChunks,    \* bound: pieces of media one connection receives
    PendingRoom   \* the 2 MiB of pending, in pieces
ASSUME ChunksAssumption == MaxChunks \in Nat /\ PendingRoom \in Nat

VARIABLES
    link,      \* closed; the connection before it is opened is "none"
    over,      \* options.transport
    socket,    \* ws
    media,     \* mediaSource; WebRTC: the peer and its description
    buffer,    \* sourceBuffer
    arrived,   \* pieces of media received
    pending,   \* pending, up to pendingLength
    appended,  \* what the source buffer was given (history)
    awaiting,  \* continuations under way: "offer", "stats", "fail"
    reported,  \* what onEvent, onBinary and onFailure were told (history)
    probe,     \* the promise of probePlaybackProgress
    position,  \* video.currentTime in seconds
    baseline   \* PlaybackProgressVerifier, -1 for null

linkVars == <<link, over, socket, media, buffer, arrived, pending, appended, awaiting,
              reported, probe, position, baseline>>

Errors == {"socket", "signaling", "media", "unsupported"}
Events == {"socket_open", "signaling_answer", "first_track", "media_source_open",
           "mse_ready", "first_media"}
MaxPosition == 3   \* bound on the playback position

LinkInit ==
    /\ link = "none" /\ over = "webrtc"
    /\ socket = "none" /\ media = "none" /\ buffer = "none"
    /\ arrived = 0 /\ pending = <<>> /\ appended = <<>>
    /\ awaiting = {} /\ reported = {}
    /\ probe = "none" /\ position = 0 /\ baseline = -1

-----------------------------------------------------------------------------
(* Opening and closing.                                                      *)

\* A browser without the transport, or one that throws, fails in a microtask.
Open(transport, forProbe) ==
    /\ link = "none"
    /\ link' = "open" /\ over' = transport
    /\ probe' = IF forProbe THEN "watching" ELSE "none"
    /\ \/ awaiting' = {"fail"} /\ UNCHANGED <<socket, media>>
       \/ /\ transport = "webrtc"
          /\ socket' = "connecting" /\ media' = "open" /\ UNCHANGED awaiting
       \/ /\ transport = "mse"
          /\ media' = "opening" /\ UNCHANGED <<socket, awaiting>>
    /\ UNCHANGED <<buffer, arrived, pending, appended, reported, position, baseline>>

\* Mutant: the probe resolves and leaves its connection to the collector.
SettleOnly(verdict) ==
    /\ probe' = IF probe = "watching" THEN verdict ELSE probe
    /\ IF probe = "watching"
       THEN UNCHANGED <<link, socket, media, buffer>>
       ELSE link' = "closed" /\ socket' = "none" /\ media' = "none" /\ buffer' = "none"

\* close, and settle for a probe, which closes its connection.
Settle(verdict) ==
    /\ probe' = IF probe = "watching" THEN verdict ELSE probe
    /\ link' = "closed" /\ socket' = "none" /\ media' = "none" /\ buffer' = "none"

\* The owner replaces the attempt or unmounts; a probe is aborted.
Close ==
    /\ link = "open"
    /\ Settle("failed")
    /\ UNCHANGED <<over, arrived, pending, appended, awaiting, reported, position, baseline>>

\* settle(false) after the deadline or an abort.
ProbeDeadline == probe = "watching" /\ Close

\* fail: the tile and the probe both close the connection when they are told.
Fail(reports) ==
    IF link = "open" THEN reported' = reported \cup reports /\ Settle("failed")
    ELSE UNCHANGED <<link, socket, media, buffer, reported, probe>>

Report(events) == reported' = reported \cup events

\* What a callback leaves alone that only reports or fails.
Quiet == UNCHANGED <<over, arrived, pending, appended, position, baseline>>

MicrotaskFails ==
    /\ "fail" \in awaiting
    /\ awaiting' = awaiting \ {"fail"}
    /\ \E e \in {"unsupported", "media"} : Fail({e})
    /\ Quiet

\* socket close or error; peer connection or media source error.  close() detaches the
\* handlers of the socket and the peer, not the one of the media source.
Breaks ==
    /\ \/ socket # "none" /\ \E e \in {"socket", "signaling"} : Fail({e})
       \/ media # "none" /\ Fail({"media"})
       \/ link = "closed" /\ over = "mse" /\ Fail({"media"})
    /\ UNCHANGED awaiting
    /\ Quiet

-----------------------------------------------------------------------------
(* WebRTC.                                                                   *)

OnlyReports == Quiet /\ UNCHANGED <<link, buffer, probe>>

\* onopen; createOffer and setLocalDescription are awaited.
OfferBegins ==
    /\ over = "webrtc" /\ socket = "connecting"
    /\ socket' = "open"
    /\ awaiting' = awaiting \cup {"offer"}
    /\ Report({"socket_open"})
    /\ OnlyReports /\ UNCHANGED media

OfferReady ==
    /\ "offer" \in awaiting
    /\ awaiting' = awaiting \ {"offer"}
    /\ \/ /\ media' = IF link = "open" /\ socket = "open" THEN "offered" ELSE media
          /\ OnlyReports /\ UNCHANGED <<socket, reported>>
       \/ Fail({"signaling"}) /\ Quiet

AnswerArrives ==
    /\ socket = "open" /\ media = "offered"
    /\ media' = "answered"
    /\ Report({"signaling_answer", "first_track"})
    /\ OnlyReports /\ UNCHANGED <<socket, awaiting>>

\* The interval asks for statistics unless an earlier question is unanswered.
StatsAsked ==
    /\ link = "open" /\ over = "webrtc" /\ media # "none" /\ "stats" \notin awaiting
    /\ awaiting' = awaiting \cup {"stats"}
    /\ OnlyReports /\ UNCHANGED <<socket, media, reported>>

\* Video bytes or packets may have been counted since the last answer.
ReceiptAdvanced == IF media = "answered" THEN BOOLEAN ELSE {FALSE}

StatsAnswered ==
    /\ "stats" \in awaiting
    /\ awaiting' = awaiting \ {"stats"}
    /\ \E advanced \in ReceiptAdvanced :
        reported' = IF link = "open" /\ advanced THEN reported \cup {"first_media"} ELSE reported
    /\ OnlyReports /\ UNCHANGED <<socket, media>>

-----------------------------------------------------------------------------
(* Media Source Extensions.                                                  *)

\* The listener is not removed: it returns when the connection is closed.
SourceOpens ==
    /\ link = "open" /\ media = "opening"
    /\ media' = "open" /\ socket' = "connecting"
    /\ Report({"media_source_open"})
    /\ OnlyReports /\ UNCHANGED awaiting

MseSocketOpens ==
    /\ over = "mse" /\ socket = "connecting"
    /\ socket' = "open"
    /\ Report({"socket_open"})
    /\ OnlyReports /\ UNCHANGED <<media, awaiting>>

ControlMessages == {"mse", "error", "invalid"}

\* The server answers with the codec before it sends media.
ControlArrives ==
    /\ over = "mse" /\ socket = "open" /\ buffer = "none"
    /\ \E message \in ControlMessages :
        \/ /\ message = "mse"
           /\ buffer' = "idle"
           /\ Report({"mse_ready"})
           /\ UNCHANGED <<link, socket, media, probe>>
        \/ Fail({IF message = "mse" THEN "media" ELSE "signaling"})
    /\ Quiet /\ UNCHANGED awaiting

\* appendBuffer, which may throw.
AppendBuffer(data, reports) ==
    \/ /\ appended' = appended \o data
       /\ buffer' = "updating"
       /\ Report(reports)
       /\ UNCHANGED <<link, socket, media, probe>>
    \/ Fail(reports \cup {"media"}) /\ UNCHANGED appended

Directly == buffer = "idle" /\ pending = <<>>

ChunkArrives ==
    /\ over = "mse" /\ socket = "open" /\ buffer # "none"
    /\ arrived < MaxChunks
    /\ arrived' = arrived + 1
    /\ IF Directly THEN AppendBuffer(<<arrived'>>, {"first_media"}) /\ UNCHANGED pending
       ELSE IF Len(pending) < PendingRoom
       THEN /\ pending' = pending \o <<arrived'>>
            /\ Report({"first_media"})
            /\ UNCHANGED <<link, socket, media, buffer, appended, probe>>
       ELSE Fail({"first_media", "media"}) /\ UNCHANGED <<pending, appended>>
    /\ UNCHANGED <<over, awaiting, position, baseline>>

\* Mutant: the end of an update is used to trim, what waits is left for the next piece.
UpdateEndsTrimming ==
    /\ buffer = "updating"
    /\ buffer' \in {"idle", "updating"}
    /\ UNCHANGED <<link, over, socket, media, arrived, pending, appended, awaiting,
                   reported, probe, position, baseline>>

\* Mutant: what was appended is not taken out of pending.
UpdateEndsKeeping ==
    /\ buffer = "updating" /\ pending # <<>>
    /\ AppendBuffer(pending, {})
    /\ UNCHANGED <<over, arrived, pending, awaiting, position, baseline>>

\* handleUpdateEnd: what waits is appended in one piece; otherwise the buffer may be
\* trimmed, which is an update too, and playback moves to its end.
UpdateEnds ==
    /\ buffer = "updating"
    /\ IF pending # <<>>
       THEN /\ AppendBuffer(pending, {})
            /\ pending' = <<>>
            /\ UNCHANGED <<over, arrived, awaiting, position, baseline>>
       ELSE /\ buffer' \in {"idle", "updating"}
            /\ position' \in {position, MaxPosition}
            /\ UNCHANGED <<link, over, socket, media, arrived, pending, appended, awaiting,
                           reported, probe, baseline>>

-----------------------------------------------------------------------------
(* Playback and the probe's view of it.                                      *)

\* Playback advances, or starts again at an earlier position.
Plays ==
    /\ link = "open" /\ (appended # <<>> \/ media = "answered")
    /\ \E p \in 0..MaxPosition : p # position /\ p <= position + 1 /\ position' = p
    /\ UNCHANGED <<link, over, socket, media, buffer, arrived, pending, appended, awaiting,
                   reported, probe, baseline>>

\* PlaybackProgressVerifier.observe: a second beyond the first position seen.
Progress == baseline # -1 /\ position >= baseline + 1

ProbeObserves ==
    /\ probe = "watching" /\ position > 0
    /\ IF Progress
       THEN Settle("playing") /\ UNCHANGED baseline
       ELSE /\ baseline' = IF baseline = -1 \/ position < baseline THEN position ELSE baseline
            /\ UNCHANGED <<link, socket, media, buffer, probe>>
    /\ UNCHANGED <<over, arrived, pending, appended, awaiting, reported, position>>

LinkNext ==
    \/ \E t \in {"webrtc", "mse"}, p \in BOOLEAN : Open(t, p)
    \/ Close \/ ProbeDeadline \/ MicrotaskFails \/ Breaks
    \/ OfferBegins \/ OfferReady \/ AnswerArrives \/ StatsAsked \/ StatsAnswered
    \/ SourceOpens \/ MseSocketOpens \/ ControlArrives \/ ChunkArrives \/ UpdateEnds
    \/ Plays \/ ProbeObserves

LinkSpec == LinkInit /\ [][LinkNext]_linkVars

\* The probe's deadline passes and the source buffer ends its updates.
LinkFairness == WF_linkVars(ProbeDeadline) /\ WF_linkVars(UpdateEnds)

-----------------------------------------------------------------------------
(* Properties.                                                               *)

LinkTypeOK ==
    /\ link \in {"none", "open", "closed"} /\ over \in {"webrtc", "mse"}
    /\ socket \in {"none", "connecting", "open"}
    /\ media \in {"none", "opening", "open", "offered", "answered"}
    /\ buffer \in {"none", "idle", "updating"}
    /\ arrived \in 0..MaxChunks /\ pending \in Seq(1..MaxChunks) /\ appended \in Seq(1..MaxChunks)
    /\ awaiting \subseteq {"offer", "stats", "fail"} /\ reported \subseteq Events \cup Errors
    /\ probe \in {"none", "watching", "playing", "failed"}
    /\ position \in 0..MaxPosition /\ baseline \in -1..MaxPosition

\* The decoder is given every piece that arrived, once and in order, whatever was
\* appended directly and what had to wait for an update or a trim to end.
MediaInOrder ==
    link = "open" => appended \o pending = [i \in 1..arrived |-> i] /\ Len(pending) <= PendingRoom

\* A closed connection says and does nothing any more, whichever timer, listener or
\* awaited continuation still runs, and a probe that has answered has closed its own.
ClosedIsSilent ==
    [][/\ link = "closed" => UNCHANGED <<link, socket, media, buffer, appended, reported, probe>>
       /\ probe' \in {"playing", "failed"} =>
             link' = "closed" /\ socket' = "none" /\ media' = "none" /\ buffer' = "none"]_linkVars

\* A probe answers within its deadline.
ProbeReturns == probe = "watching" ~> probe # "watching"

\* Media that had to wait reaches the decoder without another piece arriving.
WaitingMediaIsAppended == pending # <<>> ~> (pending = <<>> \/ link = "closed")
=============================================================================
