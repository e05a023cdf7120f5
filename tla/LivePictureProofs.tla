---------------------------- MODULE LivePictureProofs ----------------------------
(*******************************************************************************)
(* Proofs about what serves one live picture: the connection that brings its   *)
(* media, for every number of pieces of media and every room for those that    *)
(* wait, and press-and-hold PTZ, for every number of requests under way.       *)
(*                                                                             *)
(* A connection rests on LetGo: one that is not open holds no socket, no       *)
(* media and no source buffer, so that whichever callback comes late finds its *)
(* guard false.  PTZ rests on the chain of a hold: while a button is held,     *)
(* one thing will send the next move (a request whose answer is awaited, or    *)
(* the renewal), and when nothing is active there is none.                     *)
(*******************************************************************************)
EXTENDS PlaybackConnection, PtzControl, SequenceTheorems, FiniteSetTheorems, TLAPS

-------------------------------------------------------------------------------
(* One connection of a video element. *)

\* A connection that is not open holds nothing; one not opened yet has seen nothing.
LetGo ==
    /\ link # "open" => socket = "none" /\ media = "none" /\ buffer = "none"
    /\ probe = "watching" => link = "open"
    /\ probe \in {"playing", "failed"} => link = "closed"
    /\ link = "none" => arrived = 0 /\ pending = <<>> /\ appended = <<>> /\ awaiting = {}

LinkInv == LinkTypeOK /\ LetGo /\ MediaInOrder

Piece == 1..MaxChunks

-----------------------------------------------------------------------------
(* Sequences.                                                              *)

Counted(n) == [i \in 1..n |-> i]

LEMMA PutLast ==
    ASSUME NEW S, NEW s \in Seq(S), NEW t \in Seq(S), NEW x \in S
    PROVE  s \o (t \o <<x>>) = (s \o t) \o <<x>>
OBVIOUS

\* Another piece goes to the end of what waits.
LEMMA OneMore ==
    ASSUME NEW S, NEW s \in Seq(S), NEW t \in Seq(S), NEW n \in Nat, n + 1 \in S, s \o t = Counted(n)
    PROVE  s \o (t \o <<n + 1>>) = Counted(n + 1)
<1>1. <<n + 1>> \in Seq(S) /\ Len(<<n + 1>>) = 1 /\ <<n + 1>>[1] = n + 1
  OBVIOUS
<1>2. s \o (t \o <<n + 1>>) = (s \o t) \o <<n + 1>>
  BY PutLast
<1>3. s \o t \in Seq(S)
  BY ConcatProperties
<1>4. Len(s \o t) = n /\ \A i \in 1..n : (s \o t)[i] = i
  BY <1>3 DEF Counted
<1>5. /\ (s \o t) \o <<n + 1>> \in Seq(S)
      /\ Len((s \o t) \o <<n + 1>>) = n + 1
      /\ \A i \in 1..(n + 1) : ((s \o t) \o <<n + 1>>)[i] = IF i <= n THEN (s \o t)[i] ELSE <<n + 1>>[i - n]
  BY <1>1, <1>3, <1>4, ConcatProperties
<1>6. \A i \in 1..(n + 1) : ((s \o t) \o <<n + 1>>)[i] = i
  <2> TAKE i \in 1..(n + 1)
  <2>1. CASE i <= n
    BY <2>1, <1>4, <1>5
  <2>2. CASE i = n + 1
    BY <2>2, <1>1, <1>5
  <2>3. i <= n \/ i = n + 1
    OBVIOUS
  <2> QED
    BY <2>1, <2>2, <2>3, Zenon
<1>7. (s \o t) \o <<n + 1>> = Counted(n + 1)
  <2>1. Counted(n + 1) \in [1..(n + 1) -> Nat] /\ \A i \in 1..(n + 1) : Counted(n + 1)[i] = i
    BY DEF Counted
  <2>2. Counted(n + 1) \in Seq(S \cup Nat) /\ Len(Counted(n + 1)) = n + 1
    BY DEF Counted
  <2>3. (s \o t) \o <<n + 1>> \in Seq(S \cup Nat)
    BY <1>5
  <2> QED
    BY <2>1, <2>2, <2>3, <1>5, <1>6, SeqEqual
<1> QED
  BY <1>2, <1>7

\* What waited is appended in one piece.
LEMMA AllAppended ==
    ASSUME NEW S, NEW s \in Seq(S), NEW t \in Seq(S)
    PROVE  s \o t \in Seq(S) /\ (s \o t) \o <<>> = s \o t
BY ConcatProperties, ConcatEmptySeq

-----------------------------------------------------------------------------
(* Type correctness. *)

LEMMA InitType == LinkInit => LinkTypeOK
BY ChunksAssumption DEF LinkInit, LinkTypeOK, MaxPosition

LEMMA NextType == LinkTypeOK /\ [LinkNext]_linkVars => LinkTypeOK'
<1> SUFFICES ASSUME LinkTypeOK, [LinkNext]_linkVars
             PROVE  LinkTypeOK'
  OBVIOUS
<1> USE DEF LinkTypeOK, MaxPosition
<1>1. ASSUME NEW t \in {"webrtc", "mse"}, NEW p \in BOOLEAN, Open(t, p)
      PROVE  LinkTypeOK'
  BY <1>1 DEF Open
<1>2. CASE Close \/ ProbeDeadline
  BY <1>2 DEF Close, ProbeDeadline, Settle
<1>3. CASE MicrotaskFails
  BY <1>3 DEF MicrotaskFails, Fail, Settle, Quiet, Errors
<1>4. CASE Breaks
  BY <1>4 DEF Breaks, Fail, Settle, Quiet, Errors
<1>5. CASE OfferBegins
  BY <1>5 DEF OfferBegins, Report, OnlyReports, Quiet, Events
<1>6. CASE OfferReady
  BY <1>6 DEF OfferReady, OnlyReports, Quiet, Fail, Settle, Errors
<1>7. CASE AnswerArrives
  BY <1>7 DEF AnswerArrives, Report, OnlyReports, Quiet, Events
<1>8. CASE StatsAsked
  BY <1>8 DEF StatsAsked, OnlyReports, Quiet
<1>9. CASE StatsAnswered
  BY <1>9 DEF StatsAnswered, OnlyReports, Quiet, Events
<1>10. CASE SourceOpens \/ MseSocketOpens
  BY <1>10 DEF SourceOpens, MseSocketOpens, Report, OnlyReports, Quiet, Events
<1>11. CASE ControlArrives
  BY <1>11 DEF ControlArrives, Report, Fail, Settle, Quiet, Events, Errors
<1>12. CASE ChunkArrives
  <2>1. arrived' \in 0..MaxChunks /\ <<arrived'>> \in Seq(1..MaxChunks)
    BY <1>12, ChunksAssumption DEF ChunkArrives
  <2>2. appended \o <<arrived'>> \in Seq(1..MaxChunks) /\ pending \o <<arrived'>> \in Seq(1..MaxChunks)
    BY <2>1, ConcatProperties
  <2>3. CASE Directly
    BY <1>12, <2>1, <2>2, <2>3 DEF ChunkArrives, AppendBuffer, Report, Fail, Settle, Events, Errors
  <2>4. CASE ~Directly
    BY <1>12, <2>1, <2>2, <2>4 DEF ChunkArrives, Report, Fail, Settle, Events, Errors
  <2> QED
    BY <2>3, <2>4
<1>13. CASE UpdateEnds
  <2>1. appended \o pending \in Seq(1..MaxChunks) /\ <<>> \in Seq(1..MaxChunks)
    BY AllAppended
  <2>2. CASE pending = <<>>
    <3>1. /\ buffer' \in {"idle", "updating"} /\ position' \in {position, MaxPosition}
          /\ UNCHANGED <<link, over, socket, media, arrived, pending, appended, awaiting, reported, probe, baseline>>
      BY <1>13, <2>2, Zenon DEF UpdateEnds
    <3> QED
      BY <3>1
  <2>3. ASSUME AppendBuffer(pending, {}), UNCHANGED <<over, arrived, awaiting, position, baseline>>, pending' = <<>>
        PROVE  LinkTypeOK'
    BY <2>1, <2>3 DEF AppendBuffer, Report, Fail, Settle, Errors
  <2> QED
    BY <1>13, <2>2, <2>3 DEF UpdateEnds
<1>14. CASE Plays
  BY <1>14 DEF Plays
<1>15. CASE ProbeObserves
  BY <1>15 DEF ProbeObserves, Progress, Settle
<1>16. CASE UNCHANGED linkVars
  BY <1>16 DEF linkVars
<1> QED
  BY <1>1, <1>2, <1>3, <1>4, <1>5, <1>6, <1>7, <1>8, <1>9, <1>10, <1>11, <1>12, <1>13, <1>14, <1>15, <1>16
  DEF LinkNext

-----------------------------------------------------------------------------
(* A connection that is not open holds nothing. *)

\* What Fail does to an open connection, and to one that is not.
LEMMA FailCloses ==
    ASSUME NEW reports, LinkTypeOK, LetGo, Fail(reports), link # "none"
    PROVE  /\ link' = "closed" /\ socket' = "none" /\ media' = "none" /\ buffer' = "none"
           /\ probe' # "watching"
           /\ link = "open" \/ UNCHANGED <<link, socket, media, buffer, reported, probe>>
BY DEF Fail, Settle, LetGo, LinkTypeOK

LEMMA NextReleased == LinkTypeOK /\ LetGo /\ [LinkNext]_linkVars => LetGo'
<1> SUFFICES ASSUME LinkTypeOK, LetGo, [LinkNext]_linkVars
             PROVE  LetGo'
  OBVIOUS
<1>1. ASSUME NEW t \in {"webrtc", "mse"}, NEW p \in BOOLEAN, Open(t, p)
      PROVE  LetGo'
  BY <1>1 DEF Open, LetGo, LinkTypeOK
<1>2. ASSUME NEW reports, Fail(reports), link # "none"
      PROVE  LetGo'
  BY <1>2, FailCloses DEF LetGo
<1>3. CASE Close \/ ProbeDeadline
  BY <1>3 DEF Close, ProbeDeadline, Settle, LetGo, LinkTypeOK
<1>4. CASE MicrotaskFails
  BY <1>2, <1>4 DEF MicrotaskFails, LetGo
<1>5. CASE Breaks
  BY <1>2, <1>5 DEF Breaks, LetGo
<1>6. CASE OfferBegins \/ AnswerArrives \/ SourceOpens \/ MseSocketOpens \/ StatsAsked \/ StatsAnswered
  BY <1>6 DEF OfferBegins, AnswerArrives, SourceOpens, MseSocketOpens, StatsAsked, StatsAnswered,
              OnlyReports, Quiet, LetGo
<1>7. CASE OfferReady
  <2>1. link # "none"
    BY <1>7 DEF OfferReady, LetGo
  <2>2. CASE media' = (IF link = "open" /\ socket = "open" THEN "offered" ELSE media)
             /\ OnlyReports /\ UNCHANGED <<socket, reported>>
    BY <2>1, <2>2 DEF OnlyReports, Quiet, LetGo
  <2> QED
    BY <1>2, <1>7, <2>1, <2>2 DEF OfferReady
<1>8. CASE ControlArrives
  <2>1. link = "open"
    BY <1>8 DEF ControlArrives, LetGo
  <2>2. CASE buffer' = "idle" /\ Report({"mse_ready"}) /\ UNCHANGED <<link, socket, media, probe>>
    BY <1>8, <2>1, <2>2 DEF ControlArrives, Quiet, LetGo
  <2> QED
    BY <1>2, <1>8, <2>1, <2>2 DEF ControlArrives
<1>9. ASSUME NEW data, NEW reports, AppendBuffer(data, reports), link = "open"
      PROVE  LetGo'
  BY <1>2, <1>9 DEF AppendBuffer, LetGo
<1>10. CASE ChunkArrives
  <2>1. link = "open"
    BY <1>10 DEF ChunkArrives, LetGo
  <2>2. CASE UNCHANGED <<link, socket, media, buffer, appended, probe>>
    BY <2>1, <2>2 DEF LetGo
  <2> QED
    BY <1>2, <1>9, <1>10, <2>1, <2>2 DEF ChunkArrives
<1>11. CASE UpdateEnds
  <2>1. link = "open"
    BY <1>11 DEF UpdateEnds, LetGo
  <2>2. CASE pending = <<>>
    BY <1>11, <2>1, <2>2 DEF UpdateEnds, LetGo
  <2> QED
    BY <1>9, <1>11, <2>1, <2>2 DEF UpdateEnds
<1>12. CASE Plays
  BY <1>12 DEF Plays, LetGo
<1>13. CASE ProbeObserves
  BY <1>13 DEF ProbeObserves, Settle, LetGo
<1>14. CASE UNCHANGED linkVars
  BY <1>14 DEF linkVars, LetGo
<1> QED
  BY <1>1, <1>3, <1>4, <1>5, <1>6, <1>7, <1>8, <1>10, <1>11, <1>12, <1>13, <1>14 DEF LinkNext

-----------------------------------------------------------------------------
(* Media in order. *)

LEMMA NextInOrder == LinkInv /\ [LinkNext]_linkVars => MediaInOrder'
<1> SUFFICES ASSUME LinkTypeOK, LetGo, MediaInOrder, [LinkNext]_linkVars, link' = "open"
             PROVE  MediaInOrder'
  BY DEF LinkInv, MediaInOrder
<1>1. ASSUME NEW t \in {"webrtc", "mse"}, NEW p \in BOOLEAN, Open(t, p)
      PROVE  MediaInOrder'
  <2>1. arrived' = 0 /\ pending' = <<>> /\ appended' = <<>>
    BY <1>1 DEF Open, LetGo
  <2>2. <<>> \o <<>> = [i \in 1..0 |-> i] /\ Len(<<>>) = 0
    OBVIOUS
  <2> QED
    BY <2>1, <2>2, ChunksAssumption DEF MediaInOrder
<1>2. ASSUME NEW reports, Fail(reports), link # "none"
      PROVE  FALSE
  BY <1>2, FailCloses
<1>3. CASE UNCHANGED <<link, arrived, pending, appended>>
  BY <1>3 DEF MediaInOrder
<1>4. CASE ChunkArrives
  <2>1. link = "open" /\ arrived' = arrived + 1 /\ arrived \in Nat /\ arrived + 1 \in Piece
    <3>1. arrived \in 0..MaxChunks /\ arrived < MaxChunks /\ arrived' = arrived + 1
      BY <1>4 DEF ChunkArrives, LinkTypeOK
    <3>2. arrived + 1 \in 1..MaxChunks
      BY <3>1, ChunksAssumption
    <3> QED
      BY <1>4, <3>1, <3>2 DEF ChunkArrives, LetGo, Piece
  <2>2. appended \in Seq(Piece) /\ pending \in Seq(Piece)
    BY DEF LinkTypeOK, Piece
  <2>3. appended \o pending = Counted(arrived) /\ Len(pending) <= PendingRoom
    BY <2>1 DEF MediaInOrder, Counted
  <2>4. appended \o (pending \o <<arrived + 1>>) = Counted(arrived')
    BY <2>1, <2>2, <2>3, OneMore
  <2>5. CASE Directly
    <3>1. appended' = appended \o <<arrived + 1>> /\ UNCHANGED pending /\ pending = <<>>
      BY <1>2, <1>4, <2>1, <2>5 DEF ChunkArrives, AppendBuffer, Directly
    <3>2. <<arrived + 1>> \in Seq(Piece)
      BY <2>1
    <3>3. pending \o <<arrived + 1>> = <<arrived + 1>>
      BY <3>1, <3>2, ConcatEmptySeq
    <3>4. appended' \in Seq(Piece)
      BY <2>2, <3>1, <3>2, ConcatProperties
    <3>5. appended' \o pending' = appended'
      BY <3>1, <3>4, ConcatEmptySeq
    <3> QED
      BY <2>3, <2>4, <3>1, <3>3, <3>5 DEF MediaInOrder, Counted
  <2>6. CASE ~Directly
    <3>1. pending' = pending \o <<arrived + 1>> /\ UNCHANGED appended /\ Len(pending) < PendingRoom
      BY <1>2, <1>4, <2>1, <2>6 DEF ChunkArrives
    <3>2. Len(pending') = Len(pending) + 1
      BY <2>1, <2>2, <3>1
    <3> QED
      <4>1. Len(pending') <= PendingRoom
        BY <2>2, <3>1, <3>2, ChunksAssumption
      <4>2. appended' \o pending' = [i \in 1..arrived' |-> i]
        BY <2>4, <3>1 DEF Counted
      <4> QED
        BY <4>1, <4>2 DEF MediaInOrder
  <2> QED
    BY <2>5, <2>6
<1>5. CASE UpdateEnds
  <2>1. link = "open"
    BY <1>5 DEF UpdateEnds, LetGo
  <2>2. CASE pending = <<>>
    BY <1>3, <1>5, <2>2 DEF UpdateEnds
  <2>3. CASE pending # <<>>
    <3>1. appended' = appended \o pending /\ pending' = <<>> /\ UNCHANGED arrived
      BY <1>2, <1>5, <2>1, <2>3 DEF UpdateEnds, AppendBuffer
    <3>2. appended' \o pending' = appended \o pending /\ Len(pending') = 0
      BY <3>1, AllAppended DEF LinkTypeOK
    <3> QED
      BY <2>1, <3>1, <3>2, ChunksAssumption DEF MediaInOrder
  <2> QED
    BY <2>2, <2>3
<1>6. CASE Close \/ ProbeDeadline
  BY <1>6 DEF Close, ProbeDeadline, Settle
<1>7. CASE MicrotaskFails
  BY <1>2, <1>7 DEF MicrotaskFails, LetGo
<1>8. CASE Breaks
  BY <1>2, <1>8 DEF Breaks, LetGo
<1>9. CASE OfferReady
  BY <1>2, <1>3, <1>9 DEF OfferReady, OnlyReports, Quiet, LetGo
<1>10. CASE ControlArrives
  BY <1>2, <1>3, <1>10 DEF ControlArrives, Quiet, LetGo
<1>11. CASE ProbeObserves
  BY <1>3, <1>11 DEF ProbeObserves, Settle
<1>12. CASE OfferBegins \/ AnswerArrives \/ SourceOpens \/ MseSocketOpens \/ StatsAsked \/ StatsAnswered
  BY <1>3, <1>12 DEF OfferBegins, AnswerArrives, SourceOpens, MseSocketOpens, StatsAsked, StatsAnswered,
                     OnlyReports, Quiet
<1>13. CASE Plays \/ UNCHANGED linkVars
  BY <1>3, <1>13 DEF Plays, linkVars
<1> QED
  BY <1>1, <1>4, <1>5, <1>6, <1>7, <1>8, <1>9, <1>10, <1>11, <1>12, <1>13 DEF LinkNext

LEMMA InitInv == LinkInit => LinkInv
BY InitType DEF LinkInit, LinkInv, LetGo, MediaInOrder

LEMMA NextInv == LinkInv /\ [LinkNext]_linkVars => LinkInv'
BY NextType, NextReleased, NextInOrder DEF LinkInv

\* The inductive invariant of a connection.
THEOREM ConnectionInvariant == LinkSpec => []LinkInv
<1> QED
  BY InitInv, NextInv, PTL DEF LinkSpec

\* Whatever the browser calls back and in which order, the variables keep their types.
THEOREM ConnectionType == LinkSpec => []LinkTypeOK
<1>1. LinkInv => LinkTypeOK
  BY DEF LinkInv
<1> QED
  BY <1>1, ConnectionInvariant, PTL

\* The decoder of an open connection gets every piece of media, once and in the order it
\* came, however many wait for an update of the source buffer to end.
THEOREM ConnectionKeepsOrder == LinkSpec => []MediaInOrder
<1>1. LinkInv => MediaInOrder
  BY DEF LinkInv
<1> QED
  BY <1>1, ConnectionInvariant, PTL

-----------------------------------------------------------------------------
(* A closed connection is silent. *)

Silent ==
    /\ link = "closed" => UNCHANGED <<link, socket, media, buffer, appended, reported, probe>>
    /\ probe' \in {"playing", "failed"} =>
          link' = "closed" /\ socket' = "none" /\ media' = "none" /\ buffer' = "none"

LEMMA NextSilent == LinkInv /\ [LinkNext]_linkVars => Silent
<1> SUFFICES ASSUME LinkInv, [LinkNext]_linkVars
             PROVE  Silent
  OBVIOUS
<1>1. LetGo'
  BY NextInv, NextReleased DEF LinkInv
<1>2. LinkTypeOK /\ LetGo
  BY DEF LinkInv
<1>3. probe' \in {"playing", "failed"} =>
          link' = "closed" /\ socket' = "none" /\ media' = "none" /\ buffer' = "none"
  BY <1>1 DEF LetGo
<1>4. ASSUME link = "closed"
      PROVE  UNCHANGED <<link, socket, media, buffer, appended, reported, probe>>
  <2>1. socket = "none" /\ media = "none" /\ buffer = "none" /\ probe # "watching"
    BY <1>2, <1>4 DEF LetGo
  <2>2. ASSUME NEW reports, Fail(reports)
        PROVE  UNCHANGED <<link, socket, media, buffer, reported, probe>>
    BY <1>4, <2>2 DEF Fail
  <2>3. CASE MicrotaskFails \/ Breaks
    BY <2>1, <2>2, <2>3 DEF MicrotaskFails, Breaks, Quiet
  <2>4. CASE OfferReady \/ StatsAnswered
    BY <1>4, <2>1, <2>2, <2>4 DEF OfferReady, StatsAnswered, OnlyReports, Quiet, ReceiptAdvanced
  <2>5. CASE UNCHANGED linkVars
    BY <2>5 DEF linkVars
  <2> QED
    BY <1>4, <2>1, <2>3, <2>4, <2>5
    DEF LinkNext, Open, Close, ProbeDeadline, OfferBegins, AnswerArrives, StatsAsked, SourceOpens,
        MseSocketOpens, ControlArrives, ChunkArrives, UpdateEnds, Plays, ProbeObserves
<1> QED
  BY <1>3, <1>4 DEF Silent

\* A timer, a listener or an awaited continuation that still runs after the connection was
\* closed changes nothing and reports nothing; a probe that has answered has released its own.
THEOREM ClosedConnectionIsSilent == LinkSpec => ClosedIsSilent
<1>1. LinkInv /\ [LinkNext]_linkVars => [Silent]_linkVars
  BY NextSilent
<1> QED
  BY <1>1, ConnectionInvariant, PTL DEF LinkSpec, ClosedIsSilent, Silent

-------------------------------------------------------------------------------
(* Press-and-hold PTZ. *)

\* The answer of r leads to a move.
Chained(r) == req[r].then \in {"renew", "start"}

OneChain ==
    /\ \A q, r \in Requests : Chained(q) /\ Chained(r) => q = r
    /\ renewal => \A r \in Requests : ~Chained(r)

Held ==
    /\ ~active => ~renewal /\ \A r \in Requests : ~Chained(r)
    /\ active => pressed # {}

Gated ==
    /\ \A r \in Requests : req[r].at \in {"calling", "taken"} <=> r \in gate
    /\ \A q, r \in gate : q = r
    /\ \A r \in Requests : req[r].at # "free" => req[r].kind # "none"

Chosen ==
    /\ mode = "playback" => wanted = "playback" /\ panel = "closed" /\ ~active
    /\ \A r \in Requests : req[r].then = "seek" => wanted = "playback"

PtzInv == PtzTypeOK /\ OneChain /\ Held /\ Gated /\ Chosen

-----------------------------------------------------------------------------
(* What the steps of the hold do to the requests. *)

Thens == {"none", "renew", "start", "close", "seek"}

\* Request r is sent anew or freed; of the others only what is awaited may be forgotten.
Touches(r) ==
    /\ req' \in [Requests -> RequestTypes]
    /\ \A q \in Requests \ {r} : req'[q].at = req[q].at /\ req'[q].kind = req[q].kind
                               /\ req'[q].then \in {req[q].then, "none"}

LEMMA ForgottenType ==
    ASSUME NEW requests \in [Requests -> RequestTypes], NEW thens
    PROVE  /\ Forgotten(requests, thens) \in [Requests -> RequestTypes]
           /\ \A q \in Requests :
                 /\ Forgotten(requests, thens)[q].at = requests[q].at
                 /\ Forgotten(requests, thens)[q].kind = requests[q].kind
                 /\ Forgotten(requests, thens)[q].then =
                       IF requests[q].then \in thens THEN "none" ELSE requests[q].then
<1>0. ASSUME NEW r \in RequestTypes
      PROVE  /\ Dropped(r) \in RequestTypes
             /\ Dropped(r).at = r.at /\ Dropped(r).kind = r.kind /\ Dropped(r).then = "none"
  <2> DEFINE left == [r EXCEPT !.then = "none"]
             cut == r.kind = "move"
             d == Dropped(r)
  <2>1. left \in RequestTypes /\ left.at = r.at /\ left.kind = r.kind /\ left.then = "none"
    BY DEF RequestTypes
  <2>2. d = [left EXCEPT !.aborted = cut] /\ cut \in BOOLEAN
    BY DEF Dropped
  <2> HIDE DEF left, cut, d
  <2>3. d \in RequestTypes /\ d.at = left.at /\ d.kind = left.kind /\ d.then = left.then
    BY <2>1, <2>2 DEF RequestTypes
  <2> QED
    BY <2>1, <2>3 DEF d
<1>1. \A q \in Requests : requests[q] \in RequestTypes /\ Dropped(requests[q]) \in RequestTypes
                        /\ Dropped(requests[q]).at = requests[q].at /\ Dropped(requests[q]).kind = requests[q].kind
                        /\ Dropped(requests[q]).then = "none"
  BY <1>0
<1> QED
  BY <1>1 DEF Forgotten

LEMMA SentType ==
    ASSUME NEW kind \in {"move", "stop", "goto"}, NEW then \in Thens
    PROVE  /\ Sent(kind, then) \in RequestTypes
           /\ Sent(kind, then).kind = kind /\ Sent(kind, then).at = "wire" /\ Sent(kind, then).then = then
BY DEF Sent, Free, RequestTypes, Thens

LEMMA FreeType == Free \in RequestTypes /\ Free.at = "free" /\ Free.then = "none" /\ Free.kind = "none"
BY DEF Free, RequestTypes

\* stopCurrent leaves at most its own request in the chain.
LEMMA StopSends ==
    ASSUME NEW r \in Requests, NEW then \in Thens, NEW requests \in [Requests -> RequestTypes],
           StopCurrent(r, then, requests),
           \A q \in Requests : requests[q].at = req[q].at /\ requests[q].kind = req[q].kind
                             /\ requests[q].then \in {req[q].then, "none"}
    PROVE  /\ Touches(r) /\ renewal' = FALSE
           /\ req'[r].then = then /\ req'[r].at = "wire" /\ req'[r].kind = "stop"
           /\ \A q \in Requests \ {r} : ~Chained(q)'
           /\ \A q \in Requests \ {r} : req'[q].then = "seek" => requests[q].then = "seek"
<1> DEFINE forgotten == Forgotten(requests, {"renew", "start"})
<1>1. /\ forgotten \in [Requests -> RequestTypes]
      /\ \A q \in Requests : /\ forgotten[q].at = requests[q].at /\ forgotten[q].kind = requests[q].kind
                             /\ forgotten[q].then = IF requests[q].then \in {"renew", "start"}
                                                    THEN "none" ELSE requests[q].then
  BY ForgottenType
<1>2. req' = [forgotten EXCEPT ![r] = Sent("stop", then)] /\ renewal' = FALSE
  BY DEF StopCurrent
<1>3. Sent("stop", then) \in RequestTypes /\ Sent("stop", then).kind = "stop"
      /\ Sent("stop", then).at = "wire" /\ Sent("stop", then).then = then
  BY SentType
<1> HIDE DEF forgotten
<1> QED
  BY <1>1, <1>2, <1>3 DEF Touches, Chained

LEMMA DispatchSends ==
    ASSUME NEW r \in Requests, PtzTypeOK, Dispatch(r, req)
    PROVE  /\ Touches(r) /\ renewal' = FALSE
           /\ req'[r].then = "renew" /\ req'[r].at = "wire" /\ req'[r].kind = "move"
           /\ \A q \in Requests \ {r} : req'[q] = req[q]
<1>1. Sent("move", "renew") \in RequestTypes /\ Sent("move", "renew").kind = "move"
      /\ Sent("move", "renew").at = "wire" /\ Sent("move", "renew").then = "renew"
  BY SentType DEF Thens
<1> QED
  BY <1>1 DEF Dispatch, PtzTypeOK, Touches

LEMMA FreesOne ==
    ASSUME NEW r \in Requests, PtzTypeOK, req' = [req EXCEPT ![r] = Free]
    PROVE  /\ Touches(r) /\ req'[r].then = "none" /\ req'[r].at = "free" /\ req'[r].kind = "none"
           /\ \A q \in Requests \ {r} : req'[q] = req[q]
BY FreeType DEF PtzTypeOK, Touches

-----------------------------------------------------------------------------
(* Preservation, by what a step does. *)

\* stop, with its intent withdrawn.
LEMMA StopKeeps ==
    ASSUME NEW r \in Requests, NEW then \in {"none", "close", "seek"},
           NEW requests \in [Requests -> RequestTypes],
           PtzInv, Stop(r, then, requests), req[r].at \in {"free", "answered"},
           \A q \in Requests : requests[q].at = req[q].at /\ requests[q].kind = req[q].kind
                             /\ requests[q].then \in {req[q].then, "none"},
           UNCHANGED <<gate, camera>>, pressed' \subseteq Sources,
           panel' \in {"open", "closing", "closed"}, mode' \in {"live", "playback"},
           wanted' \in {"live", "playback"},
           mode' = "playback" => wanted' = "playback" /\ panel' = "closed",
           then = "seek" => wanted' = "playback",
           \A q \in Requests : requests[q].then = "seek" => wanted' = "playback"
    PROVE  PtzInv'
<1>1. then \in Thens
  BY DEF Thens
<1>2. StopCurrent(r, then, requests) /\ active' = FALSE
  BY DEF Stop
<1>3. /\ Touches(r) /\ renewal' = FALSE
      /\ req'[r].then = then /\ req'[r].at = "wire" /\ req'[r].kind = "stop"
      /\ \A q \in Requests \ {r} : ~Chained(q)'
      /\ \A q \in Requests \ {r} : req'[q].then = "seek" => requests[q].then = "seek"
  BY <1>1, <1>2, StopSends
<1>4. \A q \in Requests : ~Chained(q)'
  BY <1>3 DEF Chained
<1>5. PtzTypeOK'
  BY <1>2, <1>3 DEF PtzInv, PtzTypeOK, Touches
<1>6. Gated'
  BY <1>3 DEF PtzInv, Gated, Touches
<1>7. Chosen'
  BY <1>2, <1>3 DEF PtzInv, Chosen
<1> QED
  BY <1>2, <1>3, <1>4, <1>5, <1>6, <1>7 DEF PtzInv, OneChain, Held

\* A move goes out, in a hold whose chain has no other link.
LEMMA DispatchKeeps ==
    ASSUME NEW r \in Requests, PtzInv, Dispatch(r, req), req[r].at \in {"free", "answered"},
           \A q \in Requests \ {r} : ~Chained(q),
           active' = TRUE, pressed' # {}, pressed' \subseteq Sources, mode = "live",
           UNCHANGED <<panel, mode, wanted, gate, camera>>
    PROVE  PtzInv'
<1>1. /\ Touches(r) /\ renewal' = FALSE
      /\ req'[r].then = "renew" /\ req'[r].at = "wire" /\ req'[r].kind = "move"
      /\ \A q \in Requests \ {r} : req'[q] = req[q]
  BY DispatchSends DEF PtzInv
<1>2. PtzTypeOK'
  BY <1>1 DEF PtzInv, PtzTypeOK, Touches
<1>3. Gated'
  BY <1>1 DEF PtzInv, Gated
<1>4. Chosen'
  BY <1>1 DEF PtzInv, Chosen
<1>5. \A q \in Requests \ {r} : ~Chained(q)'
  BY <1>1 DEF Chained
<1> QED
  BY <1>1, <1>2, <1>3, <1>4, <1>5 DEF PtzInv, OneChain, Held

\* A request whose answer leads nowhere is forgotten.
LEMMA FreeKeeps ==
    ASSUME NEW r \in Requests, PtzInv, req' = [req EXCEPT ![r] = Free], req[r].at \in {"free", "answered"},
           UNCHANGED <<renewal, gate, camera, wanted>>, active' \in BOOLEAN, pressed' \subseteq Sources,
           panel' \in {"open", "closing", "closed"}, mode' \in {"live", "playback"},
           mode' = "playback" => wanted = "playback" /\ panel' = "closed" /\ ~active',
           ~active' => ~renewal /\ \A q \in Requests \ {r} : ~Chained(q),
           active' => pressed' # {}
    PROVE  PtzInv'
<1>1. /\ Touches(r) /\ req'[r].then = "none" /\ req'[r].at = "free" /\ req'[r].kind = "none"
      /\ \A q \in Requests \ {r} : req'[q] = req[q]
  BY FreesOne DEF PtzInv
<1>2. PtzTypeOK'
  BY <1>1 DEF PtzInv, PtzTypeOK, Touches
<1>3. Gated'
  BY <1>1 DEF PtzInv, Gated
<1>4. Chosen'
  BY <1>1 DEF PtzInv, Chosen
<1>5. \A q \in Requests : Chained(q)' => q # r /\ Chained(q)
  BY <1>1 DEF Chained
<1> QED
  BY <1>2, <1>3, <1>4, <1>5 DEF PtzInv, OneChain, Held

\* The browser is not involved and every request still leads where it did.
LEMMA ServerKeeps ==
    ASSUME PtzInv, UNCHANGED ptzClient, req' \in [Requests -> RequestTypes],
           \A q \in Requests : req'[q].then = req[q].then,
           gate' \subseteq Requests, camera' \in {"still", "moving"}, Gated'
    PROVE  PtzInv'
<1>1. \A q \in Requests : Chained(q)' = Chained(q)
  BY DEF Chained
<1>2. PtzTypeOK'
  BY DEF PtzInv, PtzTypeOK, ptzClient
<1> QED
  BY <1>1, <1>2 DEF PtzInv, OneChain, Held, Chosen, ptzClient

-----------------------------------------------------------------------------
(* Every step. *)

LEMMA PressKeeps ==
    ASSUME NEW r \in Requests, NEW s \in Sources, PtzInv, Press(s, r)
    PROVE  PtzInv'
<1>1. /\ req[r].at = "free" /\ pressed' = pressed \cup {s} /\ active' = TRUE /\ mode = "live"
      /\ UNCHANGED <<panel, mode, wanted, gate, camera>>
  BY DEF Press, Start, IsFree, PtzInv, PtzTypeOK, Chosen
<1>2. pressed' \subseteq Sources /\ pressed' # {}
  BY <1>1 DEF PtzInv, PtzTypeOK
<1>3. CASE HadMovement
  <2>1. StopCurrent(r, "start", req)
    BY <1>3 DEF Press, Start
  <2>2. /\ Touches(r) /\ renewal' = FALSE
        /\ req'[r].then = "start" /\ req'[r].at = "wire" /\ req'[r].kind = "stop"
        /\ \A q \in Requests \ {r} : ~Chained(q)'
        /\ \A q \in Requests \ {r} : req'[q].then = "seek" => req[q].then = "seek"
    BY <2>1, StopSends DEF PtzInv, PtzTypeOK, Thens
  <2>3. PtzTypeOK'
    BY <1>1, <1>2, <2>2 DEF PtzInv, PtzTypeOK, Touches
  <2>4. Gated'
    BY <1>1, <2>2 DEF PtzInv, Gated, Touches
  <2>5. Chosen'
    BY <1>1, <2>2 DEF PtzInv, Chosen
  <2> QED
    BY <1>1, <1>2, <2>2, <2>3, <2>4, <2>5 DEF PtzInv, OneChain, Held
<1>4. CASE ~HadMovement
  <2>1. Dispatch(r, req)
    BY <1>4 DEF Press, Start
  <2>2. \A q \in Requests : ~Chained(q)
    BY <1>4 DEF HadMovement, PtzInv, Held
  <2> QED
    BY <1>1, <1>2, <2>1, <2>2, DispatchKeeps
<1> QED
  BY <1>3, <1>4

LEMMA UnmountKeeps ==
    ASSUME NEW r \in Requests, PtzInv, Unmounted(r), req[r].at \in {"free", "answered"},
           UNCHANGED <<wanted, gate, camera>>, mode' \in {"live", "playback"},
           mode' = "playback" => wanted = "playback"
    PROVE  PtzInv'
<1>1. panel' = "closed" /\ pressed' = {}
  BY DEF Unmounted
<1>2. CASE active
  <2>1. Stop(r, "none", req)
    BY <1>2 DEF Unmounted
  <2>2. \A q \in Requests : req[q].then = "seek" => wanted' = "playback"
    BY DEF PtzInv, Chosen
  <2>3. req \in [Requests -> RequestTypes] /\ wanted' \in {"live", "playback"}
    BY DEF PtzInv, PtzTypeOK
  <2> QED
    BY <1>1, <2>1, <2>2, <2>3, StopKeeps
<1>3. CASE ~active
  <2>1. req' = [req EXCEPT ![r] = Free] /\ UNCHANGED <<active, renewal>>
    BY <1>3 DEF Unmounted
  <2>2. ~renewal /\ \A q \in Requests : ~Chained(q)
    BY <1>3 DEF PtzInv, Held
  <2>3. active' \in BOOLEAN
    BY <2>1 DEF PtzInv, PtzTypeOK
  <2> QED
    BY <1>1, <1>3, <2>1, <2>2, <2>3, FreeKeeps
<1> QED
  BY <1>2, <1>3

\* A release, a stop button, the window's blur and the closing of the panel.
LEMMA StopsKeep ==
    ASSUME NEW r \in Requests, NEW then \in {"none", "close"}, PtzInv, Stop(r, then, req),
           req[r].at \in {"free", "answered"}, pressed' \subseteq pressed,
           panel' = panel \/ (panel = "open" /\ panel' = "closing"),
           UNCHANGED <<mode, wanted, gate, camera>>
    PROVE  PtzInv'
<1>1. req \in [Requests -> RequestTypes] /\ pressed' \subseteq Sources
      /\ panel' \in {"open", "closing", "closed"} /\ mode' \in {"live", "playback"} /\ wanted' \in {"live", "playback"}
  BY DEF PtzInv, PtzTypeOK
<1>2. mode' = "playback" => wanted' = "playback" /\ panel' = "closed"
  BY DEF PtzInv, Chosen
<1>3. \A q \in Requests : req[q].then = "seek" => wanted' = "playback"
  BY DEF PtzInv, Chosen
<1> QED
  BY <1>1, <1>2, <1>3, StopKeeps

LEMMA SeekingKeeps ==
    ASSUME NEW r \in Requests, PtzInv, Seek(r)
    PROVE  PtzInv'
<1> DEFINE requests == Forgotten(req, {"seek"})
<1>1. /\ requests \in [Requests -> RequestTypes]
      /\ \A q \in Requests : requests[q].at = req[q].at /\ requests[q].kind = req[q].kind
                           /\ requests[q].then = IF req[q].then \in {"seek"} THEN "none" ELSE req[q].then
  BY ForgottenType DEF PtzInv, PtzTypeOK
<1>2. Stop(r, "seek", requests) /\ req[r].at = "free" /\ wanted' = "playback" /\ mode = "live"
      /\ UNCHANGED <<pressed, panel, mode, gate, camera>>
  BY DEF Seek, IsFree
<1>3. pressed' \subseteq Sources /\ panel' \in {"open", "closing", "closed"}
  BY <1>2 DEF PtzInv, PtzTypeOK
<1> HIDE DEF requests
<1> QED
  BY <1>1, <1>2, <1>3, StopKeeps

LEMMA ReturnToLiveKeeps ==
    ASSUME PtzInv, ReturnToLive
    PROVE  PtzInv'
<1>1. /\ req' \in [Requests -> RequestTypes]
      /\ \A q \in Requests : req'[q].at = req[q].at /\ req'[q].kind = req[q].kind
                           /\ req'[q].then = IF req[q].then \in {"seek"} THEN "none" ELSE req[q].then
  BY ForgottenType DEF ReturnToLive, PtzInv, PtzTypeOK
<1>2. PtzTypeOK'
  BY <1>1 DEF ReturnToLive, PtzInv, PtzTypeOK
<1>3. Gated'
  BY <1>1 DEF ReturnToLive, PtzInv, Gated
<1>4. Chosen'
  BY <1>1 DEF ReturnToLive, PtzInv, Chosen
<1>5. \A q \in Requests : Chained(q)' = Chained(q)
  BY <1>1 DEF Chained
<1> QED
  BY <1>2, <1>3, <1>4, <1>5 DEF ReturnToLive, PtzInv, OneChain, Held

LEMMA AnsweredKeeps ==
    ASSUME NEW r \in Requests, PtzInv, Answered(r)
    PROVE  PtzInv'
<1>1. req[r].at = "answered" /\ UNCHANGED <<wanted, gate, camera>>
  BY DEF Answered, Ignored, MoveSucceeded, MoveFailed, StartReady, CloseReady, SeekReady, Reply
<1>2. PtzTypeOK
  BY DEF PtzInv
<1>3. CASE Ignored(r)
  BY <1>1, <1>3, FreeKeeps DEF Ignored, Reply, PtzInv, PtzTypeOK, Chosen, Held
<1>4. CASE MoveSucceeded(r)
  <2>1. /\ Touches(r) /\ req'[r].then = "none" /\ req'[r].at = "free" /\ req'[r].kind = "none"
        /\ \A q \in Requests \ {r} : req'[q] = req[q]
    BY <1>2, <1>4, FreesOne DEF MoveSucceeded
  <2>2. Chained(r) /\ \A q \in Requests \ {r} : ~Chained(q)
    BY <1>4 DEF MoveSucceeded, Reply, Chained, PtzInv, OneChain
  <2>3. active /\ renewal' = TRUE /\ UNCHANGED <<pressed, active, panel, mode>>
    BY <1>4, <2>2 DEF MoveSucceeded, PtzInv, Held
  <2>4. \A q \in Requests : ~Chained(q)'
    BY <2>1, <2>2 DEF Chained
  <2>5. PtzTypeOK'
    BY <1>1, <1>2, <2>1, <2>3 DEF PtzTypeOK, Touches
  <2>6. Gated'
    BY <1>1, <2>1 DEF PtzInv, Gated
  <2>7. Chosen'
    BY <1>1, <2>1, <2>3 DEF PtzInv, Chosen
  <2> QED
    BY <2>3, <2>4, <2>5, <2>6, <2>7 DEF PtzInv, OneChain, Held
<1>5. CASE MoveFailed(r)
  <2>1. Stop(r, "none", req) /\ UNCHANGED <<pressed, panel, mode>>
    BY <1>5 DEF MoveFailed
  <2>2. /\ req[r].at \in {"free", "answered"} /\ pressed' \subseteq pressed /\ panel' = panel
        /\ UNCHANGED <<mode, wanted, gate, camera>>
    BY <1>1, <2>1
  <2> QED
    BY <2>1, <2>2, StopsKeep
<1>6. CASE StartReady(r)
  <2>1. Chained(r) /\ ~renewal /\ \A q \in Requests \ {r} : ~Chained(q)
    BY <1>6 DEF StartReady, Reply, Chained, PtzInv, OneChain
  <2>2. active /\ mode = "live" /\ pressed # {} /\ pressed \subseteq Sources
    BY <1>2, <2>1 DEF PtzInv, PtzTypeOK, Held, Chosen
  <2>3. CASE req[r].ok
    <3>1. Dispatch(r, req) /\ UNCHANGED <<active, pressed, panel, mode>>
      BY <1>6, <2>3 DEF StartReady
    <3>2. active' = TRUE
      BY <1>2, <2>2, <3>1 DEF PtzTypeOK
    <3> QED
      BY <1>1, <2>1, <2>2, <3>1, <3>2, DispatchKeeps
  <2>4. CASE ~req[r].ok
    <3>1. active' = FALSE /\ req' = [req EXCEPT ![r] = Free] /\ UNCHANGED <<renewal, pressed, panel, mode>>
      BY <1>6, <2>4 DEF StartReady
    <3>2. panel' \in {"open", "closing", "closed"} /\ mode' \in {"live", "playback"}
      BY <1>2, <3>1 DEF PtzTypeOK
    <3> QED
      BY <1>1, <2>1, <2>2, <3>1, <3>2, FreeKeeps
  <2> QED
    BY <2>3, <2>4
<1>7. CASE CloseReady(r)
  <2>1. Unmounted(r) /\ UNCHANGED mode
    BY <1>7 DEF CloseReady
  <2>2. mode' \in {"live", "playback"} /\ (mode' = "playback" => wanted = "playback")
    BY <2>1 DEF PtzInv, PtzTypeOK, Chosen
  <2> QED
    BY <1>1, <2>1, <2>2, UnmountKeeps
<1>8. CASE SeekReady(r)
  <2>1. wanted = "playback"
    BY <1>8 DEF SeekReady, Reply, PtzInv, Chosen
  <2> QED
    BY <1>1, <1>8, <2>1, UnmountKeeps DEF SeekReady
<1> QED
  BY <1>3, <1>4, <1>5, <1>6, <1>7, <1>8 DEF Answered

\* A step of one request through the server, which changes neither its place at the gate
\* nor where its answer leads.
LEMMA MovesOn ==
    ASSUME NEW r \in Requests, NEW new \in RequestTypes, PtzInv, SetReq(r, new),
           new.then = req[r].then, new.kind = req[r].kind, req[r].at # "free",
           new.at \in {"calling", "taken"} <=> req[r].at \in {"calling", "taken"}
    PROVE  PtzInv'
<1>1. req' \in [Requests -> RequestTypes] /\ req'[r] = new /\ \A q \in Requests \ {r} : req'[q] = req[q]
  BY DEF SetReq, PtzInv, PtzTypeOK
<1>2. UNCHANGED <<ptzClient, gate, camera>>
  BY DEF SetReq
<1>3. Gated'
  BY <1>1, <1>2 DEF PtzInv, Gated
<1>4. gate' \subseteq Requests /\ camera' \in {"still", "moving"}
  BY <1>2 DEF PtzInv, PtzTypeOK
<1>5. \A q \in Requests : req'[q].then = req[q].then
  BY <1>1
<1> QED
  BY <1>1, <1>2, <1>3, <1>4, <1>5, ServerKeeps

LEMMA ServerStepKeeps ==
    ASSUME NEW r \in Requests, PtzInv, ServerStep(r) \/ AbortArrives(r) \/ CameraTakes(r)
    PROVE  PtzInv'
<1>1. req \in [Requests -> RequestTypes] /\ req[r] \in RequestTypes
      /\ gate \subseteq Requests /\ camera \in {"still", "moving"}
  BY DEF PtzInv, PtzTypeOK
<1>2. CASE WireLoses(r)
  <2>1. [req[r] EXCEPT !.at = "answered"] \in RequestTypes
    BY <1>1 DEF RequestTypes
  <2> QED
    BY <1>1, <1>2, <2>1, MovesOn DEF WireLoses, RequestTypes
<1>3. CASE RunEnters(r)
  <2>1. [req[r] EXCEPT !.at = "gate"] \in RequestTypes
    BY <1>1 DEF RequestTypes
  <2> QED
    BY <1>1, <1>3, <2>1, MovesOn DEF RunEnters, RequestTypes
<1>4. CASE AbortArrives(r)
  <2>1. [req[r] EXCEPT !.cut = TRUE] \in RequestTypes
    BY <1>1 DEF RequestTypes
  <2> QED
    BY <1>1, <1>4, <2>1, MovesOn DEF AbortArrives, RequestTypes
<1>5. CASE StopEnters(r)
  <2>1. \A q \in Requests : Outdated(req[q]) \in RequestTypes /\ Outdated(req[q]).at = req[q].at
                          /\ Outdated(req[q]).then = req[q].then /\ Outdated(req[q]).kind = req[q].kind
    BY <1>1 DEF Outdated, RequestTypes
  <2>2. /\ req' \in [Requests -> RequestTypes]
        /\ \A q \in Requests : /\ req'[q].then = req[q].then /\ req'[q].kind = req[q].kind
                               /\ req'[q].at = IF q = r THEN "gate" ELSE req[q].at
    BY <1>5, <2>1 DEF StopEnters, RequestTypes
  <2>3. UNCHANGED <<ptzClient, gate, camera>> /\ req[r].at = "wire"
    BY <1>5 DEF StopEnters
  <2>4. Gated'
    BY <2>2, <2>3 DEF PtzInv, Gated
  <2> QED
    BY <1>1, <2>2, <2>3, <2>4, ServerKeeps
<1>6. CASE GateOpens(r)
  <2>1. /\ req' \in [Requests -> RequestTypes]
        /\ \A q \in Requests : /\ req'[q].then = req[q].then /\ req'[q].kind = req[q].kind
                               /\ q # r => req'[q].at = req[q].at
        /\ \/ req'[r].at = "answered" /\ gate' = gate
           \/ req'[r].at = "calling" /\ gate' = {r}
    BY <1>1, <1>6 DEF GateOpens, RequestTypes
  <2>2. req[r].at = "gate" /\ gate = {} /\ UNCHANGED <<ptzClient, camera>>
    BY <1>6 DEF GateOpens
  <2>3. Gated'
    BY <2>1, <2>2 DEF PtzInv, Gated
  <2> QED
    BY <1>1, <2>1, <2>2, <2>3, ServerKeeps
<1>7. CASE CallReturns(r)
  <2>1. /\ req' \in [Requests -> RequestTypes] /\ req'[r].at = "answered"
        /\ \A q \in Requests : /\ req'[q].then = req[q].then /\ req'[q].kind = req[q].kind
                               /\ q # r => req'[q].at = req[q].at
    <3>1. PICK ok \in BOOLEAN : req' = [req EXCEPT ![r].at = "answered", ![r].ok = ok]
      BY <1>7 DEF CallReturns
    <3>2. req' = [req EXCEPT ![r] = [req[r] EXCEPT !.at = "answered", !.ok = ok]]
      BY <1>1, <3>1
    <3>3. [req[r] EXCEPT !.at = "answered", !.ok = ok] \in RequestTypes
      BY <1>1 DEF RequestTypes
    <3> QED
      BY <1>1, <3>2, <3>3 DEF RequestTypes
  <2>2. gate' = gate \ {r} /\ UNCHANGED <<ptzClient, camera>> /\ req[r].at # "free"
    BY <1>7 DEF CallReturns
  <2>3. Gated'
    BY <2>1, <2>2 DEF PtzInv, Gated
  <2> QED
    BY <1>1, <2>1, <2>2, <2>3, ServerKeeps
<1>8. CASE CameraTakes(r)
  <2>1. /\ req' \in [Requests -> RequestTypes]
        /\ \A q \in Requests : /\ req'[q].then = req[q].then /\ req'[q].kind = req[q].kind
                               /\ req'[q].at = IF q = r THEN "taken" ELSE req[q].at
    <3> DEFINE new(q) == IF q = r THEN [req[q] EXCEPT !.at = "taken"]
                         ELSE [req[q] EXCEPT !.passed = @ \/ (req[r].kind = "stop" /\ req[q].aborted)]
    <3>1. \A q \in Requests : new(q) \in RequestTypes /\ new(q).then = req[q].then /\ new(q).kind = req[q].kind
                            /\ new(q).at = IF q = r THEN "taken" ELSE req[q].at
      BY <1>1 DEF RequestTypes
    <3>2. req' = [q \in Requests |-> new(q)]
      BY <1>8 DEF CameraTakes
    <3> HIDE DEF new
    <3> QED
      BY <3>1, <3>2
  <2>2. UNCHANGED <<ptzClient, gate>> /\ req[r].at = "calling" /\ camera' \in {"still", "moving"}
    BY <1>1, <1>8 DEF CameraTakes, RequestTypes, PtzInv, Gated
  <2>3. Gated'
    BY <2>1, <2>2 DEF PtzInv, Gated
  <2> QED
    BY <1>1, <2>1, <2>2, <2>3, ServerKeeps
<1> QED
  BY <1>2, <1>3, <1>4, <1>5, <1>6, <1>7, <1>8 DEF ServerStep

LEMMA NextKeeps == PtzInv /\ [PtzNext]_ptzVars => PtzInv'
<1> SUFFICES ASSUME PtzInv, [PtzNext]_ptzVars
             PROVE  PtzInv'
  OBVIOUS
<1>1. ASSUME NEW r \in Requests, NEW s \in Sources, Press(s, r)
      PROVE  PtzInv'
  BY <1>1, PressKeeps
<1>2. ASSUME NEW r \in Requests, NEW s \in Sources, Release(s, r)
      PROVE  PtzInv'
  <2>1. Stop(r, "none", req) /\ req[r].at = "free" /\ pressed' \subseteq pressed
        /\ UNCHANGED <<panel, mode, wanted, gate, camera>>
    BY <1>2 DEF Release, IsFree
  <2> QED
    BY <2>1, StopsKeep
<1>3. ASSUME NEW r \in Requests, StopPressed(r)
      PROVE  PtzInv'
  <2>1. Stop(r, "none", req) /\ req[r].at = "free" /\ pressed' \subseteq pressed
        /\ UNCHANGED <<panel, mode, wanted, gate, camera>>
    BY <1>3 DEF StopPressed, IsFree
  <2> QED
    BY <2>1, StopsKeep
<1>4. ASSUME NEW r \in Requests, ClosePanel(r)
      PROVE  PtzInv'
  <2>1. Stop(r, "close", req) /\ req[r].at = "free" /\ pressed' \subseteq pressed
        /\ panel = "open" /\ panel' = "closing" /\ UNCHANGED <<mode, wanted, gate, camera>>
    BY <1>4 DEF ClosePanel, IsFree
  <2> QED
    BY <2>1, StopsKeep
<1>5. ASSUME NEW r \in Requests, RenewalFires(r)
      PROVE  PtzInv'
  <2>1. Dispatch(r, req) /\ req[r].at = "free" /\ renewal
        /\ UNCHANGED <<pressed, active, panel, mode, wanted, gate, camera>>
    BY <1>5 DEF RenewalFires, IsFree
  <2>2. active /\ active' = TRUE /\ mode = "live" /\ pressed' # {} /\ pressed' \subseteq Sources
        /\ \A q \in Requests : ~Chained(q)
    BY <2>1 DEF PtzInv, PtzTypeOK, OneChain, Held, Chosen
  <2> QED
    BY <2>1, <2>2, DispatchKeeps
<1>6. ASSUME NEW r \in Requests, GotoRequested(r)
      PROVE  PtzInv'
  <2>1. Sent("goto", "none") \in RequestTypes /\ Sent("goto", "none").kind = "goto"
        /\ Sent("goto", "none").at = "wire" /\ Sent("goto", "none").then = "none"
    BY SentType DEF Thens
  <2>2. req' = [req EXCEPT ![r] = Sent("goto", "none")] /\ req[r].at = "free"
        /\ UNCHANGED <<pressed, active, renewal, panel, mode, wanted, gate, camera>>
    BY <1>6 DEF GotoRequested, IsFree
  <2>3. /\ req' \in [Requests -> RequestTypes]
        /\ req'[r].kind = "goto" /\ req'[r].at = "wire" /\ req'[r].then = "none"
        /\ \A q \in Requests \ {r} : req'[q] = req[q]
    BY <2>1, <2>2 DEF PtzInv, PtzTypeOK
  <2>4. PtzTypeOK'
    BY <2>2, <2>3 DEF PtzInv, PtzTypeOK
  <2>5. Gated'
    BY <2>2, <2>3 DEF PtzInv, Gated
  <2>6. Chosen'
    BY <2>2, <2>3 DEF PtzInv, Chosen
  <2>7. \A q \in Requests : Chained(q)' => Chained(q)
    BY <2>3 DEF Chained
  <2> QED
    BY <2>2, <2>4, <2>5, <2>6, <2>7 DEF PtzInv, OneChain, Held
<1>7. ASSUME NEW r \in Requests, PanelVanishes(r)
      PROVE  PtzInv'
  <2>1. Unmounted(r) /\ req[r].at = "free" /\ UNCHANGED <<mode, wanted, gate, camera>>
    BY <1>7 DEF PanelVanishes, IsFree
  <2>2. mode' \in {"live", "playback"} /\ (mode' = "playback" => wanted = "playback")
    BY <2>1 DEF PtzInv, PtzTypeOK, Chosen
  <2> QED
    BY <2>1, <2>2, UnmountKeeps
<1>8. ASSUME NEW r \in Requests, Seek(r) \/ Answered(r)
      PROVE  PtzInv'
  BY <1>8, SeekingKeeps, AnsweredKeeps
<1>9. ASSUME NEW r \in Requests, ServerStep(r) \/ AbortArrives(r) \/ CameraTakes(r)
      PROVE  PtzInv'
  BY <1>9, ServerStepKeeps
<1>10. CASE ReturnToLive
  BY <1>10, ReturnToLiveKeeps
<1>11. CASE OpenPanel \/ MoveTimesOut \/ UNCHANGED ptzVars
  <2>1. UNCHANGED <<pressed, active, renewal, mode, wanted, req, gate>>
    BY <1>11 DEF OpenPanel, MoveTimesOut, ptzVars, ptzClient
  <2>2. panel' = panel \/ (panel' = "open" /\ mode = "live")
    BY <1>11 DEF OpenPanel, MoveTimesOut, ptzVars, ptzClient
  <2>3. camera' \in {"still", "moving"}
    BY <1>11 DEF OpenPanel, MoveTimesOut, ptzVars, PtzInv, PtzTypeOK
  <2> QED
    BY <2>1, <2>2, <2>3 DEF PtzInv, PtzTypeOK, OneChain, Held, Gated, Chosen, Chained
<1> QED
  BY <1>1, <1>2, <1>3, <1>4, <1>5, <1>6, <1>7, <1>8, <1>9, <1>10, <1>11 DEF PtzNext

LEMMA InitHolds == PtzInit => PtzInv
BY FreeType DEF PtzInit, PtzInv, PtzTypeOK, OneChain, Held, Gated, Chosen, Chained

THEOREM PtzInvariant == PtzSpec => []PtzInv
<1> QED
  BY InitHolds, NextKeeps, PTL DEF PtzSpec

-----------------------------------------------------------------------------
(* The properties. *)

LEMMA AtMostOne ==
    ASSUME NEW S, \A a, b \in S : a = b
    PROVE  IsFiniteSet(S) /\ Cardinality(S) <= 1 /\ (S = {} => Cardinality(S) = 0)
<1>1. CASE S = {}
  BY <1>1, FS_EmptySet
<1>2. CASE S # {}
  <2>1. PICK a \in S : S = {a}
    BY <1>2
  <2>2. IsFiniteSet({a}) /\ Cardinality({a}) = 1
    BY FS_Singleton
  <2> QED
    BY <1>2, <2>1, <2>2
<1> QED
  BY <1>1, <1>2

\* Whatever is pressed, released and answered in between, one thing at most will send the
\* next move, and the controller's gate admits one device call at a time.
THEOREM OneMoveInFlight == PtzSpec => []OneMoveAtATime
<1>1. PtzInv => OneMoveAtATime
  <2> SUFFICES ASSUME PtzInv
               PROVE  OneMoveAtATime
    OBVIOUS
  <2> DEFINE chain == {r \in Requests : req[r].then \in {"renew", "start"}}
  <2>1. \A a, b \in chain : a = b
    BY DEF PtzInv, OneChain, Chained
  <2>2. Cardinality(chain) <= 1 /\ (chain = {} => Cardinality(chain) = 0)
        /\ Cardinality(chain) \in Nat
    BY <2>1, AtMostOne, FS_CardinalityType
  <2>3. renewal => chain = {}
    BY DEF PtzInv, OneChain, Chained
  <2>4. Cardinality(chain) + (IF renewal THEN 1 ELSE 0) <= 1
    BY <2>2, <2>3
  <2>5. Cardinality(gate) <= 1
    BY AtMostOne DEF PtzInv, Gated
  <2> QED
    BY <2>4, <2>5 DEF OneMoveAtATime, OneMoveChain, GateIsExclusive, PtzInv, Gated
<1> QED
  BY <1>1, PtzInvariant, PTL

\* The answer of an obsolete stop does not override the operator's last choice between
\* recorded playback and LIVE, and in playback nothing is left that would move the camera.
THEOREM TheLastChoiceWins == PtzSpec => []LastChoiceWins
<1>1. PtzInv => LastChoiceWins
  BY DEF PtzInv, LastChoiceWins, PlaybackMeansStopped, Chosen, Held, Chained
<1> QED
  BY <1>1, PtzInvariant, PTL

SendsOnlyHeld ==
    \A r \in Requests :
        (req'[r].kind = "move" /\ req'[r].at = "wire" /\ req[r].at # "wire") => pressed' # {} /\ mode' = "live"

\* A stop leaves no request a newly sent move.
LEMMA StopSendsNoMove ==
    ASSUME NEW r \in Requests, NEW then \in Thens, NEW requests \in [Requests -> RequestTypes],
           Stop(r, then, requests),
           \A q \in Requests : requests[q].at = req[q].at /\ requests[q].kind = req[q].kind
                             /\ requests[q].then \in {req[q].then, "none"}
    PROVE  \A q \in Requests : req'[q].kind = "move" /\ req'[q].at = "wire" => req[q].at = "wire"
BY StopSends DEF Stop, Touches

LEMMA SeekSendsNoMove ==
    ASSUME NEW r \in Requests, PtzInv, Seek(r)
    PROVE  \A q \in Requests : req'[q].kind = "move" /\ req'[q].at = "wire" => req[q].at = "wire"
<1> DEFINE requests == Forgotten(req, {"seek"})
<1>1. /\ requests \in [Requests -> RequestTypes]
      /\ \A q \in Requests : requests[q].at = req[q].at /\ requests[q].kind = req[q].kind
                           /\ requests[q].then = IF req[q].then \in {"seek"} THEN "none" ELSE req[q].then
  BY ForgottenType DEF PtzInv, PtzTypeOK
<1>2. Stop(r, "seek", requests) /\ "seek" \in Thens
  BY DEF Seek, Thens
<1> HIDE DEF requests
<1> QED
  BY <1>1, <1>2, StopSendsNoMove

LEMMA UnmountSendsNoMove ==
    ASSUME NEW r \in Requests, PtzInv, Unmounted(r)
    PROVE  \A q \in Requests : req'[q].kind = "move" /\ req'[q].at = "wire" => req[q].at = "wire"
<1>1. req \in [Requests -> RequestTypes] /\ "none" \in Thens /\ PtzTypeOK
  BY DEF PtzInv, PtzTypeOK, Thens
<1>2. CASE Stop(r, "none", req)
  BY <1>1, <1>2, StopSendsNoMove
<1>3. CASE req' = [req EXCEPT ![r] = Free]
  BY <1>1, <1>3, FreesOne
<1> QED
  BY <1>2, <1>3 DEF Unmounted

LEMMA HeldSends == PtzInv /\ [PtzNext]_ptzVars => SendsOnlyHeld
<1> SUFFICES ASSUME PtzInv, PtzNext
             PROVE  SendsOnlyHeld
  BY DEF ptzVars, SendsOnlyHeld
<1> DEFINE SendsNone == \A q \in Requests : req'[q].kind = "move" /\ req'[q].at = "wire" => req[q].at = "wire"
<1>1. req \in [Requests -> RequestTypes] /\ PtzTypeOK /\ "none" \in Thens /\ "close" \in Thens
  BY DEF PtzInv, PtzTypeOK, Thens
<1>2. SendsNone => SendsOnlyHeld
  BY DEF SendsOnlyHeld
<1> HIDE DEF SendsNone
<1>3. ASSUME NEW r \in Requests, NEW s \in Sources, Press(s, r)
      PROVE  SendsOnlyHeld
  BY <1>3 DEF Press, SendsOnlyHeld, PtzInv, PtzTypeOK, Chosen
<1>4. ASSUME NEW r \in Requests, RenewalFires(r)
      PROVE  SendsOnlyHeld
  BY <1>4 DEF RenewalFires, SendsOnlyHeld, PtzInv, PtzTypeOK, Held, Chosen
<1>5. ASSUME NEW r \in Requests, NEW then \in {"none", "close"}, Stop(r, then, req)
      PROVE  SendsNone
  BY <1>1, <1>5, StopSendsNoMove DEF SendsNone
<1>6. ASSUME NEW r \in Requests,
             (\E s \in Sources : Release(s, r)) \/ StopPressed(r) \/ ClosePanel(r) \/ MoveFailed(r)
      PROVE  SendsNone
  BY <1>5, <1>6 DEF Release, StopPressed, ClosePanel, MoveFailed
<1>7. ASSUME NEW r \in Requests, Seek(r)
      PROVE  SendsNone
  BY <1>7, SeekSendsNoMove DEF SendsNone
<1>8. ASSUME NEW r \in Requests, PanelVanishes(r) \/ CloseReady(r) \/ SeekReady(r)
      PROVE  SendsNone
  BY <1>8, UnmountSendsNoMove DEF SendsNone, PanelVanishes, CloseReady, SeekReady
<1>9. ASSUME NEW r \in Requests, req' = [req EXCEPT ![r] = Free]
      PROVE  SendsNone
  BY <1>1, <1>9, FreesOne DEF SendsNone
<1>10. ASSUME NEW r \in Requests, StartReady(r)
       PROVE  SendsOnlyHeld
  <2>1. active /\ mode = "live" /\ UNCHANGED <<pressed, mode>> /\ pressed # {}
    BY <1>10 DEF StartReady, Reply, PtzInv, PtzTypeOK, Held, Chosen, Chained
  <2> QED
    BY <2>1 DEF SendsOnlyHeld
<1>11. ASSUME NEW r \in Requests, GotoRequested(r)
       PROVE  SendsNone
  <2>1. Sent("goto", "none").kind = "goto"
    BY SentType DEF Thens
  <2> QED
    BY <1>1, <1>11, <2>1 DEF GotoRequested, SendsNone
<1>12. ASSUME NEW r \in Requests, ServerStep(r) \/ AbortArrives(r) \/ CameraTakes(r)
       PROVE  SendsNone
  <2>1. ASSUME NEW new \in RequestTypes, SetReq(r, new), new.at # "wire" \/ req[r].at = "wire"
        PROVE  SendsNone
    BY <1>1, <2>1 DEF SetReq, SendsNone
  <2>2. req[r] \in RequestTypes
    BY <1>1
  <2>3. CASE WireLoses(r) \/ RunEnters(r)
    <3>1. \A at \in {"answered", "gate"} : [req[r] EXCEPT !.at = at] \in RequestTypes
      BY <2>2 DEF RequestTypes
    <3> QED
      BY <2>1, <2>3, <3>1 DEF WireLoses, RunEnters
  <2>4. CASE AbortArrives(r)
    BY <1>1, <2>2, <2>4 DEF AbortArrives, SetReq, SendsNone, RequestTypes
  <2>5. CASE StopEnters(r)
    BY <1>1, <2>5 DEF StopEnters, Outdated, SendsNone, RequestTypes
  <2>6. CASE GateOpens(r)
    BY <1>1, <2>6 DEF GateOpens, SendsNone, RequestTypes
  <2>7. CASE CallReturns(r)
    BY <1>1, <2>7 DEF CallReturns, SendsNone, RequestTypes
  <2>8. CASE CameraTakes(r)
    BY <1>1, <2>8 DEF CameraTakes, SendsNone, RequestTypes
  <2> QED
    BY <1>12, <2>3, <2>4, <2>5, <2>6, <2>7, <2>8 DEF ServerStep
<1>13. CASE ReturnToLive
  <2>1. req' = Forgotten(req, {"seek"})
    BY <1>13 DEF ReturnToLive
  <2>2. \A q \in Requests : req'[q].at = req[q].at
    BY <1>1, <2>1, ForgottenType
  <2>3. SendsNone
    BY <2>2 DEF SendsNone
  <2> QED
    BY <1>2, <2>3
<1>14. CASE OpenPanel \/ MoveTimesOut
  <2>1. req' = req
    BY <1>14 DEF OpenPanel, MoveTimesOut
  <2>2. SendsNone
    BY <2>1 DEF SendsNone
  <2> QED
    BY <1>2, <2>2
<1>15. ASSUME NEW r \in Requests, Answered(r)
       PROVE  SendsOnlyHeld
  BY <1>2, <1>6, <1>8, <1>9, <1>10, <1>15 DEF Answered, Ignored, MoveSucceeded
<1> QED
  BY <1>2, <1>3, <1>4, <1>6, <1>7, <1>8, <1>11, <1>12, <1>13, <1>14, <1>15 DEF PtzNext

\* A move leaves the browser only while a button is held and the page is live: a late answer,
\* a renewal or a stop that was waited for sends none after the release.
THEOREM MovesOnlyWhileHeld == PtzSpec => NoMoveAfterRelease
<1>1. PtzInv /\ [PtzNext]_ptzVars => [SendsOnlyHeld]_ptzVars
  BY HeldSends
<1> QED
  BY <1>1, PtzInvariant, PTL DEF PtzSpec, NoMoveAfterRelease, SendsOnlyHeld
===============================================================================
