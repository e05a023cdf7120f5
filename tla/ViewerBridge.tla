------------------------------ MODULE ViewerBridge ------------------------------
(********************************************************************************)
(* The bridge between the Viewer's main process and the page in its window:     *)
(* main.ts on one side, preload.ts and viewerBridge.ts on the other.  It        *)
(* carries the command to resubscribe a stream, which any of the mounted tiles  *)
(* may take, and the window's full screen, which the page can ask for and the   *)
(* window system changes by itself.  What main sends stays in order; the        *)
(* answers to invoke come on their own.                                         *)
(********************************************************************************)
EXTENDS Naturals, Sequences, FiniteSets

CONSTANTS
    CommandKeys,   \* operation keys of the commands
    MaxCrossings,  \* bound: what the operator, the server and the window system do
    CalmReloads    \* a page is replaced only while the window is at rest

ASSUME BridgeAssumption == MaxCrossings \in Nat /\ CalmReloads \in BOOLEAN

Tiles == {"one", "two"}
Candidates(t) == IF t = "one" THEN {"p"} ELSE {"p", "q"}
Bridged == {"p", "q"}    \* streams
Unknown == {}          \* else the set of the one value
Known == {Unknown} \cup {{b} : b \in BOOLEAN}

VARIABLES
    main,      \* the window and the commands main waits for
    toPage,    \* what main has sent
    toMain,    \* what the page has sent
    replies,   \* answers to invoke
    doc,       \* the document: what is mounted, and its fullscreen observation
    stored,    \* sessionStorage
    crossings,
    took       \* history: the commands some tile has carried out

bridgeVars == <<main, toPage, toMain, replies, doc, stored, crossings, took>>

BridgeTypeOK ==
    /\ main \in [full : BOOLEAN, goal : BOOLEAN, waiting : SUBSET CommandKeys,
                 outcome : [CommandKeys -> {"none", "running", "succeeded", "failed"}]]
    /\ \A i \in 1..Len(toPage) : toPage[i].kind \in {"command", "fullscreen"}
    /\ \A i \in 1..Len(toMain) : toMain[i].kind \in {"result", "set"}
    /\ \A r \in replies : r.full \in BOOLEAN /\ r.gen \in Nat /\ r.rev \in Nat
    /\ doc \in [loaded : BOOLEAN, tiles : SUBSET Tiles, value : Known, rev : Nat, gen : Nat]
    /\ stored \in Known /\ crossings \in 0..MaxCrossings /\ took \subseteq CommandKeys

BridgeInit ==
    /\ main = [full |-> FALSE, goal |-> FALSE, waiting |-> {}, outcome |-> [k \in CommandKeys |-> "none"]]
    /\ toPage = <<>> /\ toMain = <<>> /\ replies = {}
    /\ doc = [loaded |-> FALSE, tiles |-> {}, value |-> Unknown, rev |-> 0, gen |-> 0]
    /\ stored = Unknown /\ crossings = 0 /\ took = {}

Crosses == crossings < MaxCrossings /\ crossings' = crossings + 1

-----------------------------------------------------------------------------
(* Commands.                                                                 *)

\* sendRendererCommand: a key that is being waited for is refused.
SendRendererCommand(k, s) ==
    /\ Crosses /\ main.outcome[k] \in {"none", "failed"}
    /\ IF k \in main.waiting
       THEN main' = [main EXCEPT !.outcome[k] = "failed"] /\ UNCHANGED toPage
       ELSE /\ main' = [main EXCEPT !.waiting = @ \cup {k}, !.outcome[k] = "running"]
            /\ toPage' = IF doc.loaded THEN Append(toPage, [kind |-> "command", key |-> k, stream |-> s]) ELSE toPage
    /\ UNCHANGED <<toMain, replies, doc, stored, took>>

\* A tile takes the commands for its own candidates.
Takes(s) == {t \in doc.tiles : s \in Candidates(t)}

\* Without a handler the preload does not listen, and main is left to its timeout.
CommandReachesPage ==
    /\ toPage # <<>> /\ Head(toPage).kind = "command"
    /\ LET c == Head(toPage)
       IN /\ took' = IF Takes(c.stream) # {} THEN took \cup {c.key} ELSE took
          /\ toMain' = IF doc.tiles = {} THEN toMain
                       ELSE Append(toMain, [kind |-> "result", key |-> c.key, ok |-> Takes(c.stream) # {}])
    /\ toPage' = Tail(toPage)
    /\ UNCHANGED <<main, replies, doc, stored, crossings>>

Resolved(k, ok) ==
    [main EXCEPT !.waiting = @ \ {k}, !.outcome[k] = IF ok THEN "succeeded" ELSE "failed"]

\* A result nobody waits for any more is dropped.
ResultReachesMain ==
    /\ toMain # <<>> /\ Head(toMain).kind = "result"
    /\ LET r == Head(toMain) IN main' = IF r.key \in main.waiting THEN Resolved(r.key, r.ok) ELSE main
    /\ toMain' = Tail(toMain)
    /\ UNCHANGED <<toPage, replies, doc, stored, crossings, took>>

CommandTimesOut(k) ==
    /\ k \in main.waiting /\ main' = Resolved(k, FALSE)
    /\ UNCHANGED <<toPage, toMain, replies, doc, stored, crossings, took>>

-----------------------------------------------------------------------------
(* The document.                                                             *)

AtRest == main.full = main.goal /\ replies = {} /\ toPage = <<>> /\ toMain = <<>>

\* A new document, by reload_live or by navigation.  What was on its way to the
\* old one is lost; the observation starts from what session storage holds.
PageReplaced ==
    /\ Crosses /\ doc.loaded /\ (CalmReloads => AtRest)
    /\ doc' = [doc EXCEPT !.loaded = FALSE, !.tiles = {}]
    /\ toPage' = <<>> /\ replies' = {}
    /\ toMain' = [i \in 1..Len(toMain) |->
                    IF toMain[i].kind = "set" THEN [toMain[i] EXCEPT !.gen = 0] ELSE toMain[i]]
    /\ UNCHANGED <<main, stored, took>>

FullscreenObservation == [loaded |-> TRUE, tiles |-> {}, value |-> stored, rev |-> 0, gen |-> 0]

PageLoaded ==
    /\ ~doc.loaded /\ doc' = FullscreenObservation
    /\ UNCHANGED <<main, toPage, toMain, replies, stored, crossings, took>>

\* A tile mounts (subscribeViewerCommands) or unmounts.
TileMounts(t) ==
    /\ Crosses /\ doc.loaded
    /\ doc' = [doc EXCEPT !.tiles = IF t \in @ THEN @ \ {t} ELSE @ \cup {t}]
    /\ UNCHANGED <<main, toPage, toMain, replies, stored, took>>

-----------------------------------------------------------------------------
(* Full screen.                                                              *)

\* requestViewerFullscreen
RequestViewerFullscreen(f) ==
    /\ Crosses /\ doc.loaded
    /\ doc' = [doc EXCEPT !.gen = @ + 1]
    /\ toMain' = Append(toMain, [kind |-> "set", full |-> f, gen |-> doc.gen + 1, rev |-> doc.rev])
    /\ UNCHANGED <<main, toPage, replies, stored, took>>

Event(full) == IF doc.loaded THEN Append(toPage, [kind |-> "fullscreen", full |-> full]) ELSE toPage

\* The window obeys at once, or answers before it has changed.
SetReachesMain ==
    /\ toMain # <<>> /\ Head(toMain).kind = "set"
    /\ LET r == Head(toMain) IN
       \E now \in {main.full, r.full} :
           /\ main' = [main EXCEPT !.goal = r.full, !.full = now]
           /\ toPage' = IF now # main.full THEN Event(now) ELSE toPage
           /\ replies' = IF r.gen = 0 THEN replies ELSE replies \cup {[full |-> now, gen |-> r.gen, rev |-> r.rev]}
    /\ toMain' = Tail(toMain)
    /\ UNCHANGED <<doc, stored, crossings, took>>

WindowSettles ==
    /\ main.full # main.goal
    /\ main' = [main EXCEPT !.full = main.goal] /\ toPage' = Event(main.goal)
    /\ UNCHANGED <<toMain, replies, doc, stored, crossings, took>>

\* The user or the window system leaves or enters the full screen.
WindowChanges ==
    /\ Crosses /\ main.full = main.goal /\ (CalmReloads => doc.loaded)
    /\ main' = [main EXCEPT !.full = ~@, !.goal = ~@] /\ toPage' = Event(~main.full)
    /\ UNCHANGED <<toMain, replies, doc, stored, took>>

\* publishFullscreenObservation
Published(d, full) == doc' = [d EXCEPT !.value = {full}] /\ stored' = {full}

EventReachesPage ==
    /\ toPage # <<>> /\ Head(toPage).kind = "fullscreen"
    /\ Published([doc EXCEPT !.rev = @ + 1], Head(toPage).full)
    /\ toPage' = Tail(toPage)
    /\ UNCHANGED <<main, toMain, replies, crossings, took>>

\* a mutant: only a newer request outdates an answer, an event does not
IsCurrentLoosely(r) == r.gen = doc.gen
IsCurrent(r) == r.gen = doc.gen /\ r.rev = doc.rev

ReplyReachesPage(r) ==
    /\ r \in replies /\ replies' = replies \ {r}
    /\ IF IsCurrent(r) THEN Published(doc, r.full) ELSE UNCHANGED <<doc, stored>>
    /\ UNCHANGED <<main, toPage, toMain, crossings, took>>

BridgeNext ==
    \/ CommandReachesPage \/ ResultReachesMain \/ PageReplaced \/ PageLoaded
    \/ SetReachesMain \/ WindowSettles \/ WindowChanges \/ EventReachesPage
    \/ \E k \in CommandKeys : CommandTimesOut(k) \/ \E s \in Bridged : SendRendererCommand(k, s)
    \/ \E t \in Tiles : TileMounts(t)
    \/ \E f \in BOOLEAN : RequestViewerFullscreen(f)
    \/ \E r \in replies : ReplyReachesPage(r)

BridgeSpec == BridgeInit /\ [][BridgeNext]_bridgeVars

-----------------------------------------------------------------------------
\* What main reports to the Service as done was done by a tile of the page.
ResultIsEarned == \A k \in CommandKeys : main.outcome[k] = "succeeded" => k \in took

\* Whatever the order in which answers and events arrive: once nothing is under
\* way, what the page and its session hold about the full screen is so.
FullscreenIsKnown ==
    doc.loaded /\ AtRest =>
        doc.value \cup stored \subseteq {main.full}

\* The page and the main process agree (main.ts, preload.ts, viewerBridge.ts).
BridgeAgrees == ResultIsEarned /\ FullscreenIsKnown
===============================================================================
