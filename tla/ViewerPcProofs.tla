---------------------------- MODULE ViewerPcProofs ----------------------------
(*****************************************************************************)
(* Proofs about the Viewer on its PC: the bridge between the shell and its   *)
(* live page, for any number of messages that cross it, the tool that        *)
(* operates the PCs, for any set of operations at once, and the process that *)
(* keeps the live page in touch with the service, for any number of calls,   *)
(* connections, outages and clicks.                                          *)
(*                                                                           *)
(* The two sides of the bridge agree when nothing is under way, but that     *)
(* is not inductive: what is under way has to say the truth too.  The        *)
(* invariant follows the messages: the last event the shell posted carries   *)
(* the mode of the window, the answer to the command that still runs is      *)
(* about what the page did, and nothing under way comes from a later load    *)
(* of the page than the one there is.                                        *)
(*                                                                           *)
(* What the tool reports of an operation is inductive once one says what     *)
(* each place of its chain of remote calls knows of the PC (Sound) and how   *)
(* two pushes of one name stand to each other (PushesApart).                 *)
(*                                                                           *)
(* That the process never sits without a connection, a timer and a call is   *)
(* proved where connects do not overlap: what waits on a connection waits on *)
(* the one in use (AllFit), the setup page is up where a call ended in it    *)
(* (SetupIsShown), and some call that is not a heartbeat ends in a           *)
(* connection that is kept, in the timer or in the setup page (Pursued).     *)
(*****************************************************************************)
EXTENDS ViewerBridge, WindowsTarget, ViewerApp, SequenceTheorems, TLAPS

-----------------------------------------------------------------------------
(* Sequences of messages.                                                  *)

LEMMA Appended ==
    ASSUME NEW S, NEW s \in Seq(S), NEW m \in S
    PROVE  /\ Append(s, m) \in Seq(S) /\ Len(Append(s, m)) = Len(s) + 1 /\ Append(s, m) # <<>>
           /\ \A i \in 1..Len(s) : Append(s, m)[i] = s[i]
           /\ Append(s, m)[Len(s) + 1] = m
BY AppendProperties

LEMMA TakenOff ==
    ASSUME NEW S, NEW s \in Seq(S), s # <<>>
    PROVE  /\ Head(s) \in S /\ Head(s) = s[1] /\ Len(s) \in Nat /\ Len(s) >= 1
           /\ Tail(s) \in Seq(S) /\ Len(Tail(s)) = Len(s) - 1
           /\ \A i \in 1..(Len(s) - 1) : Tail(s)[i] = s[i + 1]
BY HeadTailProperties, EmptySeq

LEMMA Nothing ==
    ASSUME NEW S
    PROVE  <<>> \in Seq(S) /\ Len(<<>>) = 0
OBVIOUS

-----------------------------------------------------------------------------
(* The bridge.                                                             *)

ToPageMessages ==
    [kind : {"command"}, key : CommandKeys, stream : Bridged] \cup [kind : {"fullscreen"}, full : BOOLEAN]
ToMainMessages ==
    [kind : {"result"}, key : CommandKeys, ok : BOOLEAN]
    \cup [kind : {"set"}, full : BOOLEAN, gen : Nat, rev : Nat]
Replies == [full : BOOLEAN, gen : Nat, rev : Nat]

MainValues == [full : BOOLEAN, goal : BOOLEAN, waiting : SUBSET CommandKeys,
               outcome : [CommandKeys -> {"none", "running", "succeeded", "failed"}]]
DocValues == [loaded : BOOLEAN, tiles : SUBSET Tiles, value : Known, rev : Nat, gen : Nat]

\* BridgeTypeOK, and what the messages carry.
BridgeTypes ==
    /\ main \in MainValues
    /\ toPage \in Seq(ToPageMessages) /\ toMain \in Seq(ToMainMessages)
    /\ replies \subseteq Replies
    /\ doc \in DocValues
    /\ stored \in Known /\ crossings \in 0..MaxCrossings /\ took \subseteq CommandKeys

\* A tile that reports success has carried the command out.
ResultsAreEarned ==
    \A i \in 1..Len(toMain) : toMain[i].kind = "result" /\ toMain[i].ok => toMain[i].key \in took

EarnedInv == BridgeTypes /\ ResultsAreEarned /\ ResultIsEarned

\* The full screen events on their way, and that the last of them is true.
ModeEvents(q) == {i \in 1..Len(q) : q[i].kind = "fullscreen"}
EventsAreTrue(q, full) == \A i \in ModeEvents(q) : (\A j \in ModeEvents(q) : j <= i) => q[i].full = full

NotLoadedAtRest == ~doc.loaded => AtRest
LastEventIsTrue == EventsAreTrue(toPage, main.full)
HeldIsTrue == ModeEvents(toPage) = {} => doc.value \cup stored \subseteq {main.full}
CurrentAnswerIsTrue == \A r \in replies : IsCurrent(r) /\ ModeEvents(toPage) = {} => r.full = main.full
NothingFromTheFuture ==
    /\ \A r \in replies : r.gen <= doc.gen /\ r.rev <= doc.rev
    /\ \A i \in 1..Len(toMain) : toMain[i].kind = "set" => toMain[i].gen <= doc.gen /\ toMain[i].rev <= doc.rev

KnownInv ==
    /\ BridgeTypes
    /\ NotLoadedAtRest
    /\ LastEventIsTrue
    /\ HeldIsTrue
    /\ CurrentAnswerIsTrue
    /\ NothingFromTheFuture

-----------------------------------------------------------------------------
LEMMA BridgeTypesSuffice == BridgeTypes => BridgeTypeOK
<1> SUFFICES ASSUME BridgeTypes PROVE BridgeTypeOK
  OBVIOUS
<1>1. \A i \in 1..Len(toPage) : toPage[i] \in ToPageMessages
  BY DEF BridgeTypes
<1>2. \A i \in 1..Len(toMain) : toMain[i] \in ToMainMessages
  BY DEF BridgeTypes
<1>3. \A i \in 1..Len(toPage) : toPage[i].kind \in {"command", "fullscreen"}
  BY <1>1 DEF ToPageMessages
<1>4. \A i \in 1..Len(toMain) : toMain[i].kind \in {"result", "set"}
  BY <1>2 DEF ToMainMessages
<1>5. \A r \in replies : r.full \in BOOLEAN /\ r.gen \in Nat /\ r.rev \in Nat
  BY DEF BridgeTypes, Replies
<1> QED
  BY <1>3, <1>4, <1>5 DEF BridgeTypes, BridgeTypeOK, MainValues, DocValues

LEMMA BridgeTypesInit == BridgeInit => BridgeTypes
BY BridgeAssumption, Nothing DEF BridgeInit, BridgeTypes, MainValues, DocValues, Known, Unknown

\* An action of the operator, the server or the window system is counted.
LEMMA CrossingCounted ==
    ASSUME crossings \in 0..MaxCrossings, Crosses
    PROVE  crossings' \in 0..MaxCrossings
BY BridgeAssumption DEF Crosses

LEMMA ResolvedTyped ==
    ASSUME main \in MainValues, NEW k \in CommandKeys, NEW ok \in BOOLEAN
    PROVE  Resolved(k, ok) \in MainValues
BY DEF Resolved, MainValues

LEMMA EventTyped ==
    ASSUME BridgeTypes, NEW full \in BOOLEAN
    PROVE  Event(full) \in Seq(ToPageMessages)
<1>1. [kind |-> "fullscreen", full |-> full] \in ToPageMessages
  BY DEF ToPageMessages
<1> QED
  BY <1>1, Appended DEF Event, BridgeTypes

LEMMA BridgeKeepsTypes ==
    ASSUME BridgeTypes, [BridgeNext]_bridgeVars
    PROVE  BridgeTypes'
<1> USE DEF BridgeTypes
<1>1. ASSUME NEW k \in CommandKeys, NEW s \in Bridged, SendRendererCommand(k, s) PROVE BridgeTypes'
  <2>1. crossings' \in 0..MaxCrossings
    BY <1>1, CrossingCounted DEF SendRendererCommand
  <2>2. main' \in MainValues
    <3>1. CASE k \in main.waiting
      BY <1>1, <3>1 DEF SendRendererCommand, MainValues
    <3>2. CASE k \notin main.waiting
      <4>1. main' = [main EXCEPT !.waiting = main.waiting \cup {k}, !.outcome[k] = "running"]
        BY <1>1, <3>2 DEF SendRendererCommand
      <4>2. main.waiting \cup {k} \in SUBSET CommandKeys
        BY DEF MainValues
      <4> QED
        BY <4>1, <4>2 DEF MainValues
    <3> QED
      BY <3>1, <3>2
  <2>3. [kind |-> "command", key |-> k, stream |-> s] \in ToPageMessages
    BY DEF ToPageMessages
  <2>4. toPage' \in Seq(ToPageMessages)
    <3>1. toPage' = toPage \/ toPage' = Append(toPage, [kind |-> "command", key |-> k, stream |-> s])
      BY <1>1, Zenon DEF SendRendererCommand
    <3> DEFINE m == [kind |-> "command", key |-> k, stream |-> s]
    <3>2. m \in ToPageMessages /\ (toPage' = toPage \/ toPage' = Append(toPage, m))
      BY <2>3, <3>1
    <3>3. toPage \in Seq(ToPageMessages)
      OBVIOUS
    <3> HIDE DEF m
    <3>4. Append(toPage, m) \in Seq(ToPageMessages)
      BY <3>2, <3>3, Appended
    <3> QED
      BY <3>2, <3>3, <3>4
  <2> QED
    BY <1>1, <2>1, <2>2, <2>4 DEF SendRendererCommand
<1>2. ASSUME CommandReachesPage PROVE BridgeTypes'
  <2>1. /\ Head(toPage) \in ToPageMessages /\ Tail(toPage) \in Seq(ToPageMessages)
        /\ Head(toPage).kind = "command"
    BY <1>2, TakenOff DEF CommandReachesPage
  <2>2. Head(toPage).key \in CommandKeys
    BY <2>1 DEF ToPageMessages
  <2>3. [kind |-> "result", key |-> Head(toPage).key, ok |-> Takes(Head(toPage).stream) # {}] \in ToMainMessages
    BY <2>2 DEF ToMainMessages
  <2>4. toMain' \in Seq(ToMainMessages)
    BY <1>2, <2>3, Appended DEF CommandReachesPage
  <2>5. took' \subseteq CommandKeys
    BY <1>2, <2>2 DEF CommandReachesPage
  <2> QED
    BY <1>2, <2>1, <2>4, <2>5 DEF CommandReachesPage
<1>3. ASSUME ResultReachesMain PROVE BridgeTypes'
  <2>1. /\ Head(toMain) \in ToMainMessages /\ Tail(toMain) \in Seq(ToMainMessages)
        /\ Head(toMain).kind = "result"
    BY <1>3, TakenOff DEF ResultReachesMain
  <2>2. Head(toMain).key \in CommandKeys /\ Head(toMain).ok \in BOOLEAN
    BY <2>1 DEF ToMainMessages
  <2>3. main' \in MainValues
    BY <1>3, <2>2, ResolvedTyped DEF ResultReachesMain
  <2> QED
    BY <1>3, <2>1, <2>3 DEF ResultReachesMain
<1>4. ASSUME NEW k \in CommandKeys, CommandTimesOut(k) PROVE BridgeTypes'
  BY <1>4, ResolvedTyped DEF CommandTimesOut
<1>5. ASSUME PageReplaced PROVE BridgeTypes'
  <2>1. crossings' \in 0..MaxCrossings
    BY <1>5, CrossingCounted DEF PageReplaced
  <2>2. Len(toMain) \in Nat /\ \A i \in 1..Len(toMain) : toMain[i] \in ToMainMessages
    OBVIOUS
  <2>3. \A i \in 1..Len(toMain) :
           (IF toMain[i].kind = "set" THEN [toMain[i] EXCEPT !.gen = 0] ELSE toMain[i]) \in ToMainMessages
    <3>1. ASSUME NEW m \in ToMainMessages, m.kind = "set"
          PROVE  [m EXCEPT !.gen = 0] \in ToMainMessages
      BY <3>1 DEF ToMainMessages
    <3> QED
      BY <2>2, <3>1
  <2>4. toMain' \in Seq(ToMainMessages)
    BY <1>5, <2>2, <2>3 DEF PageReplaced
  <2>5. doc' \in DocValues
    BY <1>5 DEF PageReplaced, DocValues
  <2> QED
    BY <1>5, <2>1, <2>4, <2>5, Nothing DEF PageReplaced
<1>6. ASSUME PageLoaded PROVE BridgeTypes'
  BY <1>6 DEF PageLoaded, FullscreenObservation, DocValues
<1>7. ASSUME NEW t \in Tiles, TileMounts(t) PROVE BridgeTypes'
  <2>1. crossings' \in 0..MaxCrossings
    BY <1>7, CrossingCounted DEF TileMounts
  <2>2. doc' \in DocValues
    BY <1>7 DEF TileMounts, DocValues
  <2> QED
    BY <1>7, <2>1, <2>2 DEF TileMounts
<1>8. ASSUME NEW f \in BOOLEAN, RequestViewerFullscreen(f) PROVE BridgeTypes'
  <2>1. crossings' \in 0..MaxCrossings
    BY <1>8, CrossingCounted DEF RequestViewerFullscreen
  <2>2. doc' \in DocValues /\ doc.gen + 1 \in Nat /\ doc.rev \in Nat
    BY <1>8 DEF RequestViewerFullscreen, DocValues
  <2>3. [kind |-> "set", full |-> f, gen |-> doc.gen + 1, rev |-> doc.rev] \in ToMainMessages
    BY <2>2 DEF ToMainMessages
  <2>4. toMain' \in Seq(ToMainMessages)
    BY <1>8, <2>3, Appended DEF RequestViewerFullscreen
  <2> QED
    BY <1>8, <2>1, <2>2, <2>4 DEF RequestViewerFullscreen
<1>9. ASSUME SetReachesMain PROVE BridgeTypes'
  <2>1. /\ Head(toMain) \in ToMainMessages /\ Tail(toMain) \in Seq(ToMainMessages)
        /\ Head(toMain).kind = "set"
    BY <1>9, TakenOff DEF SetReachesMain
  <2>2. Head(toMain).full \in BOOLEAN /\ Head(toMain).gen \in Nat /\ Head(toMain).rev \in Nat
    BY <2>1 DEF ToMainMessages
  <2>3. PICK now \in {main.full, Head(toMain).full} :
          /\ main' = [main EXCEPT !.goal = Head(toMain).full, !.full = now]
          /\ toPage' = IF now # main.full THEN Event(now) ELSE toPage
          /\ replies' = IF Head(toMain).gen = 0 THEN replies
                        ELSE replies \cup {[full |-> now, gen |-> Head(toMain).gen, rev |-> Head(toMain).rev]}
    BY <1>9 DEF SetReachesMain
  <2>4. now \in BOOLEAN
    BY <2>2, <2>3 DEF MainValues
  <2>5. main' \in MainValues
    BY <2>2, <2>3, <2>4 DEF MainValues
  <2>6. toPage' \in Seq(ToPageMessages)
    BY <2>3, <2>4, EventTyped
  <2>7. replies' \subseteq Replies
    BY <2>2, <2>3, <2>4 DEF Replies
  <2> QED
    BY <1>9, <2>1, <2>5, <2>6, <2>7 DEF SetReachesMain
<1>10. ASSUME WindowSettles PROVE BridgeTypes'
  <2>1. main.goal \in BOOLEAN /\ main' \in MainValues
    BY <1>10 DEF WindowSettles, MainValues
  <2>2. toPage' \in Seq(ToPageMessages)
    BY <1>10, <2>1, EventTyped DEF WindowSettles
  <2> QED
    BY <1>10, <2>1, <2>2 DEF WindowSettles
<1>11. ASSUME WindowChanges PROVE BridgeTypes'
  <2>1. (~main.full) \in BOOLEAN /\ main' \in MainValues
    <3>1. \A a, b \in BOOLEAN : [main EXCEPT !.full = a, !.goal = b] \in MainValues
      BY DEF MainValues
    <3>2. (~main.full) \in BOOLEAN /\ (~main.goal) \in BOOLEAN
      OBVIOUS
    <3>3. main' = [main EXCEPT !.full = ~main.full, !.goal = ~main.goal]
      BY <1>11, Zenon DEF WindowChanges
    <3> QED
      BY <3>1, <3>2, <3>3, Zenon
  <2>2. toPage' \in Seq(ToPageMessages)
    BY <1>11, <2>1, EventTyped DEF WindowChanges
  <2>3. crossings' \in 0..MaxCrossings
    BY <1>11, CrossingCounted DEF WindowChanges
  <2> QED
    BY <1>11, <2>1, <2>2, <2>3 DEF WindowChanges
<1>12. ASSUME EventReachesPage PROVE BridgeTypes'
  <2>1. /\ Head(toPage) \in ToPageMessages /\ Tail(toPage) \in Seq(ToPageMessages)
        /\ Head(toPage).kind = "fullscreen"
    BY <1>12, TakenOff DEF EventReachesPage
  <2>2. Head(toPage).full \in BOOLEAN
    BY <2>1 DEF ToPageMessages
  <2>3. {Head(toPage).full} \in Known
    BY <2>2 DEF Known
  <2>4. [doc EXCEPT !.rev = @ + 1] \in DocValues
    BY DEF DocValues
  <2>5. \A d \in DocValues, v \in Known : [d EXCEPT !.value = v] \in DocValues
    BY DEF DocValues
  <2>6. /\ doc' = [[doc EXCEPT !.rev = @ + 1] EXCEPT !.value = {Head(toPage).full}]
        /\ stored' = {Head(toPage).full}
    BY <1>12, Zenon DEF EventReachesPage, Published
  <2>7. doc' \in DocValues /\ stored' \in Known
    BY <2>3, <2>4, <2>5, <2>6, Zenon
  <2> QED
    BY <1>12, <2>1, <2>7 DEF EventReachesPage
<1>13. ASSUME NEW r \in replies, ReplyReachesPage(r) PROVE BridgeTypes'
  <2>1. {r.full} \in Known
    BY DEF Replies, Known
  <2>2. doc' \in DocValues /\ stored' \in Known
    BY <1>13, <2>1 DEF ReplyReachesPage, Published, DocValues
  <2> QED
    BY <1>13, <2>2 DEF ReplyReachesPage
<1>14. ASSUME UNCHANGED bridgeVars PROVE BridgeTypes'
  BY <1>14 DEF bridgeVars
<1> QED
  BY <1>1, <1>2, <1>3, <1>4, <1>5, <1>6, <1>7, <1>8, <1>9, <1>10, <1>11, <1>12, <1>13, <1>14 DEF BridgeNext

\* The types of the state after a step.
LEMMA BridgeTypesNext == BridgeTypes' => BridgeTypeOK'
BY BridgeTypesSuffice, PTL

-----------------------------------------------------------------------------
(* Results.                                                                *)

\* The messages that stay in the queue keep their promise while took only grows.
LEMMA EarnedAfterTail ==
    ASSUME BridgeTypes, ResultsAreEarned, toMain # <<>>, toMain' = Tail(toMain), took' = took
    PROVE  ResultsAreEarned'
<1>1. /\ Len(toMain) \in Nat /\ Len(Tail(toMain)) = Len(toMain) - 1
      /\ \A i \in 1..(Len(toMain) - 1) : Tail(toMain)[i] = toMain[i + 1]
  BY TakenOff DEF BridgeTypes
<1>2. \A i \in 1..Len(toMain') : toMain'[i] = toMain[i + 1] /\ i + 1 \in 1..Len(toMain)
  BY <1>1
<1> QED
  BY <1>2 DEF ResultsAreEarned

LEMMA EarnedAfterAppend ==
    ASSUME BridgeTypes, ResultsAreEarned, NEW m \in ToMainMessages,
           toMain' = Append(toMain, m), took \subseteq took',
           m.kind = "result" /\ m.ok => m.key \in took'
    PROVE  ResultsAreEarned'
<1>1. /\ Len(toMain) \in Nat /\ Len(toMain') = Len(toMain) + 1
      /\ \A i \in 1..Len(toMain) : toMain'[i] = toMain[i]
      /\ toMain'[Len(toMain) + 1] = m
  BY Appended DEF BridgeTypes
<1>2. ASSUME NEW i \in 1..Len(toMain') 
      PROVE  toMain'[i] = m \/ (i \in 1..Len(toMain) /\ toMain'[i] = toMain[i])
  <2>1. i = Len(toMain) + 1 \/ i \in 1..Len(toMain)
    BY <1>1
  <2> QED
    BY <2>1, <1>1
<1> QED
  BY <1>2 DEF ResultsAreEarned

LEMMA BridgeKeepsEarned ==
    ASSUME EarnedInv, [BridgeNext]_bridgeVars
    PROVE  EarnedInv'
<1> USE DEF EarnedInv
<1>0. BridgeTypes'
  BY BridgeKeepsTypes
<1> SUFFICES ResultsAreEarned' /\ ResultIsEarned'
  BY <1>0
<1>1. ASSUME NEW k \in CommandKeys, NEW s \in Bridged, SendRendererCommand(k, s)
      PROVE  ResultsAreEarned' /\ ResultIsEarned'
  <2>1. toMain' = toMain /\ took' = took
    BY <1>1 DEF SendRendererCommand
  <2>2. \A j \in CommandKeys : main'.outcome[j] = "succeeded" => main.outcome[j] = "succeeded"
    <3>1. CASE k \in main.waiting
      BY <1>1, <3>1 DEF SendRendererCommand, BridgeTypes, MainValues
    <3>2. CASE k \notin main.waiting
      <4>1. main' = [main EXCEPT !.waiting = main.waiting \cup {k}, !.outcome[k] = "running"]
        BY <1>1, <3>2 DEF SendRendererCommand
      <4> QED
        BY <4>1 DEF BridgeTypes, MainValues
    <3> QED
      BY <3>1, <3>2
  <2> QED
    BY <2>1, <2>2 DEF ResultsAreEarned, ResultIsEarned
<1>2. ASSUME CommandReachesPage PROVE ResultsAreEarned' /\ ResultIsEarned'
  <2> DEFINE c == Head(toPage)
             done == Takes(c.stream) # {}
             m == [kind |-> "result", key |-> c.key, ok |-> done]
  <2>1. c \in ToPageMessages /\ c.kind = "command"
    BY <1>2, TakenOff DEF CommandReachesPage, BridgeTypes
  <2>2. m \in ToMainMessages
    BY <2>1 DEF ToPageMessages, ToMainMessages
  <2>3. /\ took' = IF done THEN took \cup {c.key} ELSE took
        /\ toMain' = toMain \/ toMain' = Append(toMain, m)
        /\ main' = main
    BY <1>2, Zenon DEF CommandReachesPage
  <2>4. took \subseteq took' /\ (done => c.key \in took')
    BY <2>3
  <2>5. m.kind = "result" /\ m.ok => m.key \in took'
    BY <2>4
  <2>6. ResultsAreEarned'
    <3>1. CASE toMain' = toMain
      BY <3>1, <2>4 DEF ResultsAreEarned
    <3>2. CASE toMain' = Append(toMain, m)
      <4> HIDE DEF m
      <4> QED
        BY <3>2, <2>2, <2>4, <2>5, EarnedAfterAppend
    <3> QED
      BY <2>3, <3>1, <3>2
  <2>7. ResultIsEarned'
    BY <2>3, <2>4 DEF ResultIsEarned
  <2> QED
    BY <2>6, <2>7
<1>3. ASSUME ResultReachesMain PROVE ResultsAreEarned' /\ ResultIsEarned'
  <2> DEFINE r == Head(toMain)
  <2>1. /\ r \in ToMainMessages /\ r.kind = "result" /\ r = toMain[1] /\ 1 \in 1..Len(toMain)
    BY <1>3, TakenOff DEF ResultReachesMain, BridgeTypes
  <2>2. ResultsAreEarned'
    BY <1>3, EarnedAfterTail DEF ResultReachesMain
  <2>3. r.ok => r.key \in took
    BY <2>1 DEF ResultsAreEarned
  <2>4. main' = main \/ main' = Resolved(r.key, r.ok)
    BY <1>3, Zenon DEF ResultReachesMain
  <2>5. r.key \in CommandKeys /\ r.ok \in BOOLEAN
    BY <2>1 DEF ToMainMessages
  <2>6. ASSUME NEW k \in CommandKeys, main'.outcome[k] = "succeeded" PROVE k \in took
    <3>1. CASE main' = main
      BY <2>6, <3>1 DEF ResultIsEarned
    <3>2. CASE main' = Resolved(r.key, r.ok)
      <4>1. main'.outcome[k] = IF k = r.key THEN (IF r.ok THEN "succeeded" ELSE "failed") ELSE main.outcome[k]
        BY <3>2, <2>5 DEF Resolved, BridgeTypes, MainValues
      <4>2. CASE k = r.key
        BY <4>1, <4>2, <2>3, <2>6
      <4>3. CASE k # r.key
        BY <4>1, <4>3, <2>6 DEF ResultIsEarned
      <4> QED
        BY <4>2, <4>3
    <3> QED
      BY <2>4, <3>1, <3>2
  <2> QED
    BY <1>3, <2>2, <2>6 DEF ResultIsEarned, ResultReachesMain
<1>4. ASSUME NEW k \in CommandKeys, CommandTimesOut(k) PROVE ResultsAreEarned' /\ ResultIsEarned'
  <2>1. \A j \in CommandKeys : main'.outcome[j] = "succeeded" => main.outcome[j] = "succeeded"
    BY <1>4 DEF CommandTimesOut, Resolved, BridgeTypes, MainValues
  <2> QED
    BY <1>4, <2>1 DEF CommandTimesOut, ResultsAreEarned, ResultIsEarned
<1>5. ASSUME PageReplaced PROVE ResultsAreEarned' /\ ResultIsEarned'
  <2>1. Len(toMain) \in Nat /\ \A i \in 1..Len(toMain) : toMain[i] \in ToMainMessages
    BY DEF BridgeTypes
  <2>2. /\ Len(toMain') = Len(toMain)
        /\ \A i \in 1..Len(toMain) :
              toMain'[i] = IF toMain[i].kind = "set" THEN [toMain[i] EXCEPT !.gen = 0] ELSE toMain[i]
    BY <1>5, <2>1 DEF PageReplaced
  <2>3. \A i \in 1..Len(toMain) : toMain'[i].kind = "result" => toMain'[i] = toMain[i]
    BY <2>1, <2>2 DEF ToMainMessages
  <2> QED
    BY <1>5, <2>2, <2>3 DEF PageReplaced, ResultsAreEarned, ResultIsEarned
<1>6. ASSUME PageLoaded PROVE ResultsAreEarned' /\ ResultIsEarned'
  BY <1>6 DEF PageLoaded, ResultsAreEarned, ResultIsEarned
<1>7. ASSUME NEW t \in Tiles, TileMounts(t) PROVE ResultsAreEarned' /\ ResultIsEarned'
  BY <1>7 DEF TileMounts, ResultsAreEarned, ResultIsEarned
<1>8. ASSUME NEW f \in BOOLEAN, RequestViewerFullscreen(f) PROVE ResultsAreEarned' /\ ResultIsEarned'
  <2> DEFINE m == [kind |-> "set", full |-> f, gen |-> doc.gen + 1, rev |-> doc.rev]
  <2>1. m \in ToMainMessages /\ m.kind # "result"
    BY DEF BridgeTypes, DocValues, ToMainMessages
  <2>2. toMain' = Append(toMain, m) /\ took' = took /\ main' = main
    BY <1>8 DEF RequestViewerFullscreen
  <2> HIDE DEF m
  <2>3. ResultsAreEarned'
    BY <2>1, <2>2, EarnedAfterAppend
  <2> QED
    BY <2>2, <2>3 DEF ResultIsEarned
<1>9. ASSUME SetReachesMain PROVE ResultsAreEarned' /\ ResultIsEarned'
  <2>1. ResultsAreEarned'
    BY <1>9, EarnedAfterTail DEF SetReachesMain
  <2>2. main'.outcome = main.outcome /\ took' = took
    BY <1>9 DEF SetReachesMain, BridgeTypes, MainValues
  <2> QED
    BY <2>1, <2>2 DEF ResultIsEarned
<1>10. ASSUME WindowSettles \/ WindowChanges PROVE ResultsAreEarned' /\ ResultIsEarned'
  <2>1. main'.outcome = main.outcome /\ took' = took /\ toMain' = toMain
    BY <1>10 DEF WindowSettles, WindowChanges, BridgeTypes, MainValues
  <2> QED
    BY <2>1 DEF ResultsAreEarned, ResultIsEarned
<1>11. ASSUME EventReachesPage PROVE ResultsAreEarned' /\ ResultIsEarned'
  BY <1>11 DEF EventReachesPage, ResultsAreEarned, ResultIsEarned
<1>12. ASSUME NEW r \in replies, ReplyReachesPage(r) PROVE ResultsAreEarned' /\ ResultIsEarned'
  BY <1>12 DEF ReplyReachesPage, ResultsAreEarned, ResultIsEarned
<1>13. ASSUME UNCHANGED bridgeVars PROVE ResultsAreEarned' /\ ResultIsEarned'
  BY <1>13 DEF bridgeVars, ResultsAreEarned, ResultIsEarned
<1> QED
  BY <1>1, <1>2, <1>3, <1>4, <1>5, <1>6, <1>7, <1>8, <1>9, <1>10, <1>11, <1>12, <1>13 DEF BridgeNext

LEMMA EarnedInitially == BridgeInit => EarnedInv
BY BridgeTypesInit DEF BridgeInit, EarnedInv, ResultsAreEarned, ResultIsEarned

\* For every number of commands and of crossings, however pages are replaced: what main
\* reports to the Service as done was done by a tile (sendRendererCommand in main.ts,
\* the handlers of preload.ts).
THEOREM ViewerReportsWhatWasDone == BridgeSpec => [](BridgeTypeOK /\ ResultIsEarned)
<1>1. EarnedInv => BridgeTypeOK /\ ResultIsEarned
  BY BridgeTypesSuffice DEF EarnedInv
<1> QED
  BY <1>1, EarnedInitially, BridgeKeepsEarned, PTL DEF BridgeSpec

-----------------------------------------------------------------------------
(* Full screen, while a page is only replaced at rest.                     *)

LEMMA EventsAfterAppend ==
    ASSUME NEW q \in Seq(ToPageMessages), NEW full \in BOOLEAN, NEW m \in ToPageMessages
    PROVE  /\ m.kind = "fullscreen" => /\ ModeEvents(Append(q, m)) # {}
                                      /\ EventsAreTrue(Append(q, m), m.full)
           /\ m.kind # "fullscreen" /\ EventsAreTrue(q, full) => EventsAreTrue(Append(q, m), full)
           /\ m.kind # "fullscreen" => (ModeEvents(Append(q, m)) = {} <=> ModeEvents(q) = {})
<1> DEFINE a == Append(q, m)
           n == Len(q)
<1>1. /\ n \in Nat /\ Len(a) = n + 1 /\ a[n + 1] = m
      /\ \A i \in 1..n : a[i] = q[i]
  BY Appended
<1>2. \A i : i \in ModeEvents(a) <=> i \in ModeEvents(q) \/ (i = n + 1 /\ m.kind = "fullscreen")
  BY <1>1 DEF ModeEvents
<1>3. \A i \in ModeEvents(q) : i \in Int /\ i <= n /\ a[i] = q[i]
  BY <1>1 DEF ModeEvents
<1> HIDE DEF a, n
<1>4. ASSUME m.kind = "fullscreen" PROVE ModeEvents(a) # {} /\ EventsAreTrue(a, m.full)
  <2>1. n + 1 \in ModeEvents(a)
    BY <1>2, <1>4
  <2>2. ASSUME NEW i \in ModeEvents(a), \A j \in ModeEvents(a) : j <= i PROVE a[i] = m
    <3>1. n + 1 <= i
      BY <2>1, <2>2
    <3>2. i \notin ModeEvents(q)
      BY <1>1, <1>3, <3>1
    <3> QED
      BY <1>1, <1>2, <3>2, <2>2
  <2> QED
    BY <2>1, <2>2 DEF EventsAreTrue
<1>5. ASSUME m.kind # "fullscreen" PROVE /\ ModeEvents(a) = ModeEvents(q)
                                         /\ EventsAreTrue(q, full) => EventsAreTrue(a, full)
  <2>1. ModeEvents(a) = ModeEvents(q)
    BY <1>2, <1>5
  <2> QED
    BY <2>1, <1>3 DEF EventsAreTrue
<1> QED
  BY <1>4, <1>5 DEF a

LEMMA EventsAfterTail ==
    ASSUME NEW q \in Seq(ToPageMessages), q # <<>>, NEW full \in BOOLEAN, EventsAreTrue(q, full)
    PROVE  /\ EventsAreTrue(Tail(q), full)
           /\ ModeEvents(Tail(q)) = {} /\ Head(q).kind = "fullscreen" => Head(q).full = full
           /\ Head(q).kind # "fullscreen" => (ModeEvents(Tail(q)) = {} <=> ModeEvents(q) = {})
<1> DEFINE t == Tail(q)
           n == Len(q)
<1>1. /\ n \in Nat /\ n >= 1 /\ Len(t) = n - 1 /\ q[1] = Head(q)
      /\ \A i \in 1..(n - 1) : t[i] = q[i + 1]
  BY TakenOff
<1>2. \A i \in Int : i \in ModeEvents(t) <=> i >= 1 /\ i + 1 \in ModeEvents(q)
  BY <1>1 DEF ModeEvents
<1>3. \A i \in ModeEvents(t) : i \in Int /\ t[i] = q[i + 1]
  BY <1>1 DEF ModeEvents
<1>4. \A i \in ModeEvents(q) : i \in Int /\ (i = 1 \/ i - 1 \in ModeEvents(t))
  <2> TAKE i \in ModeEvents(q)
  <2>1. i \in Int /\ i >= 1
    BY <1>1 DEF ModeEvents
  <2>2. CASE i # 1
    BY <2>1, <2>2, <1>2
  <2> QED
    BY <2>1, <2>2
<1>5. 1 \in ModeEvents(q) <=> Head(q).kind = "fullscreen"
  BY <1>1 DEF ModeEvents
<1> HIDE DEF t, n
<1>6. EventsAreTrue(t, full)
  <2> SUFFICES ASSUME NEW i \in ModeEvents(t), \A j \in ModeEvents(t) : j <= i PROVE t[i].full = full
    BY DEF EventsAreTrue
  <2>1. i \in Int /\ i >= 1 /\ i + 1 \in ModeEvents(q) /\ t[i] = q[i + 1]
    BY <1>2, <1>3
  <2>2. \A j \in ModeEvents(q) : j <= i + 1
    BY <1>4, <2>1
  <2> QED
    BY <2>1, <2>2 DEF EventsAreTrue
<1>7. ASSUME ModeEvents(t) = {}, Head(q).kind = "fullscreen" PROVE Head(q).full = full
  <2>1. 1 \in ModeEvents(q) /\ \A j \in ModeEvents(q) : j <= 1
    BY <1>4, <1>5, <1>7
  <2> QED
    BY <2>1, <1>1 DEF EventsAreTrue
<1>8. ASSUME Head(q).kind # "fullscreen" PROVE ModeEvents(t) = {} <=> ModeEvents(q) = {}
  <2>1. \A i \in ModeEvents(q) : i - 1 \in ModeEvents(t)
    BY <1>4, <1>5, <1>8
  <2>2. \A i \in ModeEvents(t) : i + 1 \in ModeEvents(q)
    BY <1>2, <1>3
  <2> QED
    BY <2>1, <2>2
<1> QED
  BY <1>6, <1>7, <1>8 DEF t

Truths == LastEventIsTrue /\ HeldIsTrue /\ CurrentAnswerIsTrue

\* The events and the window are as they were, and so is what the page holds.
LEMMA TruthsKept ==
    ASSUME Truths, ModeEvents(toPage') = {} <=> ModeEvents(toPage) = {}, EventsAreTrue(toPage', main.full),
           main'.full = main.full, replies' = replies, stored' = stored, doc'.value = doc.value,
           doc'.gen = doc.gen, doc'.rev = doc.rev
    PROVE  Truths'
BY DEF Truths, LastEventIsTrue, HeldIsTrue, CurrentAnswerIsTrue, IsCurrent

\* The window has changed while a page is there: an event is on its way.
LEMMA TruthsAnnounced ==
    ASSUME BridgeTypes, doc.loaded, NEW now \in BOOLEAN, main'.full = now, toPage' = Event(now)
    PROVE  Truths'
<1> DEFINE m == [kind |-> "fullscreen", full |-> now]
<1>1. m \in ToPageMessages /\ m.kind = "fullscreen" /\ m.full = now /\ toPage' = Append(toPage, m)
  BY DEF ToPageMessages, Event
<1> HIDE DEF m
<1>2. ModeEvents(toPage') # {} /\ EventsAreTrue(toPage', main'.full)
  BY <1>1, EventsAfterAppend DEF BridgeTypes
<1> QED
  BY <1>2 DEF Truths, LastEventIsTrue, HeldIsTrue, CurrentAnswerIsTrue

LEMMA BridgeKeepsTruths ==
    ASSUME KnownInv, CalmReloads, BridgeNext
    PROVE  Truths'
<1> USE DEF KnownInv
<1>0. Truths /\ main.full \in BOOLEAN /\ doc.rev \in Nat /\ doc.gen \in Nat
  BY DEF Truths, BridgeTypes, MainValues, DocValues
<1>a. EventsAreTrue(toPage, main.full)
  BY DEF LastEventIsTrue
<1>1. ASSUME NEW k \in CommandKeys, NEW s \in Bridged, SendRendererCommand(k, s) PROVE Truths'
  <2> DEFINE m == [kind |-> "command", key |-> k, stream |-> s]
  <2>1. m \in ToPageMessages /\ m.kind # "fullscreen"
    BY DEF ToPageMessages
  <2>2. toPage' = toPage \/ toPage' = Append(toPage, m)
    BY <1>1, Zenon DEF SendRendererCommand
  <2> HIDE DEF m
  <2>3. (ModeEvents(toPage') = {} <=> ModeEvents(toPage) = {}) /\ EventsAreTrue(toPage', main.full)
    <3>1. CASE toPage' = toPage
      BY <3>1, <1>a
    <3>2. CASE toPage' = Append(toPage, m)
      BY <3>2, <2>1, <1>0, <1>a, EventsAfterAppend DEF BridgeTypes
    <3> QED
      BY <2>2, <3>1, <3>2
  <2>4. main'.full = main.full
    <3>1. CASE k \in main.waiting
      BY <1>1, <3>1 DEF SendRendererCommand, BridgeTypes, MainValues
    <3>2. CASE k \notin main.waiting
      BY <1>1, <3>2 DEF SendRendererCommand, BridgeTypes, MainValues
    <3> QED
      BY <3>1, <3>2
  <2> QED
    BY <1>0, <1>1, <2>3, <2>4, TruthsKept DEF SendRendererCommand
<1>2. ASSUME CommandReachesPage PROVE Truths'
  <2>1. (ModeEvents(toPage') = {} <=> ModeEvents(toPage) = {}) /\ EventsAreTrue(toPage', main.full)
    BY <1>2, <1>0, <1>a, EventsAfterTail DEF CommandReachesPage, BridgeTypes
  <2> QED
    BY <1>0, <1>2, <2>1, TruthsKept DEF CommandReachesPage
<1>3. ASSUME ResultReachesMain \/ \E k \in CommandKeys : CommandTimesOut(k) PROVE Truths'
  <2>1. main'.full = main.full /\ UNCHANGED <<toPage, replies, doc, stored>>
    BY <1>3 DEF ResultReachesMain, CommandTimesOut, Resolved, BridgeTypes, MainValues
  <2> QED
    BY <1>0, <1>a, <2>1, TruthsKept
<1>4. ASSUME PageReplaced PROVE Truths'
  <2>1. /\ toPage' = toPage /\ replies' = {} /\ main' = main /\ stored' = stored
        /\ doc'.value = doc.value
    BY <1>4 DEF PageReplaced, AtRest, BridgeTypes, DocValues
  <2> QED
    BY <1>0, <2>1 DEF Truths, LastEventIsTrue, HeldIsTrue, CurrentAnswerIsTrue
<1>5. ASSUME PageLoaded PROVE Truths'
  <2>1. /\ toPage' = toPage /\ replies' = {} /\ main' = main /\ stored' = stored
        /\ doc'.value = stored
    BY <1>5 DEF PageLoaded, FullscreenObservation, NotLoadedAtRest, AtRest
  <2> QED
    BY <1>0, <2>1 DEF Truths, LastEventIsTrue, HeldIsTrue, CurrentAnswerIsTrue
<1>6. ASSUME NEW t \in Tiles, TileMounts(t) PROVE Truths'
  <2>1. /\ UNCHANGED <<main, toPage, replies, stored>>
        /\ doc'.value = doc.value /\ doc'.gen = doc.gen /\ doc'.rev = doc.rev
    BY <1>6 DEF TileMounts, BridgeTypes, DocValues
  <2> QED
    BY <1>0, <1>a, <2>1, TruthsKept
\* No answer under way is that of a request just made.
<1>7. ASSUME NEW f \in BOOLEAN, RequestViewerFullscreen(f) PROVE Truths'
  <2>1. /\ UNCHANGED <<main, toPage, replies, stored>>
        /\ doc'.value = doc.value /\ doc'.gen = doc.gen + 1
    BY <1>7 DEF RequestViewerFullscreen, BridgeTypes, DocValues
  <2>2. \A r \in replies : r.gen \in Nat /\ r.gen <= doc.gen
    BY DEF NothingFromTheFuture, BridgeTypes, Replies
  <2>3. \A r \in replies : r.gen # doc.gen + 1
    BY <2>2, <1>0
  <2> QED
    BY <1>0, <2>1, <2>3 DEF Truths, LastEventIsTrue, HeldIsTrue, CurrentAnswerIsTrue, IsCurrent
<1>8. ASSUME SetReachesMain PROVE Truths'
  <2> DEFINE q == Head(toMain)
  <2>1. q \in ToMainMessages /\ q.kind = "set"
    BY <1>8, TakenOff DEF SetReachesMain, BridgeTypes
  <2>2. q.full \in BOOLEAN
    BY <2>1 DEF ToMainMessages
  <2>3. PICK now \in {main.full, q.full} :
          /\ main' = [main EXCEPT !.goal = q.full, !.full = now]
          /\ toPage' = IF now # main.full THEN Event(now) ELSE toPage
          /\ replies' = IF q.gen = 0 THEN replies
                        ELSE replies \cup {[full |-> now, gen |-> q.gen, rev |-> q.rev]}
    BY <1>8 DEF SetReachesMain
  <2>4. now \in BOOLEAN /\ main'.full = now /\ doc' = doc /\ stored' = stored /\ doc.loaded
    BY <1>8, <1>0, <2>2, <2>3 DEF SetReachesMain, BridgeTypes, MainValues, NotLoadedAtRest, AtRest
  <2>5. CASE now # main.full
    BY <2>3, <2>4, <2>5, TruthsAnnounced
  <2>6. CASE now = main.full
    <3>1. \A r \in replies' : r \in replies \/ r.full = main.full
      BY <2>3, <2>6
    <3> QED
      BY <1>0, <2>3, <2>4, <2>6, <3>1
      DEF Truths, LastEventIsTrue, HeldIsTrue, CurrentAnswerIsTrue, IsCurrent
  <2> QED
    BY <2>5, <2>6
<1>9. ASSUME WindowSettles PROVE Truths'
  <2>1. /\ doc.loaded /\ main.goal \in BOOLEAN /\ main'.full = main.goal
        /\ toPage' = Event(main.goal)
    BY <1>9 DEF WindowSettles, BridgeTypes, MainValues, NotLoadedAtRest, AtRest
  <2> QED
    BY <2>1, TruthsAnnounced
<1>10. ASSUME WindowChanges PROVE Truths'
  <2>1. /\ doc.loaded /\ toPage' = Event(~main.full)
        /\ main' = [main EXCEPT !.full = ~main.full, !.goal = ~main.goal]
    BY <1>10, Zenon DEF WindowChanges
  <2>2. \A a, b \in BOOLEAN : [main EXCEPT !.full = a, !.goal = b].full = a
    BY DEF BridgeTypes, MainValues
  <2>3. (~main.full) \in BOOLEAN /\ (~main.goal) \in BOOLEAN
    OBVIOUS
  <2>4. main'.full = ~main.full
    BY <2>1, <2>2, <2>3, Zenon
  <2> QED
    BY <2>1, <2>3, <2>4, TruthsAnnounced
\* An event outdates every answer under way.
<1>11. ASSUME EventReachesPage PROVE Truths'
  <2>1. (ModeEvents(toPage') = {} => Head(toPage).full = main.full) /\ EventsAreTrue(toPage', main.full)
    BY <1>11, <1>0, <1>a, EventsAfterTail DEF EventReachesPage, BridgeTypes
  <2>2. /\ doc' = [[doc EXCEPT !.rev = @ + 1] EXCEPT !.value = {Head(toPage).full}]
        /\ stored' = {Head(toPage).full} /\ main' = main /\ replies' = replies
    BY <1>11, Zenon DEF EventReachesPage, Published
  <2>3. [doc EXCEPT !.rev = @ + 1] \in DocValues /\ [doc EXCEPT !.rev = @ + 1].rev = doc.rev + 1
    BY DEF BridgeTypes, DocValues
  <2>4. \A d \in DocValues : \A v : [d EXCEPT !.value = v].value = v /\ [d EXCEPT !.value = v].rev = d.rev
    BY DEF DocValues
  <2>5. doc'.value = {Head(toPage).full} /\ doc'.rev = doc.rev + 1
    BY <2>2, <2>3, <2>4, Zenon
  <2>6. \A r \in replies : r.rev \in Nat /\ r.rev <= doc.rev
    BY DEF NothingFromTheFuture, BridgeTypes, Replies
  <2>7. \A r \in replies : r.rev # doc'.rev
    BY <1>0, <2>5, <2>6
  <2> QED
    BY <2>1, <2>2, <2>5, <2>7 DEF Truths, LastEventIsTrue, HeldIsTrue, CurrentAnswerIsTrue, IsCurrent
<1>12. ASSUME NEW r \in replies, ReplyReachesPage(r) PROVE Truths'
  <2>1. UNCHANGED <<main, toPage>> /\ replies' = replies \ {r}
    BY <1>12 DEF ReplyReachesPage
  <2>2. CASE IsCurrent(r)
    <3>1. /\ stored' = {r.full} /\ doc'.value = {r.full}
          /\ doc'.gen = doc.gen /\ doc'.rev = doc.rev
      BY <1>12, <2>2 DEF ReplyReachesPage, Published, BridgeTypes, DocValues
    <3> QED
      BY <1>0, <2>1, <2>2, <3>1 DEF Truths, LastEventIsTrue, HeldIsTrue, CurrentAnswerIsTrue, IsCurrent
  <2>3. CASE ~IsCurrent(r)
    BY <1>0, <1>12, <2>1, <2>3
    DEF ReplyReachesPage, Truths, LastEventIsTrue, HeldIsTrue, CurrentAnswerIsTrue, IsCurrent
  <2> QED
    BY <2>2, <2>3
<1> QED
  BY <1>1, <1>2, <1>3, <1>4, <1>5, <1>6, <1>7, <1>8, <1>9, <1>10, <1>11, <1>12 DEF BridgeNext

\* No request is on its way, and no event of a window that is at rest, when no page is there.
LEMMA BridgeKeepsOrder ==
    ASSUME KnownInv, CalmReloads, BridgeNext
    PROVE  NotLoadedAtRest' /\ NothingFromTheFuture'
<1> USE DEF KnownInv
<1>0. /\ doc.rev \in Nat /\ doc.gen \in Nat /\ Len(toMain) \in Nat
      /\ \A i \in 1..Len(toMain) : toMain[i] \in ToMainMessages
      /\ \A r \in replies : r.gen \in Nat /\ r.rev \in Nat
  BY DEF BridgeTypes, DocValues, Replies
<1>a. \A i \in 1..Len(toMain) : toMain[i].kind = "set" => toMain[i].gen \in Nat /\ toMain[i].rev \in Nat
  BY <1>0 DEF ToMainMessages
<1>1. ASSUME NEW k \in CommandKeys, NEW s \in Bridged, SendRendererCommand(k, s)
      PROVE  NotLoadedAtRest' /\ NothingFromTheFuture'
  <2>1. /\ main'.full = main.full /\ main'.goal = main.goal
    <3>1. CASE k \in main.waiting
      BY <1>1, <3>1 DEF SendRendererCommand, BridgeTypes, MainValues
    <3>2. CASE k \notin main.waiting
      BY <1>1, <3>2 DEF SendRendererCommand, BridgeTypes, MainValues
    <3> QED
      BY <3>1, <3>2
  <2>2. UNCHANGED <<toMain, replies, doc>> /\ (~doc.loaded => toPage' = toPage)
    BY <1>1 DEF SendRendererCommand
  <2> QED
    BY <2>1, <2>2 DEF NotLoadedAtRest, AtRest, NothingFromTheFuture
<1>2. ASSUME CommandReachesPage PROVE NotLoadedAtRest' /\ NothingFromTheFuture'
  <2> DEFINE m == [kind |-> "result", key |-> Head(toPage).key, ok |-> Takes(Head(toPage).stream) # {}]
  <2>1. /\ UNCHANGED <<doc, replies, main>> /\ doc.loaded
        /\ toMain' = toMain \/ toMain' = Append(toMain, m)
    BY <1>2, Zenon DEF CommandReachesPage, NotLoadedAtRest, AtRest
  <2>2. m \in ToMainMessages /\ m.kind # "set"
    <3>1. Head(toPage) \in ToPageMessages /\ Head(toPage).kind = "command"
      BY <1>2, TakenOff DEF CommandReachesPage, BridgeTypes
    <3> QED
      BY <3>1 DEF ToPageMessages, ToMainMessages
  <2> HIDE DEF m
  <2>3. CASE toMain' = toMain
    BY <2>1, <2>3 DEF NotLoadedAtRest, NothingFromTheFuture
  <2>4. CASE toMain' = Append(toMain, m)
    <3>1. /\ Len(toMain') = Len(toMain) + 1 /\ toMain'[Len(toMain) + 1] = m
          /\ \A i \in 1..Len(toMain) : toMain'[i] = toMain[i]
      BY <2>2, <2>4, Appended DEF BridgeTypes
    <3>2. \A i \in 1..Len(toMain') : toMain'[i].kind = "set" => i \in 1..Len(toMain) /\ toMain'[i] = toMain[i]
      <4> TAKE i \in 1..Len(toMain')
      <4>1. i = Len(toMain) + 1 \/ i \in 1..Len(toMain)
        BY <1>0, <3>1
      <4> QED
        BY <2>2, <3>1, <4>1
    <3> QED
      BY <2>1, <3>2 DEF NotLoadedAtRest, NothingFromTheFuture
  <2> QED
    BY <2>1, <2>3, <2>4
<1>3. ASSUME toMain # <<>>, toMain' = Tail(toMain), doc' = doc, UNCHANGED replies \/ SetReachesMain
      PROVE  NotLoadedAtRest' /\ NothingFromTheFuture'
  <2>1. /\ Len(toMain') = Len(toMain) - 1 /\ Len(toMain) >= 1 /\ Head(toMain) = toMain[1]
        /\ \A i \in 1..(Len(toMain) - 1) : toMain'[i] = toMain[i + 1]
    BY <1>3, TakenOff DEF BridgeTypes
  <2>2. \A i \in 1..Len(toMain') : i + 1 \in 1..Len(toMain) /\ toMain'[i] = toMain[i + 1]
    BY <1>0, <2>1
  <2>3. \A i \in 1..Len(toMain') : toMain'[i].kind = "set" => toMain'[i].gen <= doc.gen /\ toMain'[i].rev <= doc.rev
    BY <2>2 DEF NothingFromTheFuture
  <2>4. doc.loaded
    BY <1>3 DEF NotLoadedAtRest, AtRest
  <2>5. \A r \in replies' : r.gen <= doc.gen /\ r.rev <= doc.rev
    <3>1. CASE UNCHANGED replies
      BY <3>1 DEF NothingFromTheFuture
    <3>2. CASE SetReachesMain
      <4>1. toMain[1].kind = "set" /\ 1 \in 1..Len(toMain)
        BY <1>0, <2>1, <3>2 DEF SetReachesMain
      <4>2. toMain[1].gen <= doc.gen /\ toMain[1].rev <= doc.rev
        BY <4>1 DEF NothingFromTheFuture
      <4>3. \A r \in replies' : r \in replies \/ (r.gen = toMain[1].gen /\ r.rev = toMain[1].rev)
        BY <2>1, <3>2 DEF SetReachesMain
      <4> QED
        BY <4>2, <4>3 DEF NothingFromTheFuture
    <3> QED
      BY <1>3, <3>1, <3>2
  <2> QED
    BY <1>3, <2>3, <2>4, <2>5 DEF NotLoadedAtRest, NothingFromTheFuture
<1>4. ASSUME NEW k \in CommandKeys, CommandTimesOut(k) PROVE NotLoadedAtRest' /\ NothingFromTheFuture'
  <2>1. /\ main'.full = main.full /\ main'.goal = main.goal
        /\ UNCHANGED <<toPage, toMain, replies, doc>>
    BY <1>4 DEF CommandTimesOut, Resolved, BridgeTypes, MainValues
  <2> QED
    BY <2>1 DEF NotLoadedAtRest, AtRest, NothingFromTheFuture
<1>5. ASSUME PageReplaced PROVE NotLoadedAtRest' /\ NothingFromTheFuture'
  <2>1. /\ main' = main /\ main.full = main.goal /\ toPage' = <<>> /\ replies' = {} /\ toMain = <<>>
    BY <1>5 DEF PageReplaced, AtRest
  <2>2. toMain' = <<>> /\ Len(toMain') = 0
    BY <1>5, <2>1, Nothing DEF PageReplaced
  <2> QED
    BY <2>1, <2>2 DEF NotLoadedAtRest, AtRest, NothingFromTheFuture
<1>6. ASSUME PageLoaded PROVE NotLoadedAtRest' /\ NothingFromTheFuture'
  <2>1. doc'.loaded /\ replies' = {} /\ toMain' = <<>> /\ Len(toMain') = 0
    BY <1>6, Nothing DEF PageLoaded, FullscreenObservation, NotLoadedAtRest, AtRest
  <2> QED
    BY <2>1 DEF NotLoadedAtRest, NothingFromTheFuture
<1>7. ASSUME NEW t \in Tiles, TileMounts(t) PROVE NotLoadedAtRest' /\ NothingFromTheFuture'
  <2>1. /\ UNCHANGED <<main, toPage, toMain, replies>>
        /\ doc'.loaded = doc.loaded /\ doc'.gen = doc.gen /\ doc'.rev = doc.rev
    BY <1>7 DEF TileMounts, BridgeTypes, DocValues
  <2> QED
    BY <2>1 DEF NotLoadedAtRest, AtRest, NothingFromTheFuture
<1>8. ASSUME NEW f \in BOOLEAN, RequestViewerFullscreen(f) PROVE NotLoadedAtRest' /\ NothingFromTheFuture'
  <2> DEFINE m == [kind |-> "set", full |-> f, gen |-> doc.gen + 1, rev |-> doc.rev]
  <2>1. m \in ToMainMessages /\ m.gen = doc.gen + 1 /\ m.rev = doc.rev
    BY <1>0 DEF ToMainMessages
  <2>2. /\ toMain' = Append(toMain, m) /\ UNCHANGED <<main, toPage, replies>>
        /\ doc'.loaded /\ doc'.gen = doc.gen + 1 /\ doc'.rev = doc.rev
    BY <1>8 DEF RequestViewerFullscreen, BridgeTypes, DocValues
  <2> HIDE DEF m
  <2>3. /\ Len(toMain') = Len(toMain) + 1 /\ toMain'[Len(toMain) + 1] = m
        /\ \A i \in 1..Len(toMain) : toMain'[i] = toMain[i]
    BY <2>1, <2>2, Appended DEF BridgeTypes
  <2>4. ASSUME NEW i \in 1..Len(toMain'), toMain'[i].kind = "set"
        PROVE  toMain'[i].gen <= doc'.gen /\ toMain'[i].rev <= doc'.rev
    <3>1. CASE i = Len(toMain) + 1
      BY <1>0, <2>1, <2>2, <2>3, <3>1
    <3>2. CASE i \in 1..Len(toMain)
      <4>1. toMain'[i] = toMain[i] /\ toMain[i].gen \in Nat /\ toMain[i].gen <= doc.gen /\ toMain[i].rev <= doc.rev
        BY <1>a, <2>3, <2>4, <3>2 DEF NothingFromTheFuture
      <4> QED
        BY <1>0, <2>2, <4>1
    <3> QED
      BY <1>0, <2>3, <3>1, <3>2
  <2>5. \A r \in replies' : r.gen <= doc'.gen /\ r.rev <= doc'.rev
    BY <1>0, <2>2 DEF NothingFromTheFuture
  <2> QED
    BY <2>2, <2>4, <2>5 DEF NotLoadedAtRest, NothingFromTheFuture
<1>9. ASSUME WindowSettles \/ WindowChanges PROVE NotLoadedAtRest' /\ NothingFromTheFuture'
  <2>1. doc.loaded /\ UNCHANGED <<toMain, replies, doc>>
    BY <1>9 DEF WindowSettles, WindowChanges, NotLoadedAtRest, AtRest
  <2> QED
    BY <2>1 DEF NotLoadedAtRest, NothingFromTheFuture
<1>10. ASSUME EventReachesPage PROVE NotLoadedAtRest' /\ NothingFromTheFuture'
  <2>1. /\ doc' = [[doc EXCEPT !.rev = @ + 1] EXCEPT !.value = {Head(toPage).full}]
        /\ UNCHANGED <<toMain, replies>> /\ doc.loaded
    BY <1>10, Zenon DEF EventReachesPage, Published, NotLoadedAtRest, AtRest
  <2>2. /\ [doc EXCEPT !.rev = @ + 1] \in DocValues /\ [doc EXCEPT !.rev = @ + 1].rev = doc.rev + 1
        /\ [doc EXCEPT !.rev = @ + 1].gen = doc.gen /\ [doc EXCEPT !.rev = @ + 1].loaded = doc.loaded
    BY DEF BridgeTypes, DocValues
  <2>3. \A d \in DocValues : \A v : /\ [d EXCEPT !.value = v].rev = d.rev /\ [d EXCEPT !.value = v].gen = d.gen
                               /\ [d EXCEPT !.value = v].loaded = d.loaded
    BY DEF DocValues
  <2>4. doc'.rev = doc.rev + 1 /\ doc'.gen = doc.gen /\ doc'.loaded = doc.loaded
    BY <2>1, <2>2, <2>3, Zenon
  <2>5. \A r \in replies : r.gen <= doc'.gen /\ r.rev <= doc'.rev
    BY <1>0, <2>4 DEF NothingFromTheFuture
  <2>6. \A i \in 1..Len(toMain) : toMain[i].kind = "set" => toMain[i].gen <= doc'.gen /\ toMain[i].rev <= doc'.rev
    BY <1>0, <1>a, <2>4 DEF NothingFromTheFuture
  <2> QED
    BY <2>1, <2>4, <2>5, <2>6 DEF NotLoadedAtRest, NothingFromTheFuture
<1>11. ASSUME NEW r \in replies, ReplyReachesPage(r) PROVE NotLoadedAtRest' /\ NothingFromTheFuture'
  <2>1. /\ UNCHANGED <<main, toPage, toMain>> /\ replies' \subseteq replies /\ doc.loaded
        /\ doc'.loaded = doc.loaded /\ doc'.gen = doc.gen /\ doc'.rev = doc.rev
    BY <1>11 DEF ReplyReachesPage, Published, BridgeTypes, DocValues, NotLoadedAtRest, AtRest
  <2> QED
    BY <2>1 DEF NotLoadedAtRest, NothingFromTheFuture
<1> QED
  BY <1>1, <1>2, <1>3, <1>4, <1>5, <1>6, <1>7, <1>8, <1>9, <1>10, <1>11
  DEF BridgeNext, ResultReachesMain, SetReachesMain

LEMMA KnownInitially == BridgeInit => KnownInv
<1> SUFFICES ASSUME BridgeInit PROVE KnownInv
  OBVIOUS
<1>1. Len(toMain) = 0 /\ ModeEvents(toPage) = {} /\ replies = {} /\ main.full = main.goal
  BY Nothing DEF BridgeInit, ModeEvents
<1>2. doc.value \cup stored = {}
  BY DEF BridgeInit, Unknown
<1>3. NotLoadedAtRest /\ HeldIsTrue
  BY <1>1, <1>2 DEF BridgeInit, NotLoadedAtRest, AtRest, HeldIsTrue
<1>4. LastEventIsTrue /\ CurrentAnswerIsTrue /\ NothingFromTheFuture
  BY <1>1 DEF LastEventIsTrue, EventsAreTrue, CurrentAnswerIsTrue, NothingFromTheFuture
<1> QED
  BY <1>3, <1>4, BridgeTypesInit DEF KnownInv

LEMMA KnownUnchanged ==
    ASSUME KnownInv, UNCHANGED bridgeVars
    PROVE  KnownInv'
BY DEF KnownInv, bridgeVars, BridgeTypes, NotLoadedAtRest, AtRest, LastEventIsTrue, EventsAreTrue, ModeEvents,
   HeldIsTrue, CurrentAnswerIsTrue, IsCurrent, NothingFromTheFuture

\* While a page is replaced at rest only: once nothing is under way, what the page and its
\* session hold about the full screen is so, in whatever order answers and events came
\* (viewerBridge.ts).
THEOREM ViewerKnowsItsFullscreen ==
    ASSUME CalmReloads
    PROVE  BridgeSpec => [](FullscreenIsKnown)
<1>1. KnownInv => FullscreenIsKnown
  <2> SUFFICES ASSUME KnownInv, AtRest PROVE doc.value \cup stored \subseteq {main.full}
    BY DEF FullscreenIsKnown
  <2>1. ModeEvents(toPage) = {}
    BY Nothing DEF AtRest, ModeEvents
  <2> QED
    BY <2>1 DEF KnownInv, HeldIsTrue
<1>2. KnownInv /\ [BridgeNext]_bridgeVars => KnownInv'
  <2> SUFFICES ASSUME KnownInv, [BridgeNext]_bridgeVars PROVE KnownInv'
    OBVIOUS
  <2>1. CASE BridgeNext
    <3>1. BridgeTypes'
      BY BridgeKeepsTypes DEF KnownInv
    <3> QED
      BY <2>1, <3>1, BridgeKeepsTruths, BridgeKeepsOrder DEF KnownInv, Truths
  <2>2. CASE UNCHANGED bridgeVars
    BY <2>2, KnownUnchanged
  <2> QED
    BY <2>1, <2>2
<1> QED
  BY <1>1, <1>2, KnownInitially, PTL DEF BridgeSpec

\* The page and the main process agree (main.ts, preload.ts, viewerBridge.ts).
THEOREM TheBridgeAgrees ==
    ASSUME CalmReloads
    PROVE  BridgeSpec => []BridgeAgrees
<1>1. ResultIsEarned /\ FullscreenIsKnown => BridgeAgrees
  BY DEF BridgeAgrees
<1> QED
  BY <1>1, ViewerReportsWhatWasDone, ViewerKnowsItsFullscreen, PTL

-----------------------------------------------------------------------------
(* The tool that operates the PCs.                                         *)

\* What an operation and the PC know of each other: nothing runs before it is sent, what
\* is over left nothing, and no operation goes on after the end of its run but on success.
Sound(o) ==
    /\ op[o].at \notin {"undo", "failed"} => ~op[o].failing
    /\ op[o].at \in {"idle", "check", "stage", "copy"} => op[o].job = "none"
    /\ op[o].at \in {"idle", "check"} => remote.upload[o] = "none"
    /\ op[o].mode = "push" => op[o].job = "none" /\ remote.upload[o] = "none"
    /\ op[o].job \in {"none", "sent"} => ~remote.task[o] /\ ~remote.kept[o]
    /\ op[o].job = "ok" => ~remote.task[o] /\ remote.upload[o] \in Emptied(op[o].mode)
    /\ op[o].at = "undo" /\ ~op[o].failing => op[o].job = "ok"
    /\ op[o].at \in {"fetch", "tidy", "audit", "complete"} =>
          op[o].job = "ok" \/ (op[o].job = "none" /\ remote.upload[o] = "none")
    /\ op[o].at \in {"audit", "complete"} => ~remote.kept[o]
    /\ remote.kept[o] => Of(o).keeps

OperationsSound == \A o \in Operations : Sound(o)

\* Of pushes that do not overlap one is at work, and once it has found the name free no
\* other has delivered under it.
PushesApart ==
    /\ \A o, x \in Operations :
          op[o].mode = "push" /\ op[x].mode = "push" /\ o # x =>
              /\ op[o].at \in {"idle", "complete", "failed"} \/ op[x].at \in {"idle", "complete", "failed"}
              /\ op[o].at \in {"copy", "run", "undo"} => op[x].at # "complete"
    /\ \A o \in Operations : op[o].mode = "push" =>
          /\ op[o].at \notin {"fetch", "tidy"}
          /\ op[o].at \in {"audit", "complete"} => remote.artifact = o

OpValues ==
    [mode : DOMAIN Modes, at : StepNames, failing : BOOLEAN, job : {"none", "sent", "running", "ok", "bad"}]

\* A step of o leaves the other operations' processes alone.
OthersStay(o) == \A x \in Operations \ {o} : op'[x] = op[x]

LEMMA ModeTable ==
    /\ DOMAIN Modes = {"status", "sync", "setup", "repair", "plan", "capture", "configure", "cleanup", "system",
                       "push", "pull"}
    /\ \A m \in DOMAIN Modes :
          /\ Modes[m].keeps \in BOOLEAN /\ Modes[m].uploads \in BOOLEAN
          /\ Modes[m].task \in Tasks
          /\ Modes[m].keeps => m \in {"plan", "capture"}
          /\ ~Modes[m].uploads /\ Modes[m].task = "none" => m \in {"status", "cleanup", "push", "pull"}
<1>1. DOMAIN Modes = {"status", "sync", "setup", "repair", "plan", "capture", "configure", "cleanup", "system",
                      "push", "pull"}
  BY DEF Modes
<1>2. /\ Modes["status"].keeps = FALSE /\ Modes["status"].uploads = FALSE /\ Modes["status"].task = "none"
      /\ Modes["cleanup"].keeps = FALSE /\ Modes["cleanup"].uploads = FALSE /\ Modes["cleanup"].task = "none"
      /\ Modes["push"].keeps = FALSE /\ Modes["push"].uploads = FALSE /\ Modes["push"].task = "none"
      /\ Modes["pull"].keeps = FALSE /\ Modes["pull"].uploads = FALSE /\ Modes["pull"].task = "none"
  BY DEF Modes, Status, Cleanup, Push, Pull, Mode
<1>3. /\ Modes["sync"].keeps = FALSE /\ Modes["sync"].uploads = TRUE /\ Modes["sync"].task = "none"
      /\ Modes["system"].keeps = FALSE /\ Modes["system"].uploads = TRUE /\ Modes["system"].task = "none"
      /\ Modes["setup"].keeps = FALSE /\ Modes["setup"].uploads = TRUE /\ Modes["setup"].task = "setup"
      /\ Modes["repair"].keeps = FALSE /\ Modes["repair"].uploads = FALSE /\ Modes["repair"].task = "setup"
  BY DEF Modes, Sync, System, SetUp, Repair, Mode
<1>4. /\ Modes["plan"].keeps = TRUE /\ Modes["plan"].uploads = TRUE /\ Modes["plan"].task = "control"
      /\ Modes["capture"].keeps = TRUE /\ Modes["capture"].uploads = FALSE /\ Modes["capture"].task = "capture"
      /\ Modes["configure"].keeps = FALSE /\ Modes["configure"].uploads = TRUE
      /\ Modes["configure"].task = "configure"
  BY DEF Modes, Plan, Capture, ConfigureViewer, Mode
<1>5. ASSUME NEW m \in DOMAIN Modes
      PROVE  /\ Modes[m].keeps \in BOOLEAN /\ Modes[m].uploads \in BOOLEAN
             /\ Modes[m].task \in Tasks
             /\ Modes[m].keeps => m \in {"plan", "capture"}
             /\ ~Modes[m].uploads /\ Modes[m].task = "none" => m \in {"status", "cleanup", "push", "pull"}
  <2>1. CASE m \in {"status", "cleanup", "push", "pull"}
    BY <1>2, <2>1 DEF Tasks
  <2>2. CASE m \in {"sync", "system", "setup", "repair"}
    BY <1>3, <2>2 DEF Tasks
  <2>3. CASE m \in {"plan", "capture", "configure"}
    BY <1>4, <2>3 DEF Tasks
  <2> QED
    BY <1>1, <1>5, <2>1, <2>2, <2>3
<1> QED
  BY <1>1, <1>5

LEMMA StepTable ==
    ASSUME NEW m, NEW at
    PROVE  /\ at = "stage" => NextStep(m, at) = "copy"
           /\ at = "copy" => NextStep(m, at) = "run"
           /\ at = "fetch" => NextStep(m, at) = "tidy"
           /\ at = "tidy" => NextStep(m, at) = "audit"
           /\ at = "audit" => NextStep(m, at) = "complete"
           /\ at = "undo" => NextStep(m, at) = IF m.keeps THEN "fetch" ELSE "audit"
           /\ at = "check" => NextStep(m, at) = IF m.uploads THEN "stage"
                                                ELSE IF m.task # "none" THEN "run" ELSE "complete"
BY DEF NextStep

\* The PC keeps what it has of operation x.
PcKeeps(x) ==
    remote'.upload[x] = remote.upload[x] /\ remote'.task[x] = remote.task[x] /\ remote'.kept[x] = remote.kept[x]

\* A step leaves o at a, and the other operations where they are.
Moves(o, a, failing, job) ==
    /\ op' \in [Operations -> OpValues] /\ OthersStay(o)
    /\ op'[o].mode = op[o].mode /\ op'[o].at = a /\ op'[o].failing = failing /\ op'[o].job = job

LEMMA Gone ==
    ASSUME TargetTypeOK, NEW o \in Operations, NEW a \in StepNames, Goes(o, a)
    PROVE  Moves(o, a, op[o].failing, op[o].job)
<1> DEFINE new == [op[o] EXCEPT !.at = a]
<1>1. op \in [Operations -> OpValues]
  BY DEF TargetTypeOK, OpValues
<1>2. /\ new \in OpValues /\ new.mode = op[o].mode /\ new.at = a /\ new.failing = op[o].failing
      /\ new.job = op[o].job
  BY <1>1 DEF OpValues
<1>3. op' = [op EXCEPT ![o] = new]
  BY DEF Goes
<1> HIDE DEF new
<1> QED
  BY <1>1, <1>2, <1>3 DEF Moves, OthersStay

LEMMA Judged ==
    ASSUME TargetTypeOK, NEW o \in Operations, NEW a \in StepNames, NEW f \in BOOLEAN,
           op' = [op EXCEPT ![o].at = a, ![o].failing = f]
    PROVE  Moves(o, a, f, op[o].job)
<1> DEFINE mid == [op[o] EXCEPT !.at = a]
           new == [mid EXCEPT !.failing = f]
<1>1. op \in [Operations -> OpValues]
  BY DEF TargetTypeOK, OpValues
<1>2. mid \in OpValues /\ mid.mode = op[o].mode /\ mid.at = a /\ mid.job = op[o].job
  BY <1>1 DEF OpValues
<1>3. new \in OpValues /\ new.mode = mid.mode /\ new.at = mid.at /\ new.job = mid.job
  BY <1>2 DEF OpValues
<1>4. new.failing = f
  BY <1>2, Zenon DEF OpValues
<1>5. op' = [op EXCEPT ![o] = new]
  BY Zenon
<1> HIDE DEF new, mid
<1> QED
  BY <1>1, <1>2, <1>3, <1>4, <1>5 DEF Moves, OthersStay

LEMMA Thrown ==
    ASSUME TargetTypeOK, NEW o \in Operations, NEW inTry \in BOOLEAN, Throws(o, inTry)
    PROVE  Moves(o, IF inTry THEN "undo" ELSE "failed", TRUE, op[o].job)
BY Judged DEF Throws, StepNames

LEMMA Untouched ==
    ASSUME NEW x \in Operations, op'[x] = op[x], PcKeeps(x), Sound(x)
    PROVE  Sound(x)'
BY DEF Sound, PcKeeps, Of

\* A step of o that leaves what the PC has of the others keeps them sound.
LEMMA OnlyItself ==
    ASSUME OperationsSound, NEW o \in Operations, OthersStay(o), Sound(o)',
           \A x \in Operations \ {o} : PcKeeps(x)
    PROVE  OperationsSound'
<1>1. \A x \in Operations \ {o} : Sound(x)'
  BY Untouched DEF OperationsSound, OthersStay
<1> QED
  BY <1>1 DEF OperationsSound

LEMMA OnlyItsCall ==
    ASSUME OperationsSound, NEW o \in Operations, OthersStay(o), Sound(o)', UNCHANGED remote
    PROVE  OperationsSound'
BY OnlyItself DEF PcKeeps

PcValues ==
    [upload : [Operations -> {"none", "directory", "partial", "whole"}], task : [Operations -> BOOLEAN],
     kept : [Operations -> BOOLEAN], stale : SUBSET Scripts, artifact : {"none", "partial"} \cup Operations]

\* What a step does to the PC for o alone.
Leaves(o, upload, task, kept) ==
    /\ remote' \in PcValues /\ \A x \in Operations \ {o} : PcKeeps(x)
    /\ remote'.upload[o] = upload /\ remote'.task[o] = task /\ remote'.kept[o] = kept
    /\ remote'.artifact = remote.artifact

LEMMA PutUpload ==
    ASSUME remote \in PcValues, NEW o \in Operations, NEW u \in {"none", "directory", "partial", "whole"},
           remote' = [remote EXCEPT !.upload[o] = u]
    PROVE  Leaves(o, u, remote.task[o], remote.kept[o])
<1> DEFINE up == [remote.upload EXCEPT ![o] = u]
<1>1. up \in [Operations -> {"none", "directory", "partial", "whole"}] /\ up[o] = u
      /\ \A x \in Operations \ {o} : up[x] = remote.upload[x]
  BY DEF PcValues
<1>2. remote' = [remote EXCEPT !.upload = up]
  BY DEF PcValues
<1> HIDE DEF up
<1>3. /\ remote' \in PcValues /\ remote'.upload = up /\ remote'.task = remote.task /\ remote'.kept = remote.kept
      /\ remote'.artifact = remote.artifact
  BY <1>1, <1>2 DEF PcValues
<1> QED
  BY <1>1, <1>3 DEF Leaves, PcKeeps

LEMMA PutTask ==
    ASSUME remote \in PcValues, NEW o \in Operations, NEW t \in BOOLEAN, NEW k \in BOOLEAN,
           remote' = [remote EXCEPT !.task[o] = t, !.kept[o] = k]
    PROVE  Leaves(o, remote.upload[o], t, k)
<1> DEFINE ts == [remote.task EXCEPT ![o] = t]
           ks == [remote.kept EXCEPT ![o] = k]
           mid == [remote EXCEPT !.task = ts]
<1>1. ts \in [Operations -> BOOLEAN] /\ ts[o] = t /\ \A x \in Operations \ {o} : ts[x] = remote.task[x]
  BY Zenon DEF PcValues
<1>2. ks \in [Operations -> BOOLEAN] /\ ks[o] = k /\ \A x \in Operations \ {o} : ks[x] = remote.kept[x]
  BY Zenon DEF PcValues
<1>3. remote' = [mid EXCEPT !.kept = ks]
  BY Zenon DEF PcValues
<1> HIDE DEF ts, ks
<1>4. mid \in PcValues /\ mid.upload = remote.upload /\ mid.task = ts /\ mid.kept = remote.kept
      /\ mid.artifact = remote.artifact
  BY <1>1 DEF PcValues
<1> HIDE DEF mid
<1>5. /\ remote' \in PcValues /\ remote'.upload = mid.upload /\ remote'.task = mid.task /\ remote'.kept = ks
      /\ remote'.artifact = mid.artifact
  BY <1>2, <1>3, <1>4 DEF PcValues
<1> QED
  BY <1>1, <1>2, <1>4, <1>5 DEF Leaves, PcKeeps

LEMMA PutEnd ==
    ASSUME remote \in PcValues, NEW o \in Operations, NEW u \in {"none", "directory", "partial", "whole"},
           remote' = [remote EXCEPT !.task[o] = FALSE, !.upload[o] = u]
    PROVE  Leaves(o, u, FALSE, remote.kept[o])
<1> DEFINE ts == [remote.task EXCEPT ![o] = FALSE]
           us == [remote.upload EXCEPT ![o] = u]
           mid == [remote EXCEPT !.task = ts]
<1>1. ts \in [Operations -> BOOLEAN] /\ ts[o] = FALSE /\ \A x \in Operations \ {o} : ts[x] = remote.task[x]
  BY Zenon DEF PcValues
<1>2. us \in [Operations -> {"none", "directory", "partial", "whole"}] /\ us[o] = u
      /\ \A x \in Operations \ {o} : us[x] = remote.upload[x]
  BY DEF PcValues
<1>3. remote' = [mid EXCEPT !.upload = us]
  BY Zenon DEF PcValues
<1> HIDE DEF ts, us
<1>4. mid \in PcValues /\ mid.upload = remote.upload /\ mid.task = ts /\ mid.kept = remote.kept
      /\ mid.artifact = remote.artifact
  BY <1>1 DEF PcValues
<1> HIDE DEF mid
<1>5. /\ remote' \in PcValues /\ remote'.upload = us /\ remote'.task = mid.task /\ remote'.kept = mid.kept
      /\ remote'.artifact = mid.artifact
  BY <1>2, <1>3, <1>4 DEF PcValues
<1> QED
  BY <1>1, <1>2, <1>4, <1>5 DEF Leaves, PcKeeps

LEMMA PutBroken ==
    ASSUME remote \in PcValues, NEW o \in Operations, NEW u \in {"none", "directory", "partial", "whole"},
           NEW t \in BOOLEAN, NEW k \in BOOLEAN,
           remote' = [remote EXCEPT !.upload[o] = u, !.task[o] = t, !.kept[o] = k]
    PROVE  Leaves(o, u, t, k)
<1> DEFINE us == [remote.upload EXCEPT ![o] = u]
           ts == [remote.task EXCEPT ![o] = t]
           ks == [remote.kept EXCEPT ![o] = k]
           first == [remote EXCEPT !.upload = us]
           mid == [first EXCEPT !.task = ts]
<1>1. ts \in [Operations -> BOOLEAN] /\ ts[o] = t /\ \A x \in Operations \ {o} : ts[x] = remote.task[x]
  BY Zenon DEF PcValues
<1>2. ks \in [Operations -> BOOLEAN] /\ ks[o] = k /\ \A x \in Operations \ {o} : ks[x] = remote.kept[x]
  BY Zenon DEF PcValues
<1>3. us \in [Operations -> {"none", "directory", "partial", "whole"}] /\ us[o] = u
      /\ \A x \in Operations \ {o} : us[x] = remote.upload[x]
  BY DEF PcValues
<1>4. remote' = [mid EXCEPT !.kept = ks]
  BY Zenon DEF PcValues
<1> HIDE DEF ts, us, ks
<1>5. first \in PcValues /\ first.upload = us /\ first.task = remote.task /\ first.kept = remote.kept
      /\ first.artifact = remote.artifact
  BY <1>3 DEF PcValues
<1> HIDE DEF first
<1>6. mid \in PcValues /\ mid.upload = us /\ mid.task = ts /\ mid.kept = remote.kept
      /\ mid.artifact = remote.artifact
  BY <1>1, <1>5 DEF PcValues
<1> HIDE DEF mid
<1>7. /\ remote' \in PcValues /\ remote'.upload = us /\ remote'.task = ts /\ remote'.kept = ks
      /\ remote'.artifact = remote.artifact
  BY <1>2, <1>4, <1>6 DEF PcValues
<1> QED
  BY <1>1, <1>2, <1>3, <1>7 DEF Leaves, PcKeeps

LEMMA PutKept ==
    ASSUME remote \in PcValues, NEW o \in Operations, remote' = [remote EXCEPT !.kept[o] = FALSE]
    PROVE  Leaves(o, remote.upload[o], remote.task[o], FALSE)
<1> DEFINE ks == [remote.kept EXCEPT ![o] = FALSE]
<1>1. ks \in [Operations -> BOOLEAN] /\ ks[o] = FALSE /\ \A x \in Operations \ {o} : ks[x] = remote.kept[x]
  BY Zenon DEF PcValues
<1>2. remote' = [remote EXCEPT !.kept = ks]
  BY Zenon DEF PcValues
<1> HIDE DEF ks
<1>3. /\ remote' \in PcValues /\ remote'.upload = remote.upload /\ remote'.task = remote.task /\ remote'.kept = ks
      /\ remote'.artifact = remote.artifact
  BY <1>1, <1>2 DEF PcValues
<1> QED
  BY <1>1, <1>3 DEF Leaves, PcKeeps

LEMMA PutArtifact ==
    ASSUME remote \in PcValues, NEW a \in {"none", "partial"} \cup Operations,
           remote' = [remote EXCEPT !.artifact = a]
    PROVE  remote' \in PcValues /\ remote'.artifact = a /\ \A x \in Operations : PcKeeps(x)
BY DEF PcValues, PcKeeps

\* A new mode for an operation that has not begun, at its check or refused.
LEMMA Begun ==
    ASSUME TargetTypeOK, NEW o \in Operations, NEW m \in DOMAIN Modes, Invoke(o, m) \/ ProfilesRefused(o, m)
    PROVE  /\ op' \in [Operations -> OpValues] /\ OthersStay(o) /\ op[o].at = "idle" /\ UNCHANGED remote
           /\ op'[o].mode = m /\ op'[o].job = op[o].job
           /\ \/ op'[o].at = "check" /\ op'[o].failing = op[o].failing
              \/ op'[o].at = "failed" /\ op'[o].failing = TRUE
<1>1. op \in [Operations -> OpValues]
  BY DEF TargetTypeOK, OpValues
<1>2. CASE Invoke(o, m)
  <2> DEFINE mid == [op[o] EXCEPT !.mode = m]
             new == [mid EXCEPT !.at = "check"]
  <2>1. mid \in OpValues /\ mid.mode = m /\ mid.failing = op[o].failing /\ mid.job = op[o].job
    BY <1>1 DEF OpValues
  <2>2. new \in OpValues /\ new.mode = mid.mode /\ new.at = "check" /\ new.job = mid.job /\ new.failing = mid.failing
    BY <2>1 DEF OpValues, StepNames
  <2>3. op' = [op EXCEPT ![o] = new]
    BY <1>2 DEF Invoke
  <2> HIDE DEF new, mid
  <2> QED
    <3>1. op'[o] = new /\ op' \in [Operations -> OpValues] /\ OthersStay(o)
      BY <1>1, <2>2, <2>3 DEF OthersStay
    <3>2. op[o].at = "idle" /\ UNCHANGED remote
      BY <1>2 DEF Invoke
    <3> QED
      BY <2>1, <2>2, <3>1, <3>2
<1>3. CASE ProfilesRefused(o, m)
  <2> DEFINE mid == [op[o] EXCEPT !.mode = m]
             mid2 == [mid EXCEPT !.at = "failed"]
             new == [mid2 EXCEPT !.failing = TRUE]
  <2>1. mid \in OpValues /\ mid.mode = m /\ mid.failing = op[o].failing /\ mid.job = op[o].job
    BY <1>1 DEF OpValues
  <2>2. mid2 \in OpValues /\ mid2.mode = mid.mode /\ mid2.at = "failed" /\ mid2.job = mid.job
    BY <2>1 DEF OpValues, StepNames
  <2>3. new \in OpValues /\ new.mode = mid2.mode /\ new.at = mid2.at /\ new.job = mid2.job /\ new.failing = TRUE
    BY <2>2 DEF OpValues
  <2>4. op' = [op EXCEPT ![o] = new]
    BY <1>3 DEF ProfilesRefused
  <2> HIDE DEF new, mid, mid2
  <2>5. op' \in [Operations -> OpValues] /\ OthersStay(o) /\ op'[o] = new
    BY <1>1, <2>3, <2>4 DEF OthersStay
  <2>6. op[o].at = "idle" /\ UNCHANGED remote
    BY <1>3 DEF ProfilesRefused
  <2> QED
    BY <2>1, <2>2, <2>3, <2>5, <2>6
<1> QED
  BY <1>2, <1>3

LEMMA JobSet ==
    ASSUME TargetTypeOK, NEW o \in Operations, NEW j \in {"none", "sent", "running", "ok", "bad"},
           op' = [op EXCEPT ![o].job = j]
    PROVE  Moves(o, op[o].at, op[o].failing, j)
<1> DEFINE new == [op[o] EXCEPT !.job = j]
<1>1. op \in [Operations -> OpValues]
  BY DEF TargetTypeOK, OpValues
<1>2. /\ new \in OpValues /\ new.mode = op[o].mode /\ new.at = op[o].at /\ new.failing = op[o].failing
      /\ new.job = j
  BY <1>1 DEF OpValues
<1>3. op' = [op EXCEPT ![o] = new]
  OBVIOUS
<1> HIDE DEF new
<1> QED
  BY <1>1, <1>2, <1>3 DEF Moves, OthersStay

\* What holds between two steps of the tool, whether or not pushes overlap.
TargetInv == TargetTypeOK /\ OperationsSound

LEMMA TargetStep ==
    ASSUME TargetInv, [TargetNext]_targetVars
    PROVE  TargetInv'
<1> USE DEF TargetInv
<1>0. /\ op \in [Operations -> OpValues] /\ remote \in PcValues
      /\ \A x \in Operations : Sound(x)
      /\ (op' \in [Operations -> OpValues] /\ remote' \in PcValues => TargetTypeOK')
  BY DEF TargetTypeOK, OpValues, PcValues, OperationsSound
<1>1. CASE UNCHANGED targetVars
  BY <1>1 DEF TargetTypeOK, OperationsSound, Sound, Of, targetVars
<1> SUFFICES ASSUME NEW o \in Operations, OperationStep(o)
             PROVE  TargetInv'
  BY <1>1 DEF TargetNext
<1>a. Of(o).keeps \in BOOLEAN /\ Sound(o)
  BY <1>0, ModeTable DEF Of, OpValues
\* A step of the process that leaves the PC alone, or that changes what the PC has of o.
<1>b. ASSUME NEW a \in StepNames, NEW f \in BOOLEAN, NEW j, Moves(o, a, f, j), UNCHANGED remote, Sound(o)'
      PROVE  TargetInv'
  BY <1>0, <1>b, OnlyItsCall DEF Moves
<1>c. ASSUME NEW a, NEW f, NEW j, NEW u, NEW t, NEW k, Moves(o, a, f, j), Leaves(o, u, t, k), Sound(o)'
      PROVE  TargetInv'
  BY <1>0, <1>c, OnlyItself DEF Moves, Leaves
<1>2. ASSUME NEW m \in DOMAIN Modes, Invoke(o, m) \/ ProfilesRefused(o, m) PROVE TargetInv'
  <2>1. /\ op' \in [Operations -> OpValues] /\ OthersStay(o) /\ op[o].at = "idle" /\ UNCHANGED remote
        /\ op'[o].mode = m /\ op'[o].job = op[o].job
        /\ \/ op'[o].at = "check" /\ op'[o].failing = op[o].failing
           \/ op'[o].at = "failed" /\ op'[o].failing = TRUE
    BY <1>2, Begun
  <2>2. Sound(o)'
    BY <1>a, <2>1 DEF Sound, Of
  <2> QED
    BY <1>0, <2>1, <2>2, OnlyItsCall
<1>3. ASSUME NEW inTry \in BOOLEAN, Throws(o, inTry), UNCHANGED remote,
             op[o].at \notin {"idle", "failed"}
      PROVE  TargetInv'
  <2>1. Moves(o, IF inTry THEN "undo" ELSE "failed", TRUE, op[o].job)
    BY <1>3, Thrown
  <2>2. Sound(o)'
    BY <1>3, <1>a, <2>1 DEF Sound, Moves, Of
  <2> QED
    BY <1>0, <1>3, <2>1, <2>2, OnlyItsCall DEF Moves
<1>4. CASE PassesCheck(o)
  <2>1. CASE op[o].mode \in {"cleanup", "push", "pull"}
    <3>1. \E a \in {"tidy", "stage", "fetch"} : Goes(o, a) /\ (a = "stage" <=> op[o].mode = "push")
      BY <1>4, <2>1 DEF PassesCheck
    <3>2. PICK a \in {"tidy", "stage", "fetch"} : Moves(o, a, op[o].failing, op[o].job)
      BY <3>1, Gone DEF StepNames
    <3>3. Sound(o)'
      BY <1>4, <1>a, <3>2 DEF Sound, Moves, Of, PassesCheck
    <3> QED
      BY <1>0, <1>4, <3>2, <3>3, OnlyItsCall DEF Moves, PassesCheck
  <2>2. CASE op[o].mode \notin {"cleanup", "push", "pull"}
    <3>1. GoesOn(o)
      BY <1>4, <2>2 DEF PassesCheck
    <3>2. \E a \in {"stage", "run", "complete"} : Goes(o, a)
      BY <1>4, <3>1, StepTable DEF GoesOn, PassesCheck
    <3>3. PICK a \in {"stage", "run", "complete"} : Moves(o, a, op[o].failing, op[o].job)
      BY <3>2, Gone DEF StepNames
    <3>4. Sound(o)'
      BY <1>4, <1>a, <3>3 DEF Sound, Moves, Of, PassesCheck
    <3> QED
      BY <1>0, <1>4, <3>3, <3>4, OnlyItsCall DEF Moves, PassesCheck
  <2> QED
    BY <2>1, <2>2
<1>5. CASE InputRefused(o)
  BY <1>3, <1>5 DEF InputRefused
<1>6. CASE RemoteCallFails(o)
  BY <1>3, <1>6 DEF RemoteCallFails
<1>7. CASE Stage(o)
  <2> DEFINE u == IF op[o].mode \in {"sync", "setup", "system"} THEN "directory" ELSE remote.upload[o]
  <2>1. u \in {"none", "directory", "partial", "whole"} /\ remote' = [remote EXCEPT !.upload[o] = u]
    BY <1>0, <1>7 DEF Stage, PcValues
  <2> HIDE DEF u
  <2>2. Leaves(o, u, remote.task[o], remote.kept[o])
    BY <1>0, <2>1, PutUpload
  <2>3. Moves(o, "copy", op[o].failing, op[o].job) \/ Moves(o, "failed", TRUE, op[o].job)
    BY <1>7, Gone, Thrown, StepTable DEF Stage, GoesOn, StepNames
  <2>4. Sound(o)'
    BY <1>7, <1>a, <2>2, <2>3 DEF Sound, Moves, Leaves, Of, Stage
  <2> QED
    BY <1>c, <2>2, <2>3, <2>4
<1>8. ASSUME NEW result \in {"partial", "whole"}, Copy(o, result) PROVE TargetInv'
  <2>1. Leaves(o, result, remote.task[o], remote.kept[o])
    BY <1>0, <1>8, PutUpload DEF Copy
  <2>2. CopyInTry(o) \in BOOLEAN
    BY DEF CopyInTry
  <2>3. \/ Moves(o, "run", op[o].failing, op[o].job)
        \/ Moves(o, IF CopyInTry(o) THEN "undo" ELSE "failed", TRUE, op[o].job)
    BY <1>8, <2>2, Gone, Thrown, StepTable DEF Copy, GoesOn, StepNames
  <2>4. Sound(o)'
    BY <1>8, <1>a, <2>1, <2>2, <2>3 DEF Sound, Moves, Leaves, Of, Copy
  <2> QED
    BY <1>c, <2>1, <2>3, <2>4
<1>9. CASE Launch(o)
  <2>1. Moves(o, op[o].at, op[o].failing, "sent") /\ UNCHANGED remote
    BY <1>9, JobSet DEF Launch
  <2>2. Sound(o)'
    BY <1>9, <1>a, <2>1 DEF Sound, Moves, Of, Launch
  <2> QED
    BY <1>0, <2>1, <2>2, OnlyItsCall DEF Moves
<1>10. CASE JobStarts(o)
  <2> DEFINE t == Of(o).task # "none"
  <2>1. Moves(o, op[o].at, op[o].failing, "running")
    BY <1>10, JobSet DEF JobStarts
  <2>2. t \in BOOLEAN /\ remote' = [remote EXCEPT !.task[o] = t, !.kept[o] = Of(o).keeps]
    BY <1>10, Zenon DEF JobStarts
  <2> HIDE DEF t
  <2>3. Leaves(o, remote.upload[o], t, Of(o).keeps)
    BY <1>0, <1>a, <2>2, PutTask
  <2>4. Sound(o)'
    BY <1>10, <1>a, <2>1, <2>3 DEF Sound, Moves, Leaves, Of, JobStarts
  <2> QED
    BY <1>c, <2>1, <2>3, <2>4
<1>11. CASE ScriptMoves(o)
  <2>1. PICK s \in remote.stale : remote' = [remote EXCEPT !.stale = @ \ {s}]
    BY <1>11 DEF ScriptMoves
  <2>2. remote' \in PcValues /\ \A x \in Operations : PcKeeps(x)
    BY <1>0, <2>1 DEF PcValues, PcKeeps
  <2> QED
    BY <1>0, <1>11, <2>2, Untouched DEF ScriptMoves, OperationsSound
<1>12. CASE JobEnds(o)
  <2> DEFINE u == IF op[o].mode = "setup" /\ remote.upload[o] # "none" THEN "directory" ELSE "none"
  <2>1. Moves(o, op[o].at, op[o].failing, "ok")
    BY <1>12, JobSet DEF JobEnds
  <2>2. u \in Emptied(op[o].mode) /\ remote' = [remote EXCEPT !.task[o] = FALSE, !.upload[o] = u]
    BY <1>0, <1>12 DEF JobEnds, Emptied, PcValues
  <2> HIDE DEF u
  <2>3. Leaves(o, u, FALSE, remote.kept[o])
    BY <1>0, <2>2, PutEnd DEF Emptied
  <2>4. Sound(o)'
    BY <1>12, <1>a, <2>1, <2>2, <2>3 DEF Sound, Moves, Leaves, Of, JobEnds
  <2> QED
    BY <1>c, <2>1, <2>3, <2>4
<1>13. CASE JobBreaks(o)
  <2>1. PICK u \in {"none", remote.upload[o]}, t \in {FALSE, remote.task[o]}, k \in {FALSE, remote.kept[o]} :
            remote' = [remote EXCEPT !.upload[o] = u, !.task[o] = t, !.kept[o] = k]
    BY <1>13 DEF JobBreaks
  <2>2. u \in {"none", "directory", "partial", "whole"} /\ t \in BOOLEAN /\ k \in BOOLEAN
    BY <1>0 DEF PcValues
  <2>3. Leaves(o, u, t, k)
    BY <1>0, <2>1, <2>2, PutBroken
  <2>4. Moves(o, op[o].at, op[o].failing, "bad")
    BY <1>13, JobSet DEF JobBreaks
  <2>5. Sound(o)'
    BY <1>13, <1>a, <2>3, <2>4 DEF Sound, Moves, Leaves, Of, JobBreaks
  <2> QED
    BY <1>c, <2>3, <2>4, <2>5
<1>14. CASE RunReturns(o)
  <2> DEFINE f == op[o].job # "ok"
  <2>1. f \in BOOLEAN /\ op' = [op EXCEPT ![o].at = "undo", ![o].failing = f]
    BY <1>14, Zenon DEF RunReturns
  <2>2. f => op[o].job # "ok"
    OBVIOUS
  <2>3. ~f => op[o].job = "ok"
    OBVIOUS
  <2> HIDE DEF f
  <2>4. Moves(o, "undo", f, op[o].job)
    BY <2>1, Judged DEF StepNames
  <2>5. Sound(o)'
    BY <1>14, <1>a, <2>1, <2>2, <2>3, <2>4 DEF Sound, Moves, Of, RunReturns
  <2> QED
    BY <1>0, <1>14, <2>4, <2>5, OnlyItsCall DEF Moves, RunReturns
<1>15. CASE Undo(o)
  <2>1. PICK u \in {"none", remote.upload[o]} : remote' = [remote EXCEPT !.upload[o] = u]
    BY <1>15 DEF Undo
  <2>2. Leaves(o, u, remote.task[o], remote.kept[o])
    <3>1. remote.upload[o] \in {"none", "directory", "partial", "whole"}
      BY <1>0 DEF PcValues
    <3>2. u \in {"none", "directory", "partial", "whole"}
      BY <2>1, <3>1
    <3>3. remote \in PcValues
      BY <1>0
    <3> QED
      BY <2>1, <3>2, <3>3, PutUpload
  <2>3. CASE op[o].failing
    <3>1. Moves(o, "failed", op[o].failing, op[o].job)
      BY <1>15, <2>3, Gone DEF Undo, StepNames
    <3>2. Sound(o)'
      BY <1>15, <1>a, <2>2, <2>3, <3>1 DEF Sound, Moves, Leaves, Of, Undo, Emptied
    <3> QED
      BY <1>c, <2>2, <3>1, <3>2
  <2>4. CASE ~op[o].failing
    <3>1. \E a \in {"fetch", "audit"} : Goes(o, a) /\ (a = "audit" => ~Of(o).keeps)
      BY <1>15, <1>a, <2>4, StepTable DEF Undo, GoesOn
    <3>2. PICK a \in {"fetch", "audit"} : Moves(o, a, op[o].failing, op[o].job) /\ (a = "audit" => ~Of(o).keeps)
      BY <3>1, Gone DEF StepNames
    <3>3. Sound(o)'
      BY <1>15, <1>a, <2>2, <2>4, <3>2 DEF Sound, Moves, Leaves, Of, Undo, Emptied
    <3> QED
      BY <1>c, <2>2, <3>2, <3>3
  <2> QED
    BY <2>3, <2>4
<1>16. CASE Fetch(o)
  <2>1. CASE op[o].mode = "pull"
    <3>1. Moves(o, "audit", op[o].failing, op[o].job) /\ UNCHANGED remote
      BY <1>16, <2>1, Gone DEF Fetch, StepNames
    <3>2. ~Of(o).keeps
      BY <2>1, <1>0, ModeTable DEF Of, OpValues
    <3>3. Sound(o)'
      BY <1>16, <1>a, <3>1, <3>2 DEF Sound, Moves, Of, Fetch
    <3> QED
      BY <1>0, <3>1, <3>3, OnlyItsCall DEF Moves
  <2>2. CASE op[o].mode # "pull"
    <3>1. Moves(o, "tidy", op[o].failing, op[o].job) /\ UNCHANGED remote
      BY <1>16, <2>2, Gone, StepTable DEF Fetch, GoesOn, StepNames
    <3>2. Sound(o)'
      BY <1>16, <1>a, <3>1 DEF Sound, Moves, Of, Fetch
    <3> QED
      BY <1>0, <3>1, <3>2, OnlyItsCall DEF Moves
  <2> QED
    BY <2>1, <2>2
<1>17. ASSUME NEW run \in Operations, Tidy(o, run) PROVE TargetInv'
  <2>1. Leaves(run, remote.upload[run], remote.task[run], FALSE)
    BY <1>0, <1>17, PutKept DEF Tidy
  <2>2. Moves(o, "audit", op[o].failing, op[o].job) \/ Moves(o, "failed", TRUE, op[o].job)
    BY <1>17, Gone, Thrown, StepTable DEF Tidy, GoesOn, StepNames
  <2>3. CASE run = o
    <3>1. Sound(o)'
      BY <1>17, <1>a, <2>1, <2>2, <2>3 DEF Sound, Moves, Leaves, Of, Tidy
    <3> QED
      BY <1>c, <2>1, <2>2, <2>3, <3>1
  <2>4. CASE run # o
    <3>1. op[o].mode = "cleanup"
      BY <1>17, <2>4 DEF Tidy
    <3>2. ~Of(o).keeps
      BY <3>1, <1>0, ModeTable DEF Of, OpValues
    <3>3. PcKeeps(o)
      BY <2>1, <2>4 DEF Leaves
    <3>4. Sound(o)'
      BY <1>17, <1>a, <2>2, <3>2, <3>3 DEF Sound, Moves, PcKeeps, Of, Tidy
    <3>5. Sound(run)'
      BY <1>0, <2>1, <2>2, <2>4 DEF Sound, Moves, OthersStay, Leaves, Of
    <3>6. \A x \in Operations \ {o, run} : Sound(x)'
      BY <1>0, <2>1, <2>2, Untouched DEF Moves, OthersStay, Leaves
    <3> QED
      BY <1>0, <2>1, <2>2, <3>4, <3>5, <3>6 DEF OperationsSound, Moves, Leaves
  <2> QED
    BY <2>3, <2>4
<1>18. CASE Audit(o)
  <2>1. Moves(o, "complete", op[o].failing, op[o].job) /\ UNCHANGED remote
    BY <1>18, Gone, StepTable DEF Audit, GoesOn, StepNames
  <2>2. Sound(o)'
    BY <1>18, <1>a, <2>1 DEF Sound, Moves, Of, Audit
  <2> QED
    BY <1>0, <2>1, <2>2, OnlyItsCall DEF Moves
<1>19. CASE PushStage(o)
  <2>1. Moves(o, "copy", op[o].failing, op[o].job) /\ UNCHANGED remote
    BY <1>19, Gone DEF PushStage, StepNames
  <2>2. Sound(o)'
    BY <1>19, <1>a, <2>1 DEF Sound, Moves, Of, PushStage
  <2> QED
    BY <1>0, <2>1, <2>2, OnlyItsCall DEF Moves
<1>20. ASSUME NEW result \in {"partial", o}, PushCopy(o, result) PROVE TargetInv'
  <2>1. remote' \in PcValues /\ \A x \in Operations : PcKeeps(x)
    BY <1>0, <1>20, PutArtifact DEF PushCopy
  <2>2. Moves(o, "run", op[o].failing, op[o].job) \/ Moves(o, "undo", TRUE, op[o].job)
    BY <1>20, Gone, Thrown DEF PushCopy, StepNames
  <2>3. Sound(o)'
    BY <1>20, <1>a, <2>1, <2>2 DEF Sound, Moves, PcKeeps, Of, PushCopy
  <2> QED
    BY <1>0, <2>1, <2>2, <2>3, OnlyItself DEF Moves
<1>21. CASE PushInspect(o)
  <2>1. /\ Moves(o, "audit", op[o].failing, op[o].job) \/ Moves(o, "undo", TRUE, op[o].job)
        /\ UNCHANGED remote
    BY <1>21, Gone, Thrown DEF PushInspect, StepNames
  <2>2. Sound(o)'
    BY <1>21, <1>a, <2>1 DEF Sound, Moves, Of, PushInspect
  <2> QED
    BY <1>0, <2>1, <2>2, OnlyItsCall DEF Moves
<1>22. CASE PushUndo(o)
  <2>1. PICK artifact \in {"none", remote.artifact} : remote' = [remote EXCEPT !.artifact = artifact]
    BY <1>22 DEF PushUndo
  <2>2. remote' \in PcValues /\ \A x \in Operations : PcKeeps(x)
    BY <1>0, <2>1, PutArtifact DEF PcValues
  <2>3. Moves(o, "failed", op[o].failing, op[o].job)
    BY <1>22, Gone DEF PushUndo, StepNames
  <2>4. Sound(o)'
    BY <1>22, <1>a, <2>2, <2>3 DEF Sound, Moves, PcKeeps, Of, PushUndo
  <2> QED
    BY <1>0, <2>2, <2>3, <2>4, OnlyItself DEF Moves
<1> QED
  BY <1>2, <1>4, <1>5, <1>6, <1>7, <1>8, <1>9, <1>10, <1>11, <1>12, <1>13, <1>14, <1>15, <1>16, <1>17, <1>18,
     <1>19, <1>20, <1>21, <1>22 DEF OperationStep

LEMMA TargetStart ==
    ASSUME TargetInit
    PROVE  TargetInv /\ PushesApart
<1>1. /\ op \in [Operations -> OpValues] /\ remote \in PcValues
      /\ \A o \in Operations :
            /\ op[o] = [mode |-> "status", at |-> "idle", failing |-> FALSE, job |-> "none"]
            /\ remote.upload[o] = "none" /\ remote.task[o] = FALSE /\ remote.kept[o] = FALSE
  <2>1. [mode |-> "status", at |-> "idle", failing |-> FALSE, job |-> "none"] \in OpValues
    BY ModeTable DEF OpValues, StepNames
  <2> QED
    BY <2>1 DEF TargetInit, PcValues
<1>2. TargetTypeOK
  BY <1>1 DEF TargetTypeOK, OpValues, PcValues
<1>3. OperationsSound
  BY <1>1 DEF OperationsSound, Sound
<1>4. PushesApart
  BY <1>1 DEF PushesApart
<1> QED
  BY <1>2, <1>3, <1>4 DEF TargetInv

\* A step of an operation that is no push, and of a push that takes no artifact away.
LEMMA NotAPush ==
    ASSUME PushesApart, NEW o \in Operations, OthersStay(o), remote'.artifact = remote.artifact,
           op'[o].mode # "push"
    PROVE  PushesApart'
<1>1. \A x \in Operations : op'[x].mode = "push" => x # o /\ op'[x] = op[x]
  BY DEF OthersStay
<1> QED
  BY <1>1 DEF PushesApart

LEMMA PushMoves ==
    ASSUME TargetInv, PushesApart, NEW o \in Operations, NEW a, OthersStay(o), remote'.artifact = remote.artifact,
           op[o].mode = "push", op'[o].mode = "push", op'[o].at = a, op[o].at \notin {"idle", "complete", "failed"},
           \/ a = "failed"
           \/ a = "stage"
           \/ a \in {"copy", "run", "undo"} /\ op[o].at \in {"copy", "run", "undo"}
           \/ a = "copy" /\ remote.artifact = "none" /\ "none" \notin Operations
           \/ a = "audit" /\ remote.artifact = o /\ op[o].at \in {"copy", "run", "undo"}
           \/ a = "complete" /\ op[o].at = "audit"
    PROVE  PushesApart'
<1>1. ASSUME NEW x \in Operations \ {o}, op'[x].mode = "push"
      PROVE  /\ op[x] = op'[x] /\ op[x].mode = "push" /\ op[x].at \in {"idle", "complete", "failed"}
             /\ op[o].at \in {"copy", "run", "undo"} => op[x].at # "complete"
             /\ op[x].at \in {"audit", "complete"} => remote.artifact = x
  BY <1>1 DEF PushesApart, OthersStay
<1>2. ASSUME NEW x \in Operations \ {o}, op'[x].mode = "push", a \in {"copy", "run", "undo"}
      PROVE  op'[x].at # "complete"
  BY <1>1, <1>2
<1>3. a \in {"audit", "complete"} => remote.artifact = o
  BY DEF PushesApart
<1>4. a \notin {"fetch", "tidy"}
  BY DEF PushesApart
<1>5. ASSUME NEW x \in Operations, NEW y \in Operations, op'[x].mode = "push", op'[y].mode = "push", x # y
      PROVE  /\ op'[x].at \in {"idle", "complete", "failed"} \/ op'[y].at \in {"idle", "complete", "failed"}
             /\ op'[x].at \in {"copy", "run", "undo"} => op'[y].at # "complete"
  <2>1. CASE x = o
    BY <1>1, <1>2, <1>5, <2>1
  <2>2. CASE y = o
    BY <1>1, <1>5, <2>2
  <2>3. CASE x # o /\ y # o
    BY <1>1, <1>5, <2>3
  <2> QED
    BY <2>1, <2>2, <2>3
<1>6. ASSUME NEW x \in Operations, op'[x].mode = "push"
      PROVE  /\ op'[x].at \notin {"fetch", "tidy"}
             /\ op'[x].at \in {"audit", "complete"} => remote'.artifact = x
  <2>1. CASE x = o
    BY <1>3, <1>4, <2>1
  <2>2. CASE x # o
    BY <1>1, <1>6, <2>2 DEF PushesApart
  <2> QED
    BY <2>1, <2>2
<1> QED
  BY <1>5, <1>6 DEF PushesApart

LEMMA PushesStep ==
    ASSUME TargetInv, PushesApart, ~PushesOverlap, [TargetNext]_targetVars
    PROVE  PushesApart'
<1>0. /\ op \in [Operations -> OpValues] /\ remote \in PcValues /\ TargetTypeOK
      /\ \A x \in Operations : op[x].mode = "push" => op[x].job = "none"
      /\ "none" \notin Operations
  BY TargetAssumption DEF TargetInv, TargetTypeOK, OpValues, PcValues, OperationsSound, Sound
<1>1. CASE UNCHANGED targetVars
  BY <1>1 DEF PushesApart, targetVars
<1> SUFFICES ASSUME NEW o \in Operations, OperationStep(o)
             PROVE  PushesApart'
  BY <1>1 DEF TargetNext
<1>2. ASSUME NEW m \in DOMAIN Modes, Invoke(o, m) \/ ProfilesRefused(o, m) PROVE PushesApart'
  <2>1. /\ OthersStay(o) /\ op[o].at = "idle" /\ UNCHANGED remote
        /\ op'[o].mode = m /\ op'[o].at \in {"check", "failed"}
    BY <1>0, <1>2, Begun
  <2>2. CASE m # "push"
    BY <2>1, <2>2, NotAPush
  <2>3. CASE m = "push"
    <3>1. ASSUME NEW x \in Operations \ {o}
          PROVE  /\ op'[x] = op[x]
                 /\ op'[o].at = "check" /\ op[x].mode = "push" => op[x].at \in {"idle", "complete", "failed"}
      <4>1. op'[o].at = "check" => Invoke(o, m)
        <5>1. ASSUME ProfilesRefused(o, m) PROVE op'[o].at = "failed"
          BY <1>0, <5>1 DEF ProfilesRefused
        <5> QED
          BY <1>2, <5>1
      <4> QED
        BY <2>1, <2>3, <4>1 DEF OthersStay, Invoke
    <3>2. \A x, y \in Operations :
              op'[x].mode = "push" /\ op'[y].mode = "push" /\ x # y =>
                  /\ op'[x].at \in {"idle", "complete", "failed"} \/ op'[y].at \in {"idle", "complete", "failed"}
                  /\ op'[x].at \in {"copy", "run", "undo"} => op'[y].at # "complete"
      BY <2>1, <3>1 DEF PushesApart
    <3>3. \A x \in Operations : op'[x].mode = "push" =>
              /\ op'[x].at \notin {"fetch", "tidy"}
              /\ op'[x].at \in {"audit", "complete"} => remote'.artifact = x
      BY <2>1, <3>1 DEF PushesApart
    <3> QED
      BY <3>2, <3>3 DEF PushesApart
  <2> QED
    BY <2>2, <2>3
\* Whatever is no push.
<1>3. ASSUME NEW a, NEW f, NEW j, Moves(o, a, f, j), op[o].mode # "push", remote'.artifact = remote.artifact
      PROVE  PushesApart'
  BY <1>3, NotAPush DEF Moves
<1>4. ASSUME NEW inTry \in BOOLEAN, Throws(o, inTry), UNCHANGED remote,
             op[o].at \notin {"idle", "complete", "failed"},
             op[o].mode = "push" /\ inTry => op[o].at \in {"copy", "run", "undo"}
      PROVE  PushesApart'
  <2>1. Moves(o, IF inTry THEN "undo" ELSE "failed", TRUE, op[o].job)
    BY <1>0, <1>4, Thrown
  <2> QED
    BY <1>3, <1>4, <2>1, PushMoves DEF Moves
<1>5. CASE PassesCheck(o)
  <2>1. CASE op[o].mode = "push"
    <3>1. Moves(o, "stage", op[o].failing, op[o].job) /\ UNCHANGED remote
      BY <1>0, <1>5, <2>1, Gone DEF PassesCheck, StepNames
    <3> QED
      BY <1>5, <2>1, <3>1, PushMoves DEF Moves, PassesCheck
  <2>2. CASE op[o].mode # "push"
    <3>1. PICK a \in StepNames : Goes(o, a)
      <4>1. op[o].mode = "cleanup" \/ op[o].mode = "pull" => \E a \in {"tidy", "fetch"} : Goes(o, a)
        BY <1>5, <2>2 DEF PassesCheck
      <4>2. op[o].mode \notin {"cleanup", "pull"} => GoesOn(o)
        BY <1>5, <2>2 DEF PassesCheck
      <4>3. NextStep(Of(o), "check") \in StepNames
        BY StepTable DEF StepNames
      <4> QED
        BY <1>5, <4>1, <4>2, <4>3 DEF GoesOn, StepNames, PassesCheck
    <3> QED
      BY <1>0, <1>3, <1>5, <2>2, <3>1, Gone DEF PassesCheck
  <2> QED
    BY <2>1, <2>2
<1>6. CASE InputRefused(o)
  BY <1>4, <1>6 DEF InputRefused
<1>7. CASE RemoteCallFails(o)
  BY <1>4, <1>7 DEF RemoteCallFails
\* The actions no push takes: its run is not sent, and the others name it.
<1>8. CASE Stage(o)
  <2>1. Moves(o, "copy", op[o].failing, op[o].job) \/ Moves(o, "failed", TRUE, op[o].job)
    BY <1>0, <1>8, Gone, Thrown, StepTable DEF Stage, GoesOn, StepNames
  <2>2. op[o].mode # "push" /\ remote'.artifact = remote.artifact
    BY <1>0, <1>8 DEF Stage, PcValues
  <2> QED
    BY <1>3, <2>1, <2>2
<1>9. ASSUME NEW result \in {"partial", "whole"}, Copy(o, result) PROVE PushesApart'
  <2>1. CopyInTry(o) \in BOOLEAN
    BY DEF CopyInTry
  <2>2. \/ Moves(o, "run", op[o].failing, op[o].job)
        \/ Moves(o, IF CopyInTry(o) THEN "undo" ELSE "failed", TRUE, op[o].job)
    BY <1>0, <1>9, <2>1, Gone, Thrown, StepTable DEF Copy, GoesOn, StepNames
  <2>3. op[o].mode # "push" /\ remote'.artifact = remote.artifact
    BY <1>0, <1>9 DEF Copy, PcValues
  <2> QED
    BY <1>3, <2>2, <2>3
<1>10. CASE Launch(o)
  BY <1>0, <1>3, <1>10, JobSet DEF Launch
<1>11. CASE JobStarts(o) \/ JobEnds(o) \/ JobBreaks(o)
  <2>1. \E j \in {"running", "ok", "bad"} : Moves(o, op[o].at, op[o].failing, j)
    BY <1>0, <1>11, JobSet DEF JobStarts, JobEnds, JobBreaks
  <2>2. op[o].mode # "push"
    BY <1>0, <1>11 DEF JobStarts, JobEnds, JobBreaks
  <2>3. remote'.artifact = remote.artifact
    <3>1. CASE JobStarts(o)
      BY <1>0, <3>1 DEF JobStarts, PcValues
    <3>2. CASE JobEnds(o)
      BY <1>0, <3>2 DEF JobEnds, PcValues
    <3>3. CASE JobBreaks(o)
      BY <1>0, <3>3 DEF JobBreaks, PcValues
    <3> QED
      BY <1>11, <3>1, <3>2, <3>3
  <2> QED
    BY <1>3, <2>1, <2>2, <2>3
<1>12. CASE ScriptMoves(o)
  <2>1. remote'.artifact = remote.artifact /\ op' = op
    BY <1>0, <1>12 DEF ScriptMoves, PcValues
  <2> QED
    BY <2>1 DEF PushesApart
<1>13. CASE RunReturns(o)
  <2>1. Moves(o, "undo", op[o].job # "ok", op[o].job)
    BY <1>0, <1>13, Judged, Zenon DEF RunReturns, StepNames
  <2>2. op[o].mode # "push" /\ remote'.artifact = remote.artifact
    BY <1>0, <1>13 DEF RunReturns
  <2> QED
    BY <1>3, <2>1, <2>2
<1>14. CASE Undo(o)
  <2>1. op[o].mode # "push" /\ remote'.artifact = remote.artifact
    BY <1>0, <1>14 DEF Undo, PcValues
  <2>2. PICK a \in StepNames : Goes(o, a)
    <3>1. NextStep(Of(o), "undo") \in StepNames
      BY StepTable DEF StepNames
    <3> QED
      BY <1>14, <3>1 DEF Undo, GoesOn, StepNames
  <2> QED
    BY <1>0, <1>3, <2>1, <2>2, Gone
<1>15. ASSUME op[o].at \in {"fetch", "tidy"}, NEW a \in StepNames, Goes(o, a), remote'.artifact = remote.artifact
       PROVE  PushesApart'
  BY <1>0, <1>3, <1>15, Gone DEF PushesApart
<1>16. CASE Fetch(o)
  <2>1. \E a \in StepNames : Goes(o, a)
    BY <1>16, StepTable DEF Fetch, GoesOn, StepNames
  <2> QED
    BY <1>15, <1>16, <2>1 DEF Fetch
<1>17. ASSUME NEW run \in Operations, Tidy(o, run) PROVE PushesApart'
  <2>1. remote'.artifact = remote.artifact
    BY <1>0, <1>17 DEF Tidy, PcValues
  <2>2. CASE GoesOn(o)
    <3>1. \E a \in StepNames : Goes(o, a)
      BY <1>17, <2>2, StepTable DEF Tidy, GoesOn, StepNames
    <3> QED
      BY <1>15, <1>17, <2>1, <3>1 DEF Tidy
  <2>3. CASE Throws(o, FALSE)
    <3>1. Moves(o, "failed", TRUE, op[o].job)
      BY <1>0, <2>3, Thrown
    <3>2. op[o].mode # "push"
      BY <1>17 DEF Tidy, PushesApart
    <3> QED
      BY <1>3, <2>1, <3>1, <3>2
  <2> QED
    BY <1>17, <2>2, <2>3 DEF Tidy
<1>18. CASE Audit(o)
  <2>1. Moves(o, "complete", op[o].failing, op[o].job) /\ UNCHANGED remote
    BY <1>0, <1>18, Gone, StepTable DEF Audit, GoesOn, StepNames
  <2> QED
    BY <1>3, <1>18, <2>1, PushMoves DEF Moves, Audit
<1>19. CASE PushStage(o)
  <2>1. Moves(o, "copy", op[o].failing, op[o].job) /\ UNCHANGED remote
    BY <1>0, <1>19, Gone DEF PushStage, StepNames
  <2> QED
    BY <1>0, <1>19, <2>1, PushMoves DEF Moves, PushStage
\* The copy, and the removal of a failed one, touch the artifact while no other push has delivered it.
<1>20. ASSUME NEW a \in {"run", "undo", "failed"}, NEW f, NEW j, Moves(o, a, f, j), op[o].mode = "push",
              op[o].at \in {"copy", "run", "undo"}
       PROVE  PushesApart'
  <2>1. ASSUME NEW x \in Operations \ {o}, op'[x].mode = "push"
        PROVE  op'[x] = op[x] /\ op[x].at \in {"idle", "failed"}
    BY <1>20, <2>1 DEF PushesApart, Moves, OthersStay
  <2>2. op'[o].at = a /\ op'[o].mode = "push"
    BY <1>20 DEF Moves
  <2> QED
    BY <2>1, <2>2 DEF PushesApart
<1>21. ASSUME NEW result \in {"partial", o}, PushCopy(o, result) PROVE PushesApart'
  <2>1. Moves(o, "run", op[o].failing, op[o].job) \/ Moves(o, "undo", TRUE, op[o].job)
    BY <1>0, <1>21, Gone, Thrown DEF PushCopy, StepNames
  <2> QED
    BY <1>20, <1>21, <2>1 DEF PushCopy
<1>22. CASE PushInspect(o)
  <2>1. CASE Goes(o, "audit") /\ remote.artifact = o
    <3>1. Moves(o, "audit", op[o].failing, op[o].job) /\ UNCHANGED remote
      BY <1>0, <1>22, <2>1, Gone DEF PushInspect, StepNames
    <3> QED
      BY <1>22, <2>1, <3>1, PushMoves DEF Moves, PushInspect
  <2>2. CASE Throws(o, TRUE)
    BY <1>4, <1>22, <2>2 DEF PushInspect
  <2> QED
    BY <1>22, <2>1, <2>2 DEF PushInspect
<1>23. CASE PushUndo(o)
  <2>1. Moves(o, "failed", op[o].failing, op[o].job)
    BY <1>0, <1>23, Gone DEF PushUndo, StepNames
  <2> QED
    BY <1>20, <1>23, <2>1 DEF PushUndo
<1> QED
  BY <1>2, <1>5, <1>6, <1>7, <1>8, <1>9, <1>10, <1>11, <1>12, <1>13, <1>14, <1>16, <1>17, <1>18,
     <1>19, <1>21, <1>22, <1>23 DEF OperationStep

\* For any number of operations, overlapping pushes included, every step keeps the types and
\* what an operation and the PC know of each other: what reports completion left nothing.
THEOREM OperationsEndClean == TargetSpec => []TargetInv
<1>1. TargetInit => TargetInv
  BY TargetStart
<1>2. TargetInv /\ [TargetNext]_targetVars => TargetInv'
  BY TargetStep
<1> QED
  BY <1>1, <1>2, PTL DEF TargetSpec

\* An operation whose report is out does nothing more.
LEMMA CompleteStays ==
    ASSUME TargetInv, [TargetNext]_targetVars, NEW o \in Operations, op[o].at = "complete"
    PROVE  op'[o] = op[o]
<1>0. op \in [Operations -> OpValues] /\ TargetTypeOK /\ op[o].job \in {"none", "ok"}
  BY DEF TargetInv, TargetTypeOK, OpValues, OperationsSound, Sound
<1>1. CASE UNCHANGED targetVars
  BY <1>1 DEF targetVars
<1> SUFFICES ASSUME NEW x \in Operations, OperationStep(x)
             PROVE  op'[o] = op[o]
  BY <1>1 DEF TargetNext
<1>2. CASE x = o
  <2>1. ScriptMoves(x)
    BY <1>0, <1>2 DEF OperationStep, Invoke, ProfilesRefused, PassesCheck, InputRefused, RemoteCallFails, Stage,
      Launch, RunReturns, Undo, Fetch, Audit, Copy, Tidy, JobStarts, JobEnds, JobBreaks, PushStage, PushInspect,
      PushUndo, PushCopy
  <2> QED
    BY <2>1 DEF ScriptMoves
<1>3. CASE x # o
  <2>1. \A a : Goes(x, a) => op'[o] = op[o]
    BY <1>0, <1>3 DEF Goes
  <2>2. \A inTry \in BOOLEAN : Throws(x, inTry) => op'[o] = op[o]
    BY <1>0, <1>3 DEF Throws
  <2>3. CASE \E m \in DOMAIN Modes : Invoke(x, m) \/ ProfilesRefused(x, m)
    BY <1>0, <1>3, <2>3, Begun DEF OthersStay
  <2>4. CASE Launch(x) \/ JobStarts(x) \/ JobEnds(x) \/ JobBreaks(x) \/ ScriptMoves(x) \/ RunReturns(x)
    BY <1>0, <1>3, <2>4 DEF Launch, JobStarts, JobEnds, JobBreaks, ScriptMoves, RunReturns
  <2>5. CASE PassesCheck(x)
    <3>1. CASE op[x].mode = "cleanup"
      BY <2>1, <2>5, <3>1 DEF PassesCheck
    <3>2. CASE op[x].mode = "push"
      BY <2>1, <2>5, <3>2 DEF PassesCheck
    <3>3. CASE op[x].mode = "pull"
      BY <2>1, <2>5, <3>3 DEF PassesCheck
    <3>4. CASE op[x].mode \notin {"cleanup", "push", "pull"}
      BY <2>1, <2>5, <3>4 DEF PassesCheck, GoesOn
    <3> QED
      BY <3>1, <3>2, <3>3, <3>4
  <2>6. CASE \E result \in {"partial", "whole"} : Copy(x, result)
    <3>1. CopyInTry(x) \in BOOLEAN
      BY DEF CopyInTry
    <3> QED
      BY <2>1, <2>2, <2>6, <3>1 DEF Copy, GoesOn
  <2>7. CASE InputRefused(x) \/ RemoteCallFails(x) \/ Stage(x)
    BY <2>1, <2>2, <2>7 DEF InputRefused, RemoteCallFails, Stage, GoesOn, CopyInTry
  <2>8. CASE Undo(x) \/ Fetch(x) \/ Audit(x) \/ \E run \in Operations : Tidy(x, run)
    BY <2>1, <2>2, <2>8 DEF Undo, Fetch, Audit, Tidy, GoesOn
  <2>9. CASE PushStage(x) \/ PushInspect(x) \/ PushUndo(x) \/ \E result \in {"partial", x} : PushCopy(x, result)
    BY <2>1, <2>2, <2>9 DEF PushStage, PushInspect, PushUndo, PushCopy
  <2> QED
    BY <2>3, <2>4, <2>5, <2>6, <2>7, <2>8, <2>9 DEF OperationStep
<1> QED
  BY <1>2, <1>3

\* For any number of operations of which no two pushes overlap: what was reported complete left
\* nothing behind, what failed after its run had succeeded left at most its run directory, and a
\* delivered artifact stays (the checks and finally blocks of every mode of the tool).
THEOREM ReportsHoldForAll ==
    ASSUME ~PushesOverlap
    PROVE  TargetSpec => ReportsHold
<1> DEFINE Inv == TargetInv /\ PushesApart
           Holds(o) ==
               /\ op'[o].at = "complete" => ~remote'.kept[o] /\ op'[o].job \in {"none", "ok"}
               /\ op'[o].at = "complete" \/ (op'[o].at = "failed" /\ op'[o].job = "ok") =>
                     remote'.upload[o] \in Emptied(op'[o].mode) /\ ~remote'.task[o]
               /\ op[o].at = "complete" /\ op[o].mode = "push" => remote'.artifact = o
<1>1. TargetInit => Inv
  BY TargetStart
<1>2. Inv /\ [TargetNext]_targetVars => Inv'
  BY TargetStep, PushesStep
<1>3. Inv /\ Inv' /\ [TargetNext]_targetVars => [\A o \in Operations : Holds(o)]_targetVars
  <2> SUFFICES ASSUME Inv, Inv', [TargetNext]_targetVars, NEW o \in Operations
               PROVE  Holds(o)
    OBVIOUS
  <2>1. /\ op'[o].at = "complete" => ~remote'.kept[o] /\ op'[o].job \in {"none", "ok"}
        /\ op'[o].at = "complete" \/ (op'[o].at = "failed" /\ op'[o].job = "ok") =>
              remote'.upload[o] \in Emptied(op'[o].mode) /\ ~remote'.task[o]
    BY DEF TargetInv, OperationsSound, Sound, Emptied
  <2>2. op[o].at = "complete" => op'[o] = op[o]
    BY CompleteStays
  <2>3. op[o].at = "complete" /\ op[o].mode = "push" => remote'.artifact = o
    BY <2>2 DEF PushesApart
  <2> QED
    BY <2>1, <2>3
<1> QED
  BY <1>1, <1>2, <1>3, PTL DEF TargetSpec, ReportsHold

-----------------------------------------------------------------------------
(* The Viewer's main process.                                              *)

Connections == Pipes \cup {NoPipe}
ViewerValues ==
    [run : {"running", "gaveUp", "exited"}, connection : Connections, lease : Connections,
     page : {"blank", "setup", "live"}, setupVisible : BOOLEAN, url : BOOLEAN, timer : BOOLEAN,
     heartbeat : [pipe : Connections, lease : Connections], load : 0..Reload]
ShowValues ==
    [kind : Kinds, at : Stages, own : Connections, on : Connections, live : BOOLEAN, again : BOOLEAN]

Asking == {"status", "configuring", "acquiring"}

\* A call waits on the connection in use or on none, and only one that is not a save connects.
Fits(s, connection) ==
    /\ s.at \in Asking => s.on # NoPipe
    /\ s.at \in {"idle", "connecting", "loading", "setup"} => s.on = NoPipe
    /\ s.on \in {NoPipe, connection} /\ s.own \in {NoPipe, connection}
    /\ s.kind = "save" => s.at \notin {"connecting", "status"}
    /\ s.at = "connecting" => connection = NoPipe

AllFit == \A i \in Shows : Fits(shows[i], viewer.connection)

OneConnects ==
    \A i, j \in Shows : shows[i].at = "connecting" /\ shows[j].at = "connecting" => i = j

InUse == viewer.connection # NoPipe => pipes[viewer.connection] \in {"open", "cut"}

\* Where the setup page is to be seen it is there or being loaded, and nothing loads over it.
SetupIsShown ==
    /\ viewer.url => ~viewer.setupVisible
    /\ viewer.load = Reload => ~viewer.setupVisible
    /\ viewer.setupVisible =>
          /\ viewer.page = "setup" \/ \E j \in Shows : viewer.load = j /\ shows[j].at = "setup"
          /\ \A j \in Shows : viewer.load = j => shows[j].at # "loading"

\* A call that ends with a connection that is kept, with the timer set or with another such call.
Pursues(s) ==
    \/ s.at = "connecting"
    \/ s.at \in {"status", "acquiring", "rejected"} /\ s.kind # "save"
    \/ s.at = "setup" /\ s.again

\* A connection that is kept, or whose end the process will learn of.
Watched ==
    /\ viewer.connection # NoPipe
    /\ \/ pipes[viewer.connection] = "cut" \/ service.holder = viewer.connection
       \/ Beating(viewer.connection) \/ viewer.setupVisible

Pursued == viewer.run = "running" => viewer.timer \/ Watched \/ \E i \in Shows : Pursues(shows[i])

AppInv == AppTypeOK /\ AllFit /\ OneConnects /\ InUse /\ SetupIsShown /\ Pursued

-----------------------------------------------------------------------------

ServiceValues == [up : BOOLEAN, configured : BOOLEAN, online : BOOLEAN, holder : Connections]
CommandValues ==
    [type : {"none", "reload_live", "resubscribe_stream", "restart_viewer"}, on : Connections,
     at : {"idle", "running", "reload", "succeeded", "failed"}]

LEMMA AppTypes ==
    AppTypeOK <=>
        /\ viewer \in ViewerValues /\ shows \in [Shows -> ShowValues] /\ pipes \in [Pipes -> PipeStates]
        /\ service \in ServiceValues /\ command \in CommandValues
        /\ outages \in 0..MaxOutages /\ clicks \in 0..MaxClicks
BY DEF AppTypeOK, ViewerValues, ShowValues, ServiceValues, CommandValues, Connections

LEMMA AppTypesNext ==
    AppTypeOK' <=>
        /\ viewer' \in ViewerValues /\ shows' \in [Shows -> ShowValues] /\ pipes' \in [Pipes -> PipeStates]
        /\ service' \in ServiceValues /\ command' \in CommandValues
        /\ outages' \in 0..MaxOutages /\ clicks' \in 0..MaxClicks
BY DEF AppTypeOK, ViewerValues, ShowValues, ServiceValues, CommandValues, Connections

LEMMA Numbers ==
    /\ MaxShows \in Nat \ {0} /\ Shows = 1..MaxShows /\ 1 \in Shows /\ Reload = MaxShows + 1 /\ NoLoad = 0
    /\ 0 \notin Shows /\ Reload \notin Shows /\ Shows \subseteq 0..Reload /\ 0 \in 0..Reload /\ Reload \in 0..Reload
    /\ MaxOutages \in Nat /\ MaxClicks \in Nat /\ NoPipe \notin Pipes
BY PipesAssumption DEF Shows, Reload, NoLoad

LEMMA IdleIs ==
    /\ Idle \in ShowValues
    /\ Idle.kind = "none" /\ Idle.at = "idle" /\ Idle.own = NoPipe /\ Idle.on = NoPipe /\ ~Idle.live /\ ~Idle.again
BY DEF Idle, ShowValues, Kinds, Stages, Connections

LEMMA AppTypesInit == AppInit => AppTypeOK
<1> SUFFICES ASSUME AppInit PROVE AppTypeOK
  OBVIOUS
<1>1. [Idle EXCEPT !.kind = "launch", !.at = "connecting"] \in ShowValues
  BY DEF Idle, ShowValues, Kinds, Stages, Connections
<1>2. shows \in [Shows -> ShowValues]
  BY <1>1, IdleIs DEF AppInit
<1>3. viewer \in ViewerValues
  BY Numbers DEF AppInit, ViewerValues, NoBeat, Connections
<1>4. pipes \in [Pipes -> PipeStates] /\ service \in ServiceValues /\ command \in CommandValues
  BY DEF AppInit, PipeStates, ServiceValues, CommandValues, NoCommand, Connections
<1>5. outages \in 0..MaxOutages /\ clicks \in 0..MaxClicks
  BY Numbers DEF AppInit
<1> QED
  BY <1>2, <1>3, <1>4, <1>5, AppTypes, AppTypesNext

\* What closing the pipe of a connection does to the calls that wait on it.
LEMMA ClosedShows ==
    ASSUME shows \in [Shows -> ShowValues], NEW c \in Connections
    PROVE  /\ Closed(c) \in [Shows -> ShowValues]
           /\ \A i \in Shows :
                 /\ Closed(c)[i].kind = shows[i].kind /\ Closed(c)[i].live = shows[i].live
                 /\ Closed(c)[i].again = shows[i].again
                 /\ Closed(c)[i].own = IF shows[i].own = c THEN NoPipe ELSE shows[i].own
                 /\ Closed(c)[i].on = IF shows[i].on = c THEN NoPipe ELSE shows[i].on
                 /\ Closed(c)[i].at = IF c # NoPipe /\ shows[i].on = c THEN "rejected" ELSE shows[i].at
           /\ c # NoPipe => RejectPending(c) = Closed(c)
<1>1. CASE c = NoPipe
  BY <1>1 DEF Closed
<1>2. CASE c # NoPipe
  <2>1. \A i \in Shows :
          RejectPending(c)[i] =
              [shows[i] EXCEPT !.own = IF @ = c THEN NoPipe ELSE @, !.on = IF @ = c THEN NoPipe ELSE @,
                               !.at = IF shows[i].on = c THEN "rejected" ELSE @]
    BY DEF RejectPending
  <2>2. \A i \in Shows : shows[i] \in ShowValues
    OBVIOUS
  <2>3. ASSUME NEW i \in Shows
        PROVE  RejectPending(c)[i] \in ShowValues
    <3>1. shows[i] \in ShowValues
      BY <2>2
    <3> DEFINE own == IF shows[i].own = c THEN NoPipe ELSE shows[i].own
               on == IF shows[i].on = c THEN NoPipe ELSE shows[i].on
               at == IF shows[i].on = c THEN "rejected" ELSE shows[i].at
    <3>2. own \in Connections /\ on \in Connections /\ at \in Stages
      BY <3>1 DEF ShowValues, Stages, Connections
    <3>3. RejectPending(c)[i] = [shows[i] EXCEPT !.own = own, !.on = on, !.at = at]
      BY <2>1
    <3> HIDE DEF own, on, at
    <3> QED
      BY <3>1, <3>2, <3>3 DEF ShowValues
  <2>4. RejectPending(c) \in [Shows -> ShowValues]
    BY <2>3 DEF RejectPending
  <2>5. Closed(c) = RejectPending(c)
    BY <1>2 DEF Closed
  <2>6. ASSUME NEW i \in Shows
        PROVE  LET q == RejectPending(c)[i] IN
               /\ q.kind = shows[i].kind /\ q.live = shows[i].live /\ q.again = shows[i].again
               /\ q.own = IF shows[i].own = c THEN NoPipe ELSE shows[i].own
               /\ q.on = IF shows[i].on = c THEN NoPipe ELSE shows[i].on
               /\ q.at = IF shows[i].on = c THEN "rejected" ELSE shows[i].at
    BY <2>1, <2>2 DEF ShowValues
  <2> QED
    BY <1>2, <2>4, <2>5, <2>6
<1> QED
  BY <1>1, <1>2

LEMMA ClosedPipes ==
    ASSUME pipes \in [Pipes -> PipeStates], NEW c \in Connections
    PROVE  /\ ClosePipe(c) \in [Pipes -> PipeStates]
           /\ \A d \in Pipes : d # c => ClosePipe(c)[d] = pipes[d]
BY DEF ClosePipe, PipeStates, Connections

LEMMA ShownSetup ==
    ASSUME NEW v \in ViewerValues, NEW i \in Shows
    PROVE  /\ ShowSetup(v, i) \in ViewerValues
           /\ ShowSetup(v, i).run = v.run /\ ShowSetup(v, i).connection = v.connection
           /\ ShowSetup(v, i).lease = v.lease /\ ShowSetup(v, i).page = v.page
           /\ ShowSetup(v, i).timer = v.timer /\ ShowSetup(v, i).heartbeat = NoBeat
           /\ ~ShowSetup(v, i).url /\ ShowSetup(v, i).setupVisible
           /\ ShowSetup(v, i).load = IF v.setupVisible THEN v.load ELSE i
BY Numbers DEF ShowSetup, ViewerValues, NoBeat, Connections

LEMMA Scheduled ==
    ASSUME NEW v \in ViewerValues
    PROVE  /\ ScheduleReconnect(v) \in ViewerValues /\ ScheduleReconnect(v).timer
           /\ ScheduleReconnect(v).run = v.run /\ ScheduleReconnect(v).connection = v.connection
           /\ ScheduleReconnect(v).page = v.page /\ ScheduleReconnect(v).setupVisible = v.setupVisible
           /\ ScheduleReconnect(v).url = v.url /\ ScheduleReconnect(v).load = v.load
BY DEF ScheduleReconnect, ViewerValues

LEMMA Lost ==
    ASSUME NEW v \in ViewerValues
    PROVE  /\ Disconnected(v) \in ViewerValues /\ Disconnected(v).connection = NoPipe
           /\ Disconnected(v).run = v.run /\ Disconnected(v).timer = v.timer
           /\ Disconnected(v).page = v.page /\ Disconnected(v).setupVisible = v.setupVisible
           /\ Disconnected(v).url = v.url /\ Disconnected(v).load = v.load
           /\ LiveDocument(Disconnected(v)) = LiveDocument(v)
BY DEF Disconnected, ViewerValues, NoBeat, Connections, LiveDocument

-----------------------------------------------------------------------------
(* What steps of one call, and the loss of the connection, leave alone. *)

\* Only call i moves, and the connection stays.
LEMMA OneCallMoves ==
    ASSUME AppTypeOK, AllFit, OneConnects, InUse, NEW i \in Shows,
           \A j \in Shows : j # i => shows'[j] = shows[j],
           viewer'.connection = viewer.connection, Fits(shows'[i], viewer.connection),
           shows'[i].at = "connecting" => shows[i].at = "connecting",
           viewer.connection # NoPipe => pipes'[viewer.connection] \in {"open", "cut"}
    PROVE  AllFit' /\ OneConnects' /\ InUse'
BY DEF AllFit, OneConnects, InUse

\* No call moves, and the connection stays.
LEMMA NoCallMoves ==
    ASSUME AllFit, OneConnects, shows' = shows, viewer'.connection = viewer.connection
    PROVE  AllFit' /\ OneConnects'
BY DEF AllFit, OneConnects

\* Closing the connection in use takes its answers from the calls that wait for them.
LEMMA CallsLoseConnection ==
    ASSUME AppTypeOK, AllFit, NEW j \in Shows
    PROVE  /\ Fits(Closed(viewer.connection)[j], NoPipe)
           /\ Closed(viewer.connection)[j].at = "connecting" => shows[j].at = "connecting"
           /\ Pursues(shows[j]) => Pursues(Closed(viewer.connection)[j])
           /\ shows[j].at = "setup" <=> Closed(viewer.connection)[j].at = "setup"
           /\ Closed(viewer.connection)[j].at = "loading" => shows[j].at = "loading"
<1> DEFINE c == viewer.connection
<1>1. c \in Connections /\ shows \in [Shows -> ShowValues]
  BY AppTypes DEF ViewerValues
<1>2. /\ Closed(c)[j].kind = shows[j].kind /\ Closed(c)[j].again = shows[j].again
      /\ Closed(c)[j].own = IF shows[j].own = c THEN NoPipe ELSE shows[j].own
      /\ Closed(c)[j].on = IF shows[j].on = c THEN NoPipe ELSE shows[j].on
      /\ Closed(c)[j].at = IF c # NoPipe /\ shows[j].on = c THEN "rejected" ELSE shows[j].at
  BY <1>1, ClosedShows
<1>3. Fits(shows[j], c)
  BY DEF AllFit
<1> HIDE DEF c
<1>4. Fits(Closed(c)[j], NoPipe)
  BY <1>2, <1>3 DEF Fits, Asking
<1>5. Pursues(shows[j]) => Pursues(Closed(c)[j])
  BY <1>2, <1>3 DEF Pursues, Fits
<1>6. shows[j].at = "setup" <=> Closed(c)[j].at = "setup"
  BY <1>2, <1>3 DEF Fits
<1> QED
  BY <1>2, <1>4, <1>5, <1>6 DEF c

\* The connection is lost, if there was one, and call i goes on or begins.
LEMMA ConnectionEnds ==
    ASSUME AppTypeOK, AllFit, OneConnects, NEW i \in Shows,
           \A j \in Shows : j # i => shows'[j] = Closed(viewer.connection)[j],
           viewer'.connection = NoPipe, Fits(shows'[i], NoPipe),
           shows'[i].at = "connecting" =>
               shows[i].at = "connecting" \/ \A j \in Shows : shows[j].at # "connecting"
    PROVE  /\ AllFit' /\ OneConnects' /\ InUse'
           /\ \A j \in Shows : j # i => (shows[j].at = "setup" <=> shows'[j].at = "setup")
           /\ \A j \in Shows : j # i /\ shows'[j].at = "loading" => shows[j].at = "loading"
BY CallsLoseConnection DEF AllFit, OneConnects, InUse

\* Neither the pages nor their loads are touched.
LEMMA PagesStay ==
    ASSUME SetupIsShown, viewer'.page = viewer.page, viewer'.load = viewer.load,
           viewer'.setupVisible = viewer.setupVisible, viewer'.url => viewer.url,
           \A j \in Shows : shows[j].at = "setup" => shows'[j].at = "setup",
           \A j \in Shows : shows'[j].at = "loading" => shows[j].at = "loading"
    PROVE  SetupIsShown'
BY DEF SetupIsShown

\* The setup page comes up, loaded by call i.
LEMMA SetupComesUp ==
    ASSUME NEW i \in Shows, viewer'.setupVisible, ~viewer'.url, viewer'.load = i, shows'[i].at = "setup"
    PROVE  SetupIsShown'
BY Numbers DEF SetupIsShown

\* One call turns to another wait, and nothing else happens to the process.
LEMMA OneCallTurns ==
    ASSUME AppInv, NEW i \in Shows, NEW r \in ShowValues, shows' = [shows EXCEPT ![i] = r],
           UNCHANGED <<viewer, pipes, command>>, Fits(r, viewer.connection), r.at # "connecting",
           r.at # "loading", shows[i].at # "setup", Pursues(shows[i]) => Pursues(r),
           service' \in ServiceValues, service'.holder = service.holder,
           outages' \in 0..MaxOutages, clicks' \in 0..MaxClicks
    PROVE  AppInv'
<1> USE DEF AppInv
<1>1. /\ viewer \in ViewerValues /\ shows \in [Shows -> ShowValues] /\ pipes \in [Pipes -> PipeStates]
      /\ command \in CommandValues
  BY AppTypes
<1>2. /\ shows' \in [Shows -> ShowValues] /\ shows'[i] = r
      /\ \A j \in Shows : j # i => shows'[j] = shows[j]
  BY <1>1
<1>3. AppTypeOK'
  BY <1>1, <1>2, AppTypes, AppTypesNext
<1>4. AllFit' /\ OneConnects' /\ InUse'
  BY <1>2, OneCallMoves DEF InUse
<1>5. SetupIsShown'
  <2>1. \A j \in Shows : shows[j].at = "setup" => shows'[j].at = "setup"
    BY <1>2
  <2>2. \A j \in Shows : shows'[j].at = "loading" => shows[j].at = "loading"
    BY <1>2
  <2> QED
    BY <2>1, <2>2, PagesStay
<1>6. Pursued'
  <2>1. \A j \in Shows : Pursues(shows[j]) => Pursues(shows'[j])
    BY <1>2
  <2>2. Watched => Watched'
    BY DEF Watched, Beating
  <2> QED
    BY <2>1, <2>2 DEF Pursued
<1> QED
  BY <1>3, <1>4, <1>5, <1>6

\* The process ends.
LEMMA ProcessEnds ==
    ASSUME AppInv, NEW run \in {"gaveUp", "exited"}, viewer' = [viewer EXCEPT !.run = run],
           UNCHANGED <<shows, pipes, service>>, command' \in CommandValues,
           outages' \in 0..MaxOutages, clicks' \in 0..MaxClicks
    PROVE  AppInv'
<1> USE DEF AppInv
<1>1. viewer \in ViewerValues /\ viewer' \in ViewerValues
  BY AppTypes DEF ViewerValues
<1>2. AppTypeOK'
  BY <1>1, AppTypes, AppTypesNext
<1> QED
  BY <1>1, <1>2 DEF AllFit, OneConnects, InUse, SetupIsShown, Pursued, ViewerValues

-----------------------------------------------------------------------------
(* The handlers. *)

LEMMA BeginKeeps ==
    ASSUME AppInv, ~ConnectsOverlap, NEW i \in Shows, NEW kind \in {"timer", "retry"}, Begin(i, kind),
           UNCHANGED <<service, command, outages>>, clicks' \in 0..MaxClicks
    PROVE  AppInv'
<1> DEFINE r == [Idle EXCEPT !.kind = kind, !.at = "connecting", !.live = LiveDocument(viewer)]
<1> USE DEF AppInv
<1>1. /\ viewer \in ViewerValues /\ shows \in [Shows -> ShowValues] /\ pipes \in [Pipes -> PipeStates]
      /\ viewer.connection \in Connections
  BY AppTypes DEF ViewerValues
<1>2. /\ r \in ShowValues /\ r.at = "connecting" /\ r.on = NoPipe /\ r.own = NoPipe /\ r.kind # "save"
  BY DEF Idle, ShowValues, Kinds, Stages, Connections, LiveDocument
<1>3. /\ shows[i].at = "idle" /\ \A j \in Shows : shows[j].at # "connecting"
      /\ shows' = [Closed(viewer.connection) EXCEPT ![i] = r]
      /\ pipes' = ClosePipe(viewer.connection)
      /\ viewer' = [Disconnected(viewer) EXCEPT !.timer = @ /\ kind # "timer"]
  BY DEF Begin, FreeShow
<1> HIDE DEF r
<1>4. /\ shows' \in [Shows -> ShowValues] /\ shows'[i] = r
      /\ \A j \in Shows : j # i => shows'[j] = Closed(viewer.connection)[j]
  BY <1>1, <1>2, <1>3, ClosedShows
<1>5. /\ viewer' \in ViewerValues /\ viewer'.connection = NoPipe /\ viewer'.page = viewer.page
      /\ viewer'.load = viewer.load /\ viewer'.setupVisible = viewer.setupVisible /\ viewer'.url = viewer.url
  <2> DEFINE v == Disconnected(viewer)
             timer == v.timer /\ kind # "timer"
  <2>1. /\ v \in ViewerValues /\ v.connection = NoPipe /\ v.page = viewer.page /\ v.load = viewer.load
        /\ v.setupVisible = viewer.setupVisible /\ v.url = viewer.url
    BY <1>1, Lost
  <2>2. viewer' = [v EXCEPT !.timer = timer]
    BY <1>3
  <2>3. timer \in BOOLEAN
    OBVIOUS
  <2> HIDE DEF v, timer
  <2> QED
    BY <2>1, <2>2, <2>3 DEF ViewerValues
<1>6. AppTypeOK'
  BY <1>1, <1>3, <1>4, <1>5, ClosedPipes, AppTypes, AppTypesNext
<1>7. Fits(shows'[i], NoPipe) /\ Pursues(shows'[i])
  BY <1>2, <1>4 DEF Fits, Asking, Pursues
<1>8. /\ AllFit' /\ OneConnects' /\ InUse'
      /\ \A j \in Shows : j # i => (shows[j].at = "setup" <=> shows'[j].at = "setup")
      /\ \A j \in Shows : j # i /\ shows'[j].at = "loading" => shows[j].at = "loading"
  BY <1>3, <1>4, <1>5, <1>7, ConnectionEnds
<1>9. SetupIsShown'
  BY <1>2, <1>3, <1>4, <1>5, <1>8, PagesStay
<1>10. Pursued'
  BY <1>7 DEF Pursued
<1> QED
  BY <1>6, <1>8, <1>9, <1>10

\* showLive with a lease over a connection: its heartbeat watches it from now on.
LEMMA GoesLive ==
    ASSUME AppInv, NEW i \in Shows, shows[i].at \in Asking, NEW v \in ViewerValues,
           v.connection = viewer.connection, viewer.connection # NoPipe, v.page = viewer.page,
           v.setupVisible = viewer.setupVisible, v.load = viewer.load, GoLiveNow(i, v),
           service' \in ServiceValues, UNCHANGED <<outages, clicks>>
    PROVE  AppInv'
<1> DEFINE to == IF KeepsDocument(i, v) THEN "idle" ELSE "loading"
<1> USE DEF AppInv
<1>1. /\ viewer \in ViewerValues /\ shows \in [Shows -> ShowValues] /\ shows[i] \in ShowValues
      /\ pipes \in [Pipes -> PipeStates] /\ command \in CommandValues
  BY AppTypes
<1>2. /\ viewer' = [v EXCEPT !.timer = FALSE, !.url = TRUE,
                            !.heartbeat = [pipe |-> v.connection, lease |-> v.lease],
                            !.setupVisible = FALSE, !.load = IF to = "loading" THEN i ELSE @]
      /\ shows' = [shows EXCEPT ![i] = IF to = "idle" THEN Idle ELSE [@ EXCEPT !.at = to, !.on = NoPipe]]
      /\ UNCHANGED <<pipes, command>>
  BY DEF GoLiveNow
<1>3. to \in {"idle", "loading"}
  OBVIOUS
<1> HIDE DEF to
<1>4. /\ viewer' \in ViewerValues /\ viewer'.connection = viewer.connection /\ ~viewer'.setupVisible
      /\ viewer'.heartbeat = [pipe |-> viewer.connection, lease |-> viewer'.lease]
      /\ viewer'.load # Reload \/ viewer.load = Reload
  BY <1>2, <1>3, Numbers DEF ViewerValues, Connections
<1>5. /\ shows' \in [Shows -> ShowValues] /\ \A j \in Shows : j # i => shows'[j] = shows[j]
      /\ Fits(shows'[i], viewer.connection) /\ shows'[i].at # "connecting"
  <2>1. Fits(shows[i], viewer.connection)
    BY DEF AllFit
  <2>2. CASE to = "idle"
    <3>1. shows' = [shows EXCEPT ![i] = Idle]
      BY <1>2, <2>2
    <3> QED
      BY <1>1, <3>1, IdleIs DEF Fits, Asking
  <2>3. CASE to = "loading"
    <3> DEFINE r == [shows[i] EXCEPT !.at = "loading", !.on = NoPipe]
    <3>1. shows' = [shows EXCEPT ![i] = r]
      BY <1>2, <2>3
    <3>2. r \in ShowValues /\ r.at = "loading" /\ r.on = NoPipe /\ r.own = shows[i].own
      BY <1>1 DEF ShowValues, Stages, Connections
    <3> HIDE DEF r
    <3> QED
      BY <1>1, <2>1, <3>1, <3>2 DEF Fits, Asking
  <2> QED
    BY <1>3, <2>2, <2>3
<1>6. AppTypeOK'
  BY <1>1, <1>2, <1>4, <1>5, AppTypes, AppTypesNext
<1>7. AllFit' /\ OneConnects' /\ InUse'
  BY <1>2, <1>4, <1>5, OneCallMoves DEF InUse
<1>8. SetupIsShown'
  BY <1>4 DEF SetupIsShown
<1>9. Pursued'
  BY <1>4 DEF Pursued, Watched, Beating
<1> QED
  BY <1>6, <1>7, <1>8, <1>9

\* showSetup, awaited by a call that has just had an answer over the connection.
LEMMA SetupForKeeps ==
    ASSUME AppInv, NEW i \in Shows, NEW again \in BOOLEAN, shows[i].at \in Asking,
           viewer.connection # NoPipe, SetupFor(i, again),
           service' \in ServiceValues, UNCHANGED <<outages, clicks>>
    PROVE  AppInv'
<1> USE DEF AppInv
<1>1. /\ viewer \in ViewerValues /\ shows \in [Shows -> ShowValues] /\ shows[i] \in ShowValues
      /\ pipes \in [Pipes -> PipeStates] /\ command \in CommandValues
  BY AppTypes
<1>2. /\ viewer' \in ViewerValues /\ viewer'.connection = viewer.connection /\ ~viewer'.url
      /\ viewer'.setupVisible /\ viewer'.page = viewer.page
      /\ viewer'.load = IF viewer.setupVisible THEN viewer.load ELSE i
  BY <1>1, ShownSetup, Scheduled DEF SetupFor
<1>3. Fits(shows[i], viewer.connection)
  BY DEF AllFit
<1>4. /\ shows' \in [Shows -> ShowValues] /\ \A j \in Shows : j # i => shows'[j] = shows[j]
      /\ Fits(shows'[i], viewer.connection)
      /\ viewer.setupVisible => shows'[i].at = "idle"
      /\ ~viewer.setupVisible => shows'[i].at = "setup"
  <2>1. CASE viewer.setupVisible
    <3>1. shows' = [shows EXCEPT ![i] = Idle]
      BY <2>1 DEF SetupFor
    <3> QED
      BY <1>1, <2>1, <3>1, IdleIs DEF Fits, Asking
  <2>2. CASE ~viewer.setupVisible
    <3> DEFINE r == [shows[i] EXCEPT !.at = "setup", !.on = NoPipe, !.again = again]
    <3>1. shows' = [shows EXCEPT ![i] = r]
      BY <2>2 DEF SetupFor
    <3>2. r \in ShowValues /\ r.at = "setup" /\ r.on = NoPipe /\ r.own = shows[i].own
      BY <1>1 DEF ShowValues, Stages, Connections
    <3> HIDE DEF r
    <3> QED
      BY <1>1, <1>3, <2>2, <3>1, <3>2 DEF Fits, Asking
  <2> QED
    BY <2>1, <2>2
<1>5. pipes' = pipes /\ command' = command
  BY DEF SetupFor
<1>6. AppTypeOK'
  BY <1>1, <1>2, <1>4, <1>5, AppTypes, AppTypesNext
<1>7. AllFit' /\ OneConnects' /\ InUse'
  <2>1. shows'[i].at # "connecting"
    BY <1>4
  <2> QED
    BY <1>2, <1>4, <1>5, <2>1, OneCallMoves DEF InUse
<1>8. SetupIsShown'
  <2>1. CASE viewer.setupVisible
    <3>1. \A j \in Shows : shows[j].at = "setup" => shows'[j].at = "setup"
      BY <1>4 DEF Asking
    <3>2. \A j \in Shows : shows'[j].at = "loading" => shows[j].at = "loading"
      BY <1>4, <2>1
    <3> QED
      BY <1>2, <2>1, <3>1, <3>2, PagesStay
  <2>2. CASE ~viewer.setupVisible
    BY <1>2, <1>4, <2>2, SetupComesUp
  <2> QED
    BY <2>1, <2>2
<1>9. Pursued'
  BY <1>2 DEF Pursued, Watched
<1> QED
  BY <1>6, <1>7, <1>8, <1>9

\* The attempt that gives way to the live page: another one is due.
LEMMA TryLaterKeeps ==
    ASSUME AppInv, NEW i \in Shows, shows[i].at = "status", TryLater(i), UNCHANGED <<service, outages, clicks>>
    PROVE  AppInv'
<1> DEFINE c == shows[i].own
<1> USE DEF AppInv
<1>1. /\ viewer \in ViewerValues /\ shows \in [Shows -> ShowValues] /\ shows[i] \in ShowValues
      /\ pipes \in [Pipes -> PipeStates] /\ c \in Connections /\ viewer.connection \in Connections
  BY AppTypes DEF ShowValues, ViewerValues
<1>2. /\ shows' = [Closed(c) EXCEPT ![i] = Idle] /\ pipes' = ClosePipe(c) /\ command' = command
      /\ viewer' = ScheduleReconnect([viewer EXCEPT !.connection = IF @ = c THEN NoPipe ELSE @])
  BY DEF TryLater
<1>3. c \in {NoPipe, viewer.connection}
  BY DEF AllFit, Fits
<1> HIDE DEF c
<1> DEFINE v == [viewer EXCEPT !.connection = IF @ = c THEN NoPipe ELSE @]
<1>4. /\ v \in ViewerValues /\ v.connection = IF viewer.connection = c THEN NoPipe ELSE viewer.connection
      /\ v.page = viewer.page /\ v.load = viewer.load /\ v.setupVisible = viewer.setupVisible
      /\ v.url = viewer.url
  BY <1>1 DEF ViewerValues, Connections
<1>5. viewer' = ScheduleReconnect(v)
  BY <1>2
<1> HIDE DEF v
<1>6. /\ viewer' \in ViewerValues /\ viewer'.timer
      /\ viewer'.connection = IF viewer.connection = c THEN NoPipe ELSE viewer.connection
      /\ viewer'.page = viewer.page /\ viewer'.load = viewer.load
      /\ viewer'.setupVisible = viewer.setupVisible /\ viewer'.url = viewer.url
  BY <1>4, <1>5, Scheduled
<1>7. /\ shows' \in [Shows -> ShowValues] /\ shows'[i] = Idle
      /\ \A j \in Shows : j # i => shows'[j] = Closed(c)[j]
      /\ pipes' \in [Pipes -> PipeStates]
  BY <1>1, <1>2, ClosedShows, ClosedPipes, IdleIs
<1>8. AppTypeOK'
  BY <1>2, <1>6, <1>7, AppTypes, AppTypesNext
<1>9. \A conn \in Connections : Fits(shows'[i], conn)
  BY <1>7, IdleIs DEF Fits, Asking
<1>10. /\ AllFit' /\ OneConnects' /\ InUse'
       /\ \A j \in Shows : j # i => (shows[j].at = "setup" <=> shows'[j].at = "setup")
       /\ \A j \in Shows : j # i /\ shows'[j].at = "loading" => shows[j].at = "loading"
  <2>1. CASE viewer.connection = c
    <3>1. \A j \in Shows : j # i => shows'[j] = Closed(viewer.connection)[j]
      BY <1>7, <2>1
    <3>2. viewer'.connection = NoPipe /\ Fits(shows'[i], NoPipe)
      BY <1>6, <1>9, <2>1 DEF Connections
    <3>3. shows'[i].at # "connecting"
      BY <1>7, IdleIs
    <3> QED
      BY <3>1, <3>2, <3>3, ConnectionEnds
  <2>2. CASE viewer.connection # c
    <3>1. c = NoPipe
      BY <1>3, <2>2
    <3>2. pipes' = pipes /\ \A j \in Shows : j # i => shows'[j] = shows[j]
      BY <1>2, <1>7, <3>1 DEF ClosePipe, Closed
    <3> QED
      BY <1>1, <1>6, <1>7, <1>9, <2>2, <3>2, IdleIs, OneCallMoves DEF InUse
  <2> QED
    BY <2>1, <2>2
<1>11. SetupIsShown'
  BY <1>6, <1>7, <1>10, IdleIs, PagesStay
<1>12. Pursued'
  BY <1>6 DEF Pursued
<1> QED
  BY <1>8, <1>10, <1>11, <1>12

LEMMA ShowLiveKeeps ==
    ASSUME AppInv, NEW i \in Shows, shows[i].at \in {"status", "configuring"}, ShowLive(i),
           service' \in ServiceValues, service'.holder = service.holder, UNCHANGED <<outages, clicks>>
    PROVE  AppInv'
<1> USE DEF AppInv
<1>1. /\ viewer \in ViewerValues /\ shows \in [Shows -> ShowValues] /\ shows[i] \in ShowValues
      /\ pipes \in [Pipes -> PipeStates] /\ command \in CommandValues
  BY AppTypes
<1>2. shows[i].on = viewer.connection /\ viewer.connection # NoPipe /\ shows[i].at \in Asking
      /\ Fits(shows[i], viewer.connection)
  BY DEF AllFit, Fits, Asking
<1>3. CASE viewer.lease # NoPipe /\ GoLiveNow(i, viewer)
  BY <1>1, <1>2, <1>3, GoesLive
<1>4. CASE /\ shows' = AsksPipe(i, "acquiring", viewer.connection)
           /\ UNCHANGED <<viewer, pipes, command>>
  <2> DEFINE r == [shows[i] EXCEPT !.at = "acquiring", !.on = viewer.connection]
  <2>1. shows' = [shows EXCEPT ![i] = r]
    BY <1>1, <1>4 DEF AsksPipe
  <2>2. /\ r \in ShowValues /\ r.at = "acquiring" /\ r.on = viewer.connection
        /\ r.own = shows[i].own /\ r.kind = shows[i].kind
    BY <1>1 DEF ShowValues, ViewerValues, Stages
  <2> HIDE DEF r
  <2>3. Fits(r, viewer.connection) /\ (Pursues(shows[i]) => Pursues(r))
    BY <1>2, <2>2 DEF Fits, Asking, Pursues
  <2> QED
    BY <1>1, <1>2, <1>4, <2>1, <2>2, <2>3, OneCallTurns, AppTypes DEF Asking
<1> QED
  BY <1>2, <1>3, <1>4 DEF ShowLive

LEMMA StatusKeeps ==
    ASSUME AppInv, NEW i \in Shows, StatusArrives(i)
    PROVE  AppInv'
<1> USE DEF AppInv
<1>1. /\ viewer \in ViewerValues /\ shows \in [Shows -> ShowValues] /\ service \in ServiceValues
  BY AppTypes
<1>2. /\ shows[i].at = "status" /\ viewer.connection # NoPipe /\ shows[i].at \in Asking
      /\ UNCHANGED <<service, outages, clicks>>
  BY DEF StatusArrives, AllFit, Fits, Asking
<1>3. CASE TryLater(i)
  BY <1>2, <1>3, TryLaterKeeps
<1>4. CASE SetupFor(i, service.configured)
  BY <1>1, <1>2, <1>4, SetupForKeeps DEF ServiceValues
<1>5. CASE QuitsQuietly
  BY <1>2, <1>5, ProcessEnds, AppTypes DEF QuitsQuietly
<1>6. CASE ShowLive(i)
  BY <1>1, <1>2, <1>6, ShowLiveKeeps
<1> QED
  BY <1>3, <1>4, <1>5, <1>6 DEF StatusArrives

LEMMA LeaseKeeps ==
    ASSUME AppInv, NEW i \in Shows, LeaseArrives(i)
    PROVE  AppInv'
<1> USE DEF AppInv
<1>1. /\ viewer \in ViewerValues /\ shows \in [Shows -> ShowValues] /\ shows[i] \in ShowValues
      /\ service \in ServiceValues /\ command \in CommandValues
  BY AppTypes
<1>2. /\ shows[i].at = "acquiring" /\ shows[i].on = viewer.connection /\ viewer.connection # NoPipe
      /\ shows[i].at \in Asking /\ UNCHANGED <<outages, clicks>> /\ Fits(shows[i], viewer.connection)
  BY DEF LeaseArrives, AllFit, Fits, Asking
<1>3. CASE /\ service' = [service EXCEPT !.holder = shows[i].on]
           /\ GoLiveNow(i, [viewer EXCEPT !.lease = shows[i].on])
  <2> DEFINE v == [viewer EXCEPT !.lease = shows[i].on]
  <2>1. /\ v \in ViewerValues /\ v.connection = viewer.connection /\ v.page = viewer.page
        /\ v.setupVisible = viewer.setupVisible /\ v.load = viewer.load /\ GoLiveNow(i, v)
    BY <1>1, <1>3 DEF ViewerValues, ShowValues
  <2>2. service' \in ServiceValues
    BY <1>1, <1>3 DEF ServiceValues, ShowValues
  <2> HIDE DEF v
  <2> QED
    BY <1>2, <2>1, <2>2, GoesLive
<1>4. CASE QuitsQuietly /\ UNCHANGED service
  BY <1>2, <1>4, ProcessEnds, AppTypes DEF QuitsQuietly
<1>5. CASE /\ shows' = [shows EXCEPT ![i].at = "rejected", ![i].on = NoPipe]
           /\ UNCHANGED <<viewer, pipes, service, command>>
  <2> DEFINE r == [shows[i] EXCEPT !.at = "rejected", !.on = NoPipe]
  <2>1. shows' = [shows EXCEPT ![i] = r]
    BY <1>1, <1>5
  <2>2. /\ r \in ShowValues /\ r.at = "rejected" /\ r.on = NoPipe
        /\ r.own = shows[i].own /\ r.kind = shows[i].kind
    BY <1>1 DEF ShowValues, Stages, Connections
  <2> HIDE DEF r
  <2>3. Fits(r, viewer.connection) /\ (Pursues(shows[i]) => Pursues(r))
    BY <1>2, <2>2 DEF Fits, Asking, Pursues
  <2> QED
    BY <1>1, <1>2, <1>5, <2>1, <2>2, <2>3, OneCallTurns, AppTypes
<1> QED
  BY <1>3, <1>4, <1>5 DEF LeaseArrives

LEMMA ConnectFailsKeeps ==
    ASSUME AppInv, NEW i \in Shows, ConnectFails(i)
    PROVE  AppInv'
<1> DEFINE r == [shows[i] EXCEPT !.at = "rejected"]
<1>1. /\ shows \in [Shows -> ShowValues] /\ shows[i] \in ShowValues /\ service \in ServiceValues
      /\ Fits(shows[i], viewer.connection)
      /\ outages \in 0..MaxOutages /\ clicks \in 0..MaxClicks
  BY AppTypes DEF AppInv, AllFit
<1>2. /\ shows[i].at = "connecting" /\ UNCHANGED <<viewer, pipes, service, command, outages, clicks>>
      /\ shows' = [shows EXCEPT ![i] = r]
  BY <1>1 DEF ConnectFails
<1>3. r \in ShowValues /\ r.at = "rejected" /\ r.on = shows[i].on /\ r.own = shows[i].own
      /\ r.kind = shows[i].kind
  BY <1>1 DEF ShowValues, Stages
<1> HIDE DEF r
<1>4. Fits(r, viewer.connection) /\ (Pursues(shows[i]) => Pursues(r))
  BY <1>1, <1>2, <1>3 DEF Fits, Asking, Pursues
<1> QED
  BY <1>1, <1>2, <1>3, <1>4, OneCallTurns

LEMMA LoadEnds ==
    ASSUME AppInv, NEW i \in Shows, LoadSuperseded(i) \/ LiveLoadFails(i)
    PROVE  AppInv'
<1> DEFINE r == [shows[i] EXCEPT !.at = "rejected"]
<1>1. /\ shows \in [Shows -> ShowValues] /\ shows[i] \in ShowValues /\ service \in ServiceValues
      /\ Fits(shows[i], viewer.connection)
      /\ outages \in 0..MaxOutages /\ clicks \in 0..MaxClicks
  BY AppTypes DEF AppInv, AllFit
<1>2. /\ shows[i].at = "loading" /\ UNCHANGED <<viewer, pipes, service, command, clicks>>
      /\ shows' = [shows EXCEPT ![i] = r] /\ outages' \in 0..MaxOutages
  BY <1>1, Numbers DEF LoadSuperseded, LiveLoadFails
<1>3. r \in ShowValues /\ r.at = "rejected" /\ r.on = shows[i].on /\ r.own = shows[i].own
      /\ r.kind = shows[i].kind
  BY <1>1 DEF ShowValues, Stages
<1> HIDE DEF r
<1>4. Fits(r, viewer.connection) /\ (Pursues(shows[i]) => Pursues(r))
  BY <1>1, <1>2, <1>3 DEF Fits, Asking, Pursues
<1> QED
  BY <1>1, <1>2, <1>3, <1>4, OneCallTurns

LEMMA ConfigureKeeps ==
    ASSUME AppInv, NEW i \in Shows, Configure(i)
    PROVE  AppInv'
<1> DEFINE r == [Idle EXCEPT !.kind = "save", !.at = "configuring", !.on = viewer.connection]
<1>1. /\ viewer.connection \in Connections /\ service \in ServiceValues
      /\ outages \in 0..MaxOutages /\ clicks \in 0..MaxClicks
  BY AppTypes DEF AppInv, ViewerValues
<1>2. /\ shows[i].at = "idle" /\ viewer.connection # NoPipe
      /\ UNCHANGED <<viewer, pipes, service, command, outages>> /\ shows' = [shows EXCEPT ![i] = r]
      /\ clicks' \in 0..MaxClicks
  BY <1>1, Numbers DEF Configure, Clicks, FreeShow
<1>3. r \in ShowValues /\ r.at = "configuring" /\ r.on = viewer.connection /\ r.own = NoPipe
  BY <1>1 DEF ShowValues, Stages, Idle, Kinds, Connections
<1> HIDE DEF r
<1>4. Fits(r, viewer.connection) /\ ~Pursues(shows[i])
  BY <1>2, <1>3 DEF Fits, Asking, Pursues
<1> QED
  BY <1>1, <1>2, <1>3, <1>4, OneCallTurns

LEMMA ConfigureArrivesKeeps ==
    ASSUME AppInv, NEW i \in Shows, ConfigureArrives(i)
    PROVE  AppInv'
<1>1. /\ shows \in [Shows -> ShowValues] /\ shows[i] \in ShowValues /\ service \in ServiceValues
      /\ Fits(shows[i], viewer.connection)
      /\ outages \in 0..MaxOutages /\ clicks \in 0..MaxClicks
  BY AppTypes DEF AppInv, AllFit
<1>2. shows[i].at = "configuring" /\ UNCHANGED <<outages, clicks>>
  BY DEF ConfigureArrives
<1>3. CASE service' = [service EXCEPT !.configured = TRUE] /\ ShowLive(i)
  <2>1. service' \in ServiceValues /\ service'.holder = service.holder
    BY <1>1, <1>3 DEF ServiceValues
  <2> QED
    BY <1>2, <1>3, <2>1, ShowLiveKeeps
<1>4. CASE /\ shows' = [shows EXCEPT ![i].at = "rejected"]
           /\ UNCHANGED <<viewer, pipes, service, command>>
  <2> DEFINE r == [shows[i] EXCEPT !.at = "rejected"]
  <2>1. r \in ShowValues /\ r.at = "rejected" /\ r.on = shows[i].on /\ r.own = shows[i].own
        /\ r.kind = shows[i].kind /\ shows' = [shows EXCEPT ![i] = r]
    BY <1>1, <1>4 DEF ShowValues, Stages
  <2> HIDE DEF r
  <2>2. Fits(r, viewer.connection) /\ (Pursues(shows[i]) => Pursues(r))
    BY <1>1, <1>2, <2>1 DEF Fits, Asking, Pursues
  <2> QED
    BY <1>1, <1>2, <1>4, <2>1, <2>2, OneCallTurns
<1> QED
  BY <1>3, <1>4 DEF ConfigureArrives

LEMMA ConnectsKeeps ==
    ASSUME AppInv, NEW i \in Shows, NEW c \in Pipes, Connects(i, c)
    PROVE  AppInv'
<1> DEFINE r == [shows[i] EXCEPT !.at = "status", !.on = c, !.own = c]
<1> USE DEF AppInv
<1>1. /\ viewer \in ViewerValues /\ shows \in [Shows -> ShowValues] /\ shows[i] \in ShowValues
      /\ pipes \in [Pipes -> PipeStates] /\ c \in Connections /\ c # NoPipe
      /\ \A j \in Shows : Fits(shows[j], viewer.connection)
  BY AppTypes, Numbers DEF AllFit, Connections
<1>2. /\ shows[i].at = "connecting" /\ UNCHANGED <<service, command, outages, clicks>>
      /\ pipes' = [pipes EXCEPT ![c] = "open"] /\ viewer' = [viewer EXCEPT !.connection = c]
      /\ shows' = [shows EXCEPT ![i] = r]
  BY <1>1 DEF Connects, AsksPipe, ReplaceConnection
<1>3. /\ r \in ShowValues /\ r.at = "status" /\ r.on = c /\ r.own = c /\ r.kind = shows[i].kind
  BY <1>1 DEF ShowValues, Stages
<1>4. r.kind # "save" /\ viewer.connection = NoPipe
  BY <1>1, <1>2, <1>3 DEF Fits
<1> HIDE DEF r
<1>5. /\ shows' \in [Shows -> ShowValues] /\ shows'[i] = r
      /\ \A j \in Shows : j # i => shows'[j] = shows[j]
      /\ pipes' \in [Pipes -> PipeStates] /\ pipes'[c] = "open"
      /\ viewer' \in ViewerValues /\ viewer'.connection = c /\ viewer'.page = viewer.page
      /\ viewer'.load = viewer.load /\ viewer'.setupVisible = viewer.setupVisible /\ viewer'.url = viewer.url
  BY <1>1, <1>2, <1>3 DEF ViewerValues, PipeStates
<1>6. AppTypeOK'
  BY <1>2, <1>5, AppTypes, AppTypesNext
<1>7. AllFit'
  <2>1. \A j \in Shows : j # i => shows[j].at # "connecting"
    BY <1>2 DEF OneConnects
  <2>2. \A j \in Shows : j # i => Fits(shows[j], c)
    BY <1>1, <1>4, <2>1 DEF Fits, Asking
  <2>3. Fits(r, c)
    BY <1>1, <1>3, <1>4 DEF Fits, Asking
  <2> QED
    BY <1>5, <2>2, <2>3 DEF AllFit
<1>8. OneConnects'
  BY <1>3, <1>5 DEF OneConnects
<1>9. InUse'
  BY <1>5 DEF InUse
<1>10. SetupIsShown'
  BY <1>2, <1>3, <1>5, PagesStay
<1>11. Pursued'
  BY <1>3, <1>4, <1>5 DEF Pursued, Pursues
<1> QED
  BY <1>6, <1>7, <1>8, <1>9, <1>10, <1>11

\* The setup page comes up under a call that leads on, or is there and the next attempt is due.
LEMMA GivenUp ==
    ASSUME AppTypeOK, SetupIsShown, NEW i \in Shows, NEW v \in ViewerValues, NEW setup \in BOOLEAN,
           v.page = viewer.page, v.load = viewer.load, v.setupVisible = viewer.setupVisible,
           v.url = viewer.url, NEW keep \in BOOLEAN,
           viewer' = IF setup THEN ShowSetup(v, i)
                     ELSE ScheduleReconnect(IF keep THEN v ELSE ShowSetup(v, i)),
           setup => ~v.setupVisible /\ shows'[i].at = "setup" /\ shows'[i].again,
           ~setup => keep \/ v.setupVisible,
           ~setup => \A j \in Shows : shows[j].at = "setup" => shows'[j].at = "setup",
           ~setup => \A j \in Shows : shows'[j].at = "loading" => shows[j].at = "loading"
    PROVE  viewer' \in ViewerValues /\ viewer'.connection = v.connection /\ SetupIsShown' /\ Pursued'
<1>1. CASE setup
  <2>1. /\ viewer' \in ViewerValues /\ viewer'.connection = v.connection /\ viewer'.setupVisible
        /\ ~viewer'.url /\ viewer'.load = i
    BY <1>1, ShownSetup
  <2>2. SetupIsShown'
    BY <1>1, <2>1, SetupComesUp
  <2>3. Pursued'
    BY <1>1 DEF Pursued, Pursues
  <2> QED
    BY <2>1, <2>2, <2>3
<1>2. CASE ~setup
  <2> DEFINE w == IF keep THEN v ELSE ShowSetup(v, i)
  <2>1. /\ w \in ViewerValues /\ w.connection = v.connection /\ w.page = v.page /\ w.load = v.load
        /\ w.setupVisible = v.setupVisible /\ (w.url => v.url)
    <3>1. CASE keep
      BY <3>1
    <3>2. CASE ~keep
      <4>1. w = ShowSetup(v, i) /\ v.setupVisible
        BY <1>2, <3>2
      <4> DEFINE up == ShowSetup(v, i)
      <4>2. /\ up \in ViewerValues /\ up.connection = v.connection /\ up.page = v.page
            /\ ~up.url /\ up.setupVisible /\ up.load = IF v.setupVisible THEN v.load ELSE i
        BY ShownSetup
      <4>3. w = up
        BY <4>1
      <4> HIDE DEF w, up
      <4>4. up.load = v.load /\ up.setupVisible = v.setupVisible
        BY <4>1, <4>2
      <4> QED
        BY <4>2, <4>3, <4>4
    <3> QED
      BY <3>1, <3>2
  <2>2. viewer' = ScheduleReconnect(w)
    BY <1>2
  <2> HIDE DEF w
  <2>3. /\ viewer' \in ViewerValues /\ viewer'.timer /\ viewer'.connection = w.connection
        /\ viewer'.page = w.page /\ viewer'.load = w.load
        /\ viewer'.setupVisible = w.setupVisible /\ viewer'.url = w.url
    BY <2>1, <2>2, Scheduled
  <2>4. SetupIsShown'
    BY <1>2, <2>1, <2>3, PagesStay
  <2>5. Pursued'
    BY <2>3 DEF Pursued
  <2> QED
    BY <2>1, <2>3, <2>4, <2>5
<1> QED
  BY <1>1, <1>2

LEMMA RejectedKeeps ==
    ASSUME AppInv, NEW i \in Shows, Rejected(i)
    PROVE  AppInv'
<1> USE DEF AppInv
<1>1. /\ viewer \in ViewerValues /\ shows \in [Shows -> ShowValues] /\ shows[i] \in ShowValues
      /\ pipes \in [Pipes -> PipeStates] /\ viewer.connection \in Connections
      /\ Fits(shows[i], viewer.connection) /\ service \in ServiceValues
      /\ outages \in 0..MaxOutages /\ clicks \in 0..MaxClicks
  BY AppTypes DEF AllFit, ViewerValues
<1>2. shows[i].at = "rejected" /\ UNCHANGED <<service, command, outages, clicks>>
  BY DEF Rejected
<1>3. CASE shows[i].kind = "save"
  <2>1. shows' = [shows EXCEPT ![i] = Idle] /\ UNCHANGED <<viewer, pipes>>
    BY <1>3 DEF Rejected
  <2>2. Fits(Idle, viewer.connection) /\ ~Pursues(shows[i])
    BY <1>2, <1>3, IdleIs DEF Fits, Asking, Pursues
  <2> QED
    BY <1>1, <1>2, <2>1, <2>2, IdleIs, OneCallTurns
<1>4. CASE CatchConnect(i)
  <2> DEFINE c == shows[i].own
             v == IF c # NoPipe /\ viewer.connection = c THEN Disconnected(viewer) ELSE viewer
             keep == LiveDocument(v) \/ shows[i].live
             setup == ~LiveDocument(v) /\ ~shows[i].live /\ ~v.setupVisible
             r == IF setup THEN [Idle EXCEPT !.kind = shows[i].kind, !.at = "setup", !.again = TRUE] ELSE Idle
  <2>1. /\ viewer' = IF setup THEN ShowSetup(v, i)
                     ELSE ScheduleReconnect(IF keep THEN v ELSE ShowSetup(v, i))
        /\ pipes' = IF c # NoPipe /\ viewer.connection = c THEN ClosePipe(c) ELSE pipes
        /\ shows' = [Closed(IF viewer.connection = c THEN c ELSE NoPipe) EXCEPT ![i] = r]
    BY <1>4 DEF CatchConnect
  <2>2. /\ v \in ViewerValues /\ v.page = viewer.page /\ v.load = viewer.load
        /\ v.setupVisible = viewer.setupVisible /\ v.url = viewer.url
        /\ v.connection = IF viewer.connection = c THEN NoPipe ELSE viewer.connection
    BY <1>1, Lost
  <2>3. /\ r \in ShowValues /\ r.on = NoPipe /\ r.own = NoPipe
        /\ IF setup THEN r.at = "setup" /\ r.again ELSE r.at = "idle" /\ ~r.again /\ r.kind = "none"
    BY <1>1, IdleIs DEF Idle, ShowValues, Stages
  <2>4. setup \in BOOLEAN /\ keep \in BOOLEAN /\ (~setup => keep \/ v.setupVisible) /\ (setup => ~v.setupVisible)
    BY <1>1 DEF LiveDocument, ShowValues
  <2>5. c \in {NoPipe, viewer.connection} /\ c \in Connections
    BY <1>1 DEF Fits, Connections
  <2> HIDE DEF c, v, keep, setup, r
  <2>6. \A conn \in Connections : Fits(r, conn)
    BY <2>3 DEF Fits, Asking
  <2>7. shows' \in [Shows -> ShowValues] /\ shows'[i] = r /\ pipes' \in [Pipes -> PipeStates]
    BY <1>1, <2>1, <2>3, <2>5, ClosedShows, ClosedPipes DEF Connections
  <2>8. /\ viewer'.connection = v.connection
        /\ v.connection = viewer.connection \/ v.connection = NoPipe
    BY <2>1, <2>2, ShownSetup, Scheduled
  <2>9. /\ AllFit' /\ OneConnects' /\ InUse'
        /\ \A j \in Shows : j # i => (shows[j].at = "setup" <=> shows'[j].at = "setup")
        /\ \A j \in Shows : j # i /\ shows'[j].at = "loading" => shows[j].at = "loading"
    <3>1. CASE viewer.connection = c
      <4>1. shows' = [Closed(viewer.connection) EXCEPT ![i] = r]
        BY <2>1, <3>1
      <4>2. \A j \in Shows : j # i => shows'[j] = Closed(viewer.connection)[j]
        BY <1>1, <4>1, ClosedShows
      <4>3. viewer'.connection = NoPipe /\ Fits(shows'[i], NoPipe) /\ shows'[i].at # "connecting"
        BY <2>2, <2>3, <2>6, <2>7, <2>8, <3>1 DEF Connections
      <4> QED
        BY <4>2, <4>3, ConnectionEnds
    <3>2. CASE viewer.connection # c
      <4>1. pipes' = pipes /\ \A j \in Shows : j # i => shows'[j] = shows[j]
        BY <2>1, <3>2 DEF Closed
      <4>2. viewer'.connection = viewer.connection /\ Fits(shows'[i], viewer.connection)
            /\ shows'[i].at # "connecting"
        BY <1>1, <2>2, <2>3, <2>6, <2>7, <2>8, <3>2
      <4> QED
        BY <4>1, <4>2, OneCallMoves DEF InUse
    <3> QED
      BY <3>1, <3>2
  <2>10. viewer' \in ViewerValues /\ SetupIsShown' /\ Pursued'
    <3>1. /\ ~setup => \A j \in Shows : shows[j].at = "setup" => shows'[j].at = "setup"
          /\ ~setup => \A j \in Shows : shows'[j].at = "loading" => shows[j].at = "loading"
          /\ setup => shows'[i].at = "setup" /\ shows'[i].again
      BY <1>2, <2>3, <2>7, <2>9
    <3> QED
      BY <2>1, <2>2, <2>4, <3>1, GivenUp
  <2>11. AppTypeOK'
    BY <1>2, <2>7, <2>10, AppTypes, AppTypesNext
  <2> QED
    BY <2>9, <2>10, <2>11
<1> QED
  BY <1>3, <1>4 DEF Rejected

LEMMA PipeFailsKeeps ==
    ASSUME AppInv, NEW i \in Shows, NEW c \in Pipes, PipeFails(c, i)
    PROVE  AppInv'
<1> DEFINE v == Disconnected(viewer)
           setup == viewer.connection = c /\ ~LiveDocument(v) /\ ~v.setupVisible
           keep == LiveDocument(v)
           r == [Idle EXCEPT !.kind = "drop", !.at = "setup", !.again = TRUE]
<1> USE DEF AppInv
<1>1. /\ viewer \in ViewerValues /\ shows \in [Shows -> ShowValues] /\ pipes \in [Pipes -> PipeStates]
      /\ c \in Connections /\ c # NoPipe /\ \A j \in Shows : Fits(shows[j], viewer.connection)
  BY AppTypes, Numbers DEF AllFit, Connections
<1>2. /\ pipes' = [pipes EXCEPT ![c] = "free"] /\ UNCHANGED <<service, command, outages, clicks>>
      /\ IF setup THEN FreeShow(i) ELSE i = 1
      /\ viewer' = IF viewer.connection # c THEN viewer
                   ELSE IF setup THEN ShowSetup(v, i)
                   ELSE ScheduleReconnect(IF keep THEN v ELSE ShowSetup(v, i))
      /\ shows' = IF setup THEN [Closed(c) EXCEPT ![i] = r] ELSE Closed(c)
  BY <1>1, ClosedShows DEF PipeFails
<1>3. pipes' \in [Pipes -> PipeStates] /\ \A d \in Pipes : d # c => pipes'[d] = pipes[d]
  BY <1>1, <1>2 DEF PipeStates
<1>4. /\ r \in ShowValues /\ r.at = "setup" /\ r.on = NoPipe /\ r.own = NoPipe /\ r.again
  BY DEF Idle, ShowValues, Kinds, Stages, Connections
<1>5. /\ v \in ViewerValues /\ v.page = viewer.page /\ v.load = viewer.load
      /\ v.setupVisible = viewer.setupVisible /\ v.url = viewer.url /\ v.connection = NoPipe
  BY <1>1, Lost
<1>6. keep \in BOOLEAN /\ setup \in BOOLEAN /\ (setup => ~v.setupVisible)
      /\ (viewer.connection = c /\ ~setup => keep \/ v.setupVisible) /\ (setup => viewer.connection = c)
  BY <1>1 DEF LiveDocument
<1> HIDE DEF v, setup, keep, r
<1>7. shows' \in [Shows -> ShowValues]
  BY <1>1, <1>2, <1>4, ClosedShows
<1>8. CASE viewer.connection = c
  <2>1. /\ \A j \in Shows : j # i => shows'[j] = Closed(viewer.connection)[j]
        /\ setup => shows'[i] = r /\ shows[i].at = "idle"
        /\ ~setup => shows'[i] = Closed(viewer.connection)[i]
    BY <1>1, <1>2, <1>4, <1>8, ClosedShows DEF FreeShow
  <2>2. Fits(r, NoPipe)
    BY <1>4 DEF Fits, Asking
  <2>3. viewer'.connection = NoPipe
    BY <1>2, <1>5, <1>8, ShownSetup, Scheduled
  <2>4. /\ AllFit' /\ OneConnects' /\ InUse'
        /\ \A j \in Shows : j # i => (shows[j].at = "setup" <=> shows'[j].at = "setup")
        /\ \A j \in Shows : j # i /\ shows'[j].at = "loading" => shows[j].at = "loading"
    <3>1. /\ Fits(shows'[i], NoPipe)
          /\ shows'[i].at = "connecting" => shows[i].at = "connecting"
      BY <1>4, <1>6, <2>1, <2>2, CallsLoseConnection
    <3> QED
      BY <2>1, <2>3, <3>1, ConnectionEnds
  <2>5. viewer' \in ViewerValues /\ SetupIsShown' /\ Pursued'
    <3>1. /\ ~setup => \A j \in Shows : shows[j].at = "setup" => shows'[j].at = "setup"
          /\ ~setup => \A j \in Shows : shows'[j].at = "loading" => shows[j].at = "loading"
          /\ setup => shows'[i].at = "setup" /\ shows'[i].again
      BY <1>4, <2>1, <2>4, CallsLoseConnection
    <3>2. viewer' = IF setup THEN ShowSetup(v, i)
                    ELSE ScheduleReconnect(IF keep THEN v ELSE ShowSetup(v, i))
      BY <1>2, <1>8
    <3> QED
      BY <1>5, <1>6, <1>8, <3>1, <3>2, GivenUp
  <2> QED
    BY <1>2, <1>3, <1>7, <2>4, <2>5, AppTypes, AppTypesNext
<1>9. CASE viewer.connection # c
  <2>1. viewer' = viewer /\ shows' = Closed(c)
    BY <1>2, <1>6, <1>9
  <2>2. \A j \in Shows : shows[j].on # c /\ shows[j].own # c
    BY <1>1, <1>9 DEF Fits
  <2>3. shows' = shows
    <3>1. \A j \in Shows : Closed(c)[j] \in ShowValues /\ shows[j] \in ShowValues
      BY <1>1, ClosedShows
    <3>2. \A j \in Shows : Closed(c)[j] = shows[j]
      <4>1. \A s, t \in ShowValues :
              /\ s.kind = t.kind /\ s.at = t.at /\ s.own = t.own
              /\ s.on = t.on /\ s.live = t.live /\ s.again = t.again
              => s = t
        BY DEF ShowValues
      <4> QED
        BY <1>1, <2>2, <3>1, <4>1, ClosedShows
    <3> QED
      BY <1>1, <1>7, <2>1, <3>2
  <2>4. AppTypeOK'
    BY <1>2, <1>3, <2>1, <2>3, AppTypes, AppTypesNext
  <2>5. viewer.connection # NoPipe => pipes'[viewer.connection] = pipes[viewer.connection]
    BY <1>1, <1>3, <1>9 DEF ViewerValues, Connections
  <2>6. InUse'
    BY <2>1, <2>5 DEF InUse
  <2>7. Pursued'
    BY <1>2, <2>1, <2>3, <2>5 DEF Pursued, Watched, Beating
  <2> QED
    BY <2>1, <2>3, <2>4, <2>6, <2>7 DEF AllFit, OneConnects, SetupIsShown
<1> QED
  BY <1>8, <1>9

LEMMA LiveLoadedKeeps ==
    ASSUME AppInv, NEW i \in Shows, LiveLoaded(i)
    PROVE  AppInv'
<1> USE DEF AppInv
<1>1. /\ viewer \in ViewerValues /\ shows \in [Shows -> ShowValues] /\ shows[i].at = "loading"
      /\ viewer.load = i /\ viewer' = [viewer EXCEPT !.page = "live", !.load = NoLoad]
      /\ shows' = [shows EXCEPT ![i] = Idle] /\ UNCHANGED <<pipes, service, command, outages, clicks>>
  BY AppTypes DEF LiveLoaded
<1>2. /\ viewer' \in ViewerValues /\ viewer'.connection = viewer.connection /\ viewer'.load = 0
      /\ viewer'.setupVisible = viewer.setupVisible /\ viewer'.run = viewer.run
      /\ viewer'.timer = viewer.timer /\ viewer'.heartbeat = viewer.heartbeat /\ viewer'.lease = viewer.lease
  BY <1>1, Numbers DEF ViewerValues
<1>3. /\ shows' \in [Shows -> ShowValues] /\ shows'[i] = Idle /\ ~Pursues(shows[i])
      /\ \A j \in Shows : j # i => shows'[j] = shows[j]
  BY <1>1, IdleIs DEF Pursues
<1>4. AppTypeOK'
  BY <1>1, <1>2, <1>3, AppTypes, AppTypesNext
<1>5. AllFit' /\ OneConnects' /\ InUse'
  <2>1. Fits(Idle, viewer.connection) /\ Idle.at # "connecting"
    BY IdleIs DEF Fits, Asking
  <2> QED
    BY <1>1, <1>2, <1>3, <2>1, OneCallMoves DEF InUse
<1>6. SetupIsShown'
  <2>1. ~viewer'.setupVisible
    BY <1>1, <1>2 DEF SetupIsShown
  <2> QED
    BY <2>1 DEF SetupIsShown
<1>7. Pursued'
  BY <1>1, <1>2, <1>3 DEF Pursued, Watched, Beating
<1> QED
  BY <1>4, <1>5, <1>6, <1>7

LEMMA SetupLoadedKeeps ==
    ASSUME AppInv, NEW i \in Shows, SetupLoaded(i)
    PROVE  AppInv'
<1> DEFINE v == IF viewer.load = i THEN [viewer EXCEPT !.page = "setup", !.load = NoLoad] ELSE viewer
<1> USE DEF AppInv
<1>1. /\ viewer \in ViewerValues /\ shows \in [Shows -> ShowValues] /\ shows[i].at = "setup"
      /\ viewer' = IF shows[i].again THEN ScheduleReconnect(v) ELSE v
      /\ shows' = [shows EXCEPT ![i] = Idle] /\ UNCHANGED <<pipes, service, command, outages, clicks>>
  BY AppTypes DEF SetupLoaded
<1>2. /\ v \in ViewerValues /\ v.connection = viewer.connection /\ v.setupVisible = viewer.setupVisible
      /\ v.run = viewer.run /\ v.timer = viewer.timer /\ v.heartbeat = viewer.heartbeat
      /\ v.lease = viewer.lease /\ v.url = viewer.url
      /\ IF viewer.load = i THEN v.page = "setup" /\ v.load = 0
         ELSE v.page = viewer.page /\ v.load = viewer.load
  BY <1>1, Numbers DEF ViewerValues
<1> HIDE DEF v
<1>3. /\ viewer' \in ViewerValues /\ viewer'.connection = viewer.connection
      /\ viewer'.setupVisible = viewer.setupVisible /\ viewer'.url = viewer.url
      /\ IF viewer.load = i THEN viewer'.page = "setup" /\ viewer'.load = 0
         ELSE viewer'.page = viewer.page /\ viewer'.load = viewer.load
      /\ shows[i].again => viewer'.timer
      /\ ~shows[i].again => viewer' = v
  BY <1>1, <1>2, Scheduled
<1>4. /\ shows' \in [Shows -> ShowValues] /\ shows'[i] = Idle
      /\ \A j \in Shows : j # i => shows'[j] = shows[j]
  BY <1>1, IdleIs
<1>5. AppTypeOK'
  BY <1>1, <1>3, <1>4, AppTypes, AppTypesNext
<1>6. AllFit' /\ OneConnects' /\ InUse'
  <2>1. Fits(Idle, viewer.connection) /\ Idle.at # "connecting"
    BY IdleIs DEF Fits, Asking
  <2> QED
    BY <1>1, <1>3, <1>4, <2>1, OneCallMoves DEF InUse
<1>7. SetupIsShown'
  BY <1>1, <1>3, <1>4, IdleIs, Numbers DEF SetupIsShown
<1>8. Pursued'
  <2>1. CASE shows[i].again
    BY <1>3, <2>1 DEF Pursued
  <2>2. CASE ~shows[i].again
    BY <1>1, <1>2, <1>3, <1>4, <2>2 DEF Pursued, Pursues, Watched, Beating
  <2> QED
    BY <2>1, <2>2
<1> QED
  BY <1>5, <1>6, <1>7, <1>8

LEMMA OpenSetupKeeps ==
    ASSUME AppInv, NEW i \in Shows, OpenSetup(i)
    PROVE  AppInv'
<1> DEFINE r == [Idle EXCEPT !.kind = "menu", !.at = "setup"]
<1> USE DEF AppInv
<1>1. /\ viewer \in ViewerValues /\ shows \in [Shows -> ShowValues] /\ shows[i].at = "idle"
      /\ viewer' = ShowSetup(viewer, i) /\ UNCHANGED <<pipes, service, command, outages>>
      /\ shows' = IF viewer.setupVisible THEN shows ELSE [shows EXCEPT ![i] = r]
      /\ clicks' \in 0..MaxClicks
  BY AppTypes, Numbers DEF OpenSetup, Clicks, FreeShow
<1>2. r \in ShowValues /\ r.at = "setup" /\ r.on = NoPipe /\ r.own = NoPipe
  BY DEF Idle, ShowValues, Kinds, Stages, Connections
<1> HIDE DEF r
<1>3. /\ viewer' \in ViewerValues /\ viewer'.connection = viewer.connection /\ ~viewer'.url
      /\ viewer'.setupVisible /\ viewer'.page = viewer.page /\ viewer'.run = viewer.run
      /\ viewer'.timer = viewer.timer
      /\ viewer'.load = IF viewer.setupVisible THEN viewer.load ELSE i
  BY <1>1, ShownSetup
<1>4. /\ shows' \in [Shows -> ShowValues] /\ \A j \in Shows : j # i => shows'[j] = shows[j]
      /\ IF viewer.setupVisible THEN shows'[i] = shows[i] ELSE shows'[i] = r
  BY <1>1, <1>2
<1>5. AppTypeOK'
  BY <1>1, <1>3, <1>4, AppTypes, AppTypesNext
<1>6. AllFit' /\ OneConnects' /\ InUse'
  <2>1. Fits(shows'[i], viewer.connection) /\ shows'[i].at # "connecting"
    BY <1>1, <1>2, <1>4 DEF Fits, Asking, AllFit
  <2> QED
    BY <1>1, <1>3, <1>4, <2>1, OneCallMoves DEF InUse
<1>7. SetupIsShown'
  <2>1. CASE viewer.setupVisible
    BY <1>3, <1>4, <2>1, PagesStay
  <2>2. CASE ~viewer.setupVisible
    BY <1>2, <1>3, <1>4, <2>2, SetupComesUp
  <2> QED
    BY <2>1, <2>2
<1>8. Pursued'
  <2>1. \A j \in Shows : Pursues(shows[j]) => Pursues(shows'[j])
    BY <1>1, <1>4 DEF Pursues
  <2>2. Watched => Watched'
    BY <1>3 DEF Watched
  <2> QED
    BY <1>3, <2>1, <2>2 DEF Pursued
<1> QED
  BY <1>5, <1>6, <1>7, <1>8

\* The service and its pipes: a connection in use whose lease goes is cut.
LEMMA ServiceKeeps ==
    ASSUME AppInv, ServiceStep \/ ServiceStops \/ ServerLost
    PROVE  AppInv'
<1> USE DEF AppInv
<1>1. /\ viewer \in ViewerValues /\ shows \in [Shows -> ShowValues] /\ pipes \in [Pipes -> PipeStates]
      /\ service \in ServiceValues /\ viewer.connection \in Connections
      /\ outages \in 0..MaxOutages
  BY AppTypes DEF ViewerValues
<1>2. UNCHANGED <<viewer, shows, command, clicks>>
  BY DEF ServiceStep, ServiceStops, ServerLost, ServiceStarts, ServerFound, ServiceNotices, LeaseExpires,
         HeartbeatRefused
<1>3. /\ pipes' \in [Pipes -> PipeStates] /\ service' \in ServiceValues /\ outages' \in 0..MaxOutages
      /\ viewer.connection # NoPipe =>
            /\ pipes'[viewer.connection] \in {"open", "cut"}
            /\ pipes[viewer.connection] = "cut" => pipes'[viewer.connection] = "cut"
            /\ service.holder = viewer.connection =>
                  service'.holder = viewer.connection \/ pipes'[viewer.connection] = "cut"
  <2>1. CASE ServiceStops
    <3>1. /\ outages' \in 0..MaxOutages
          /\ service' = [service EXCEPT !.up = FALSE, !.online = FALSE, !.holder = NoPipe]
          /\ pipes' = [c \in Pipes |-> CASE pipes[c] = "open" -> "cut" [] pipes[c] = "ended" -> "free"
                                         [] OTHER -> pipes[c]]
      BY <1>1, <2>1, Numbers DEF ServiceStops
    <3>2. service' \in ServiceValues
      BY <1>1, <3>1 DEF ServiceValues, Connections
    <3>3. \A c \in Pipes : pipes'[c] \in PipeStates
      BY <1>1, <3>1 DEF PipeStates
    <3>4. pipes' \in [Pipes -> PipeStates]
      BY <3>1, <3>3
    <3>5. \A c \in Pipes : pipes[c] \in {"open", "cut"} => pipes'[c] = "cut"
      BY <3>1
    <3> QED
      BY <1>1, <3>1, <3>2, <3>4, <3>5 DEF InUse, Connections
  <2>2. CASE ServiceStarts \/ ServerFound \/ ServerLost
    <3>1. pipes' = pipes /\ outages' \in 0..MaxOutages /\ service' \in ServiceValues
          /\ service'.holder = service.holder
      <4>1. CASE ServiceStarts
        BY <1>1, <4>1 DEF ServiceStarts, ServiceValues
      <4>2. CASE ServerFound
        BY <1>1, <4>2 DEF ServerFound, ServiceValues
      <4>3. CASE ServerLost
        <5>1. outages < MaxOutages /\ outages' = outages + 1 /\ pipes' = pipes
              /\ service' = [service EXCEPT !.online = FALSE]
          BY <4>3 DEF ServerLost
        <5>2. outages' \in 0..MaxOutages
          BY <1>1, <5>1, Numbers
        <5> QED
          BY <1>1, <5>1, <5>2 DEF ServiceValues
      <4> QED
        BY <2>2, <4>1, <4>2, <4>3
    <3> QED
      BY <1>1, <3>1 DEF InUse
  <2>3. ASSUME NEW c \in Pipes, ServiceNotices(c)
        PROVE  <1>3
    <3>1. pipes' = [pipes EXCEPT ![c] = "free"] /\ pipes[c] = "ended" /\ outages' = outages
          /\ service' = [service EXCEPT !.holder = IF @ = c THEN NoPipe ELSE @]
      BY <2>3 DEF ServiceNotices
    <3>2. c # viewer.connection
      BY <3>1, Numbers DEF InUse
    <3>3. service' \in ServiceValues /\ (service.holder # c => service'.holder = service.holder)
      BY <1>1, <3>1 DEF ServiceValues, Connections
    <3> QED
      BY <1>1, <3>1, <3>2, <3>3 DEF InUse, PipeStates, Connections
  <2>4. ASSUME NEW c \in Pipes, LeaseExpires(c) \/ HeartbeatRefused(c)
        PROVE  <1>3
    <3>1. pipes' = [pipes EXCEPT ![c] = "cut"] /\ outages' = outages
          /\ service' \in {[service EXCEPT !.holder = NoPipe],
                           [service EXCEPT !.holder = IF @ = c THEN NoPipe ELSE @]}
          /\ (service.holder # c => service' = [service EXCEPT !.holder = IF @ = c THEN NoPipe ELSE @])
      BY <2>4 DEF LeaseExpires, HeartbeatRefused
    <3>2. service' \in ServiceValues /\ (service.holder # c => service'.holder = service.holder)
      BY <1>1, <3>1 DEF ServiceValues, Connections
    <3> QED
      BY <1>1, <3>1, <3>2 DEF InUse, PipeStates, Connections
  <2> QED
    BY <2>1, <2>2, <2>3, <2>4 DEF ServiceStep
<1>4. AppTypeOK'
  BY <1>2, <1>3, AppTypes, AppTypesNext
<1>5. InUse'
  BY <1>2, <1>3 DEF InUse
<1>6. Pursued'
  BY <1>2, <1>3 DEF Pursued, Watched, Beating
<1> QED
  BY <1>2, <1>4, <1>5, <1>6 DEF AllFit, OneConnects, SetupIsShown

\* Commands of the service touch no connection; a reload only begins over a live page.
LEMMA CommandKeeps ==
    ASSUME AppInv, \/ \E type \in ViewerCommandTypes : CommandArrives(type)
                   \/ \E ok \in BOOLEAN : CommandRuns(ok)
    PROVE  AppInv'
<1> USE DEF AppInv
<1>1. /\ viewer \in ViewerValues /\ shows \in [Shows -> ShowValues] /\ viewer.connection \in Connections
      /\ command \in CommandValues /\ clicks \in 0..MaxClicks
  BY AppTypes DEF ViewerValues
<1>2. UNCHANGED <<shows, pipes, service, outages>>
  BY DEF CommandArrives, CommandRuns
<1>3. /\ viewer' \in ViewerValues /\ viewer'.connection = viewer.connection /\ viewer'.run = viewer.run
      /\ viewer'.timer = viewer.timer /\ viewer'.heartbeat = viewer.heartbeat /\ viewer'.lease = viewer.lease
      /\ viewer'.setupVisible = viewer.setupVisible /\ viewer'.url = viewer.url
      /\ \/ viewer'.page = viewer.page /\ viewer'.load = viewer.load
         \/ ~viewer.setupVisible
      /\ command' \in CommandValues /\ clicks' \in 0..MaxClicks
  <2>1. ASSUME NEW type \in ViewerCommandTypes, CommandArrives(type)
        PROVE  <1>3
    <3>1. /\ viewer' = IF type = "reload_live" /\ viewer.url THEN [viewer EXCEPT !.load = Reload] ELSE viewer
          /\ clicks' \in 0..MaxClicks
          /\ \E at \in {"reload", "succeeded", "running", "failed"} :
                command' = [type |-> type, on |-> viewer.connection, at |-> at]
      BY <1>1, <2>1, Numbers DEF CommandArrives, ReceivesCommand
    <3>2. command' \in CommandValues
      BY <1>1, <3>1 DEF CommandValues, ViewerCommandTypes
    <3> QED
      BY <1>1, <3>1, <3>2, Numbers DEF SetupIsShown, ViewerValues
  <2>2. ASSUME NEW ok \in BOOLEAN, CommandRuns(ok)
        PROVE  <1>3
    <3>1. /\ viewer' \in {viewer, [viewer EXCEPT !.load = NoLoad, !.page = IF ok THEN "live" ELSE @]}
          /\ viewer' # viewer => viewer.load = Reload
          /\ clicks' = clicks /\ command' = [command EXCEPT !.at = IF ok THEN "succeeded" ELSE "failed"]
      BY <2>2 DEF CommandRuns
    <3>2. command' \in CommandValues
      BY <1>1, <3>1 DEF CommandValues
    <3> QED
      <4>1. CASE viewer' = viewer
        BY <1>1, <3>1, <3>2, <4>1
      <4>2. CASE viewer' # viewer
        <5>1. PICK page \in {viewer.page, "live"} : viewer' = [viewer EXCEPT !.load = NoLoad, !.page = page]
          BY <3>1, <4>2
        <5>2. viewer \in ViewerValues /\ viewer.load = Reload
          BY <1>1, <3>1, <4>2
        <5>3. viewer' \in ViewerValues
          BY <5>1, <5>2, Numbers DEF ViewerValues
        <5>4. /\ viewer'.connection = viewer.connection /\ viewer'.run = viewer.run
              /\ viewer'.timer = viewer.timer /\ viewer'.heartbeat = viewer.heartbeat
              /\ viewer'.lease = viewer.lease /\ viewer'.setupVisible = viewer.setupVisible
              /\ viewer'.url = viewer.url
          BY <5>1, <5>2 DEF ViewerValues
        <5>5. ~viewer.setupVisible
          BY <5>2 DEF SetupIsShown
        <5>6. clicks' \in 0..MaxClicks
          BY <1>1, <3>1
        <5> QED
          BY <3>2, <5>3, <5>4, <5>5, <5>6
      <4> QED
        BY <4>1, <4>2
  <2> QED
    BY <2>1, <2>2
<1>4. AppTypeOK'
  BY <1>1, <1>2, <1>3, AppTypes, AppTypesNext
<1>5. SetupIsShown'
  BY <1>2, <1>3 DEF SetupIsShown
<1> QED
  BY <1>2, <1>3, <1>4, <1>5 DEF AllFit, OneConnects, InUse, Pursued, Watched, Beating

LEMMA ResultKeeps ==
    ASSUME AppInv, ResultReported
    PROVE  AppInv'
<1>1. UNCHANGED <<shows, pipes, service, outages, clicks>> /\ command' \in CommandValues
  BY DEF ResultReported, NoCommand, CommandValues, Connections
<1>2. outages' \in 0..MaxOutages /\ clicks' \in 0..MaxClicks
  BY <1>1, AppTypes DEF AppInv
<1>3. CASE viewer' = [viewer EXCEPT !.run = "exited"]
  BY <1>1, <1>2, <1>3, ProcessEnds
<1>4. CASE viewer' = viewer
  <2>1. AppTypeOK'
    BY <1>1, <1>2, <1>4, AppTypes, AppTypesNext DEF AppInv
  <2> QED
    BY <1>1, <1>4, <2>1 DEF AppInv, AllFit, OneConnects, InUse, SetupIsShown, Pursued, Watched, Beating
<1> QED
  BY <1>3, <1>4 DEF ResultReported

LEMMA AppStart == AppInit => AppInv
<1> SUFFICES ASSUME AppInit PROVE AppInv
  OBVIOUS
<1>1. /\ shows[1] = [Idle EXCEPT !.kind = "launch", !.at = "connecting"]
      /\ \A i \in Shows : i # 1 => shows[i] = Idle
  BY Numbers DEF AppInit
<1>2. /\ shows[1].at = "connecting" /\ shows[1].kind = "launch" /\ shows[1].on = NoPipe /\ shows[1].own = NoPipe
      /\ viewer.connection = NoPipe /\ ~viewer.setupVisible /\ ~viewer.url /\ viewer.load = 0
  <2>1. viewer.connection = NoPipe /\ ~viewer.setupVisible /\ ~viewer.url /\ viewer.load = 0
    BY Numbers DEF AppInit
  <2> QED
    BY <1>1, <2>1 DEF Idle
<1>3. AllFit /\ OneConnects
  BY <1>1, <1>2, IdleIs DEF AllFit, OneConnects, Fits, Asking
<1>4. InUse /\ SetupIsShown
  BY <1>2 DEF InUse, SetupIsShown
<1>5. Pursued
  BY <1>2, Numbers DEF Pursued, Pursues
<1> QED
  BY <1>3, <1>4, <1>5, AppTypesInit DEF AppInv

LEMMA AppStep ==
    ASSUME ~ConnectsOverlap, AppInv, [AppNext]_appVars
    PROVE  AppInv'
<1>1. outages \in 0..MaxOutages /\ clicks \in 0..MaxClicks /\ command \in CommandValues
  BY AppTypes DEF AppInv
<1>2. CASE UNCHANGED appVars
  <2>1. AppTypeOK'
    BY <1>2, AppTypes, AppTypesNext DEF AppInv, appVars
  <2> QED
    BY <1>2, <2>1 DEF appVars, AppInv, AllFit, OneConnects, InUse, SetupIsShown, Pursued, Watched, Beating
<1>3. ASSUME NEW i \in Shows, ViewerStep(i)
      PROVE  AppInv'
  <2>1. CASE ReconnectDue(i)
    BY <1>1, <2>1, BeginKeeps DEF ReconnectDue
  <2> QED
    BY <1>3, <2>1, ConnectFailsKeeps, StatusKeeps, LeaseKeeps, LiveLoadedKeeps, LoadEnds, SetupLoadedKeeps,
       RejectedKeeps, ConfigureArrivesKeeps, ConnectsKeeps, PipeFailsKeeps DEF ViewerStep
<1>4. ASSUME NEW i \in Shows, OperatorStep(i)
      PROVE  AppInv'
  <2>1. CASE RetryConnection(i)
    BY <1>1, <2>1, Numbers, BeginKeeps DEF RetryConnection, Clicks
  <2> QED
    BY <1>4, <2>1, ConfigureKeeps, OpenSetupKeeps DEF OperatorStep
<1>5. ASSUME NEW i \in Shows, AutoStartDeclined(i)
      PROVE  AppInv'
  BY <1>1, <1>5, ProcessEnds DEF AutoStartDeclined
<1>6. CASE Quit
  BY <1>1, <1>6, Numbers, ProcessEnds DEF Quit, Clicks
<1> QED
  BY <1>2, <1>3, <1>4, <1>5, <1>6, LoadEnds, ServiceKeeps, CommandKeeps, ResultKeeps DEF AppNext

-----------------------------------------------------------------------------

\* For any number of pipes, calls, outages and clicks, while a load of the live page that still
\* connects is not overtaken by another: what waits on a pipe waits on the one in use, and the
\* setup page is there or on its way when the Viewer says it shows it (main.ts).
THEOREM ViewerInvariant ==
    ASSUME ~ConnectsOverlap
    PROVE  AppSpec => []AppInv
BY AppStart, AppStep, PTL DEF AppSpec

\* Under the same condition a running Viewer is never abandoned: an attempt, a call that leads
\* to one, a heartbeat or lease whose end it will learn of, or the setup page with a connection
\* (connectAndShow, onDisconnect and the reconnect timer of main.ts).
THEOREM TheViewerIsNeverAbandoned ==
    ASSUME ~ConnectsOverlap
    PROVE  AppSpec => []NeverAbandoned
<1>1. ASSUME AppInv PROVE NeverAbandoned
  <2>1. viewer.connection \in Connections
    BY <1>1, AppTypes DEF AppInv, ViewerValues
  <2>2. \A i \in Shows : Pursues(shows[i]) => shows[i].at # "idle"
    BY DEF Pursues
  <2>3. Watched /\ viewer.setupVisible => viewer.page = "setup" \/ \E i \in Shows : shows[i].at # "idle"
    BY <1>1 DEF AppInv, SetupIsShown
  <2> QED
    BY <1>1, <2>1, <2>2, <2>3 DEF AppInv, Pursued, NeverAbandoned, Watched, Connections
<1> QED
  BY <1>1, ViewerInvariant, PTL
===============================================================================
