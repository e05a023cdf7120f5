---------------------------- MODULE PlaybackProofs ----------------------------
(*****************************************************************************)
(* Proofs about the two ways a tile of the console shows video.              *)
(*                                                                           *)
(* One live tile, for all durations in the order the source keeps, both      *)
(* preferred transports, with and without a fallback stream, and any number  *)
(* of restarts.  SilenceIsBounded is not inductive.  QuietInv adds what      *)
(* each timer still allows: the seconds since the last progress and those    *)
(* left on the timer that is set never exceed the time that timer began      *)
(* with, and a retry that is no cooldown was set early enough to end within  *)
(* the stall time.                                                           *)
(*                                                                           *)
(* Recorded playback, for all cameras and recordings and any number of       *)
(* calls under way.  Whether an answer counts is decided by its number, so   *)
(* the invariant is about numbers: no two calls share one, no video and no   *)
(* other camera holds the number of a call under way, and a call that still  *)
(* counts is the newest of a camera on the page.  That a fresh number        *)
(* exists is a counting argument (EnoughNumbers).                            *)
(*****************************************************************************)
EXTENDS LivePlayback, RecordedPlayback, FiniteSetTheorems, FunctionTheorems, WellFoundedInduction,
        SequenceTheorems, TLAPS

Recoveries == [episode : Off..Episode, step : 0..(Len(Steps) + 1),
               stable : Off..StableReset, gap : Off..(Stall + 1)]

\* A promoter that does something has a timer, and a connection it would replace.
PromoterInv ==
    /\ promoter.pc = "off" <=> promoter.left = Off
    /\ promoter.pc # "off" => mounted /\ held

\* All retries of an episode are used up only in cooldown.
StepInv == recovery.step > Len(Steps) => ~held /\ retry.phase = "cooldown"

\* How long the tile may have been quiet, by the timer that watches it.
QuietInv ==
    mounted =>
        /\ setup # Off => quiet + setup <= Setup
        /\ stall # Off => quiet + stall <= Stall
        /\ ~held /\ retry.phase = "cooldown" => quiet + retry.left <= Stall + Cooldown
        /\ ~held /\ retry.phase # "cooldown" => quiet + retry.left <= Stall

\* An attempt is at least as old as its silence.
AgeInv == Lesser(quiet, RetryInterval) <= age

TileInv ==
    TileTypeOK /\ OneConnection /\ NeverParked /\ PromoterInv /\ StepInv /\ QuietInv /\ AgeInv

-----------------------------------------------------------------------------
(* Durations, steps and the recovery record. *)

LEMMA Durations ==
    /\ Setup \in Nat \ {0} /\ RetryInterval \in Nat \ {0} /\ Stall \in Nat \ {0}
    /\ Episode \in Nat \ {0} /\ StableReset \in Nat \ {0} /\ Cooldown \in Nat \ {0}
    /\ ProbeInterval \in Nat \ {0} /\ ProbeTimeout \in Nat \ {0} /\ Latency \in Nat \ {0}
    /\ RetryInterval <= Setup /\ Setup <= Stall /\ Stall <= Episode
    /\ StableReset <= Episode /\ Cooldown <= Episode
BY DurationsAssumption

LEMMA FirstRoute ==
    /\ First \in Routes /\ First.stream = "primary"
    /\ \A t \in Transports, s \in Streams : Route(t, s) \in Routes
BY VariantAssumption DEF First, Route, Routes, Transports, Streams

\* The retries of an episode are routes, and none of them is a cooldown.
LEMMA StepsFacts ==
    /\ Len(Steps) \in Nat \ {0}
    /\ \A i \in 1 .. Len(Steps) :
          Steps[i].route \in Routes /\ Steps[i].phase \in Phases \ {"cooldown"}
<1> DEFINE Step == [route : Routes, phase : Phases \ {"cooldown"}]
           w == [route |-> Route("webrtc", "primary"), phase |-> "retrying"]
           m == [route |-> Route("mse", "primary"), phase |-> "retrying"]
           f == [route |-> Route("mse", "fallback"), phase |-> "fallback"]
           l == [route |-> First, phase |-> "recovering"]
           b == IF HasFallback THEN <<f>> ELSE <<>>
<1>1. Steps = <<w, m>> \o b \o <<l>>
  BY DEF Steps
<1>2. w \in Step /\ m \in Step /\ f \in Step /\ l \in Step
  BY FirstRoute DEF Transports, Streams, Phases
<1>3. \A s \in Step : s.route \in Routes /\ s.phase \in Phases \ {"cooldown"}
  OBVIOUS
<1> HIDE DEF Step, w, m, f, l
<1>4. /\ <<w, m>> \in Seq(Step) /\ b \in Seq(Step)
      /\ <<l>> \in Seq(Step) /\ Len(<<l>>) = 1
  BY <1>2
<1> HIDE DEF b
<1>5. <<w, m>> \o b \in Seq(Step)
  BY <1>4, ConcatProperties
<1>6. Steps \in Seq(Step) /\ Len(Steps) = Len(<<w, m>> \o b) + 1
  BY <1>1, <1>4, <1>5, ConcatProperties
<1>7. Len(<<w, m>> \o b) \in Nat
  BY <1>5, LenProperties
<1>8. \A i \in 1 .. Len(Steps) : Steps[i] \in Step
  BY <1>6, ElementOfSeq
<1> QED
  BY <1>3, <1>6, <1>7, <1>8

LEMMA RecoveryFields ==
    ASSUME NEW r \in Recoveries
    PROVE  /\ r.episode \in Off..Episode /\ r.step \in 0 .. (Len(Steps) + 1)
           /\ r.stable \in Off..StableReset /\ r.gap \in Off..(Stall + 1)
BY DEF Recoveries

LEMMA NewRecoveryType ==
    NewRecovery \in Recoveries /\ NewRecovery.step = 0 /\ Remaining(NewRecovery) > 0
BY Durations, StepsFacts DEF NewRecovery, Recoveries, Remaining, Off

LEMMA RecoveryTypes ==
    ASSUME NEW r \in Recoveries
    PROVE  /\ RecordFailure(r) \in Recoveries /\ RecordFailure(r).step = r.step
           /\ RecordProgress(r) \in Recoveries /\ RecordProgress(r).step \in {0, r.step}
           /\ RestartEpisode(r) \in Recoveries /\ RestartEpisode(r).step = 0
           /\ Remaining(RestartEpisode(r)) > 0
           /\ \A n \in 0 .. (Len(Steps) + 1) :
                 [r EXCEPT !.step = n] \in Recoveries /\ [r EXCEPT !.step = n].step = n
<1> DEFINE E == Off..Episode
           N == 0 .. (Len(Steps) + 1)
           S == Off..StableReset
           G == Off..(Stall + 1)
           All == [episode : E, step : N, stable : S, gap : G]
           zero == 0
<1>1. /\ Recoveries = All
      /\ NewRecovery = [episode |-> Off, step |-> zero, stable |-> Off, gap |-> Off]
  BY DEF Recoveries, NewRecovery
<1>2. /\ Off \in E /\ Off \in S /\ Off \in G
      /\ zero \in E /\ zero \in N /\ zero \in S /\ zero \in G
  BY Durations, StepsFacts DEF Off
<1>3. RecordFailure(r) = [r EXCEPT !.stable = Off, !.episode = IF @ = Off THEN zero ELSE @]
  BY DEF RecordFailure
<1>4. PICK since \in S :
        RecordProgress(r) = IF since < StableReset
                            THEN [r EXCEPT !.stable = since, !.gap = zero]
                            ELSE [NewRecovery EXCEPT !.stable = zero, !.gap = zero]
  <2> DEFINE t == IF r.stable = Off \/ r.gap = Off \/ r.gap > Stall THEN 0 ELSE r.stable
  <2>1. t \in S
    BY <1>2, RecoveryFields
  <2> QED
    BY <2>1 DEF RecordProgress
<1>5. RestartEpisode(r) = [r EXCEPT !.episode = zero, !.step = zero, !.stable = Off]
  BY DEF RestartEpisode
<1>6. zero = 0
  OBVIOUS
<1> HIDE DEF E, N, S, G, zero
<1>7. r \in All
  BY <1>1
<1>8. RecordFailure(r) \in All /\ RecordFailure(r).step = r.step
  BY <1>2, <1>3, <1>7
<1>9. [r EXCEPT !.stable = since, !.gap = zero] \in All
      /\ [r EXCEPT !.stable = since, !.gap = zero].step = r.step
  BY <1>2, <1>7
<1>10. [NewRecovery EXCEPT !.stable = zero, !.gap = zero] \in All
       /\ [NewRecovery EXCEPT !.stable = zero, !.gap = zero].step = zero
  BY <1>1, <1>2
<1>11. /\ RestartEpisode(r) \in All /\ RestartEpisode(r).step = zero
       /\ RestartEpisode(r).episode = zero
  BY <1>2, <1>5, <1>7
<1>12. Remaining(RestartEpisode(r)) > 0
  BY <1>6, <1>11, Durations DEF Remaining, Greater, Off
<1>13. \A n \in N : [r EXCEPT !.step = n] \in All /\ [r EXCEPT !.step = n].step = n
  BY <1>7
<1> HIDE DEF All
<1> QED
  BY <1>1, <1>4, <1>6, <1>8, <1>9, <1>10, <1>11, <1>12, <1>13 DEF N

LEMMA RemainingType ==
    ASSUME NEW r \in Recoveries
    PROVE  Remaining(r) \in 0 .. Episode
BY Durations, RecoveryFields DEF Remaining, Greater, Off

-----------------------------------------------------------------------------
(* Tearing down and beginning an attempt. *)

Retries == [left : Off..Episode, route : Routes, phase : Phases]
Promoters == [pc : {"off", "waiting", "probing"}, transport : Transports,
              left : Off..Greater(ProbeInterval, ProbeTimeout), good : BOOLEAN]

LEMMA OffTypes ==
    /\ NoRetry \in Retries /\ NoRetry.left = Off /\ NoRetry.phase = "cooldown"
    /\ PromoterOff \in Promoters /\ PromoterOff.pc = "off" /\ PromoterOff.left = Off
<1>1. Greater(ProbeInterval, ProbeTimeout) \in Nat
  BY Durations DEF Greater
<1> QED
  BY <1>1, Durations, FirstRoute, VariantAssumption
  DEF NoRetry, PromoterOff, Retries, Promoters, Off, Phases, Transports

\* The type invariant, conjunct by conjunct.
LEMMA TypesOf ==
    TileTypeOK <=>
        /\ up \subseteq Routes /\ attempt \in Routes /\ phase \in Phases
        /\ mounted \in BOOLEAN /\ held \in BOOLEAN /\ good \in BOOLEAN /\ frame \in BOOLEAN
        /\ open \in Nat /\ restarts \in 0..MaxRestarts
        /\ setup \in Off..Setup /\ stall \in Off..Stall
        /\ retry \in Retries /\ recovery \in Recoveries /\ promoter \in Promoters
        /\ age \in 0..RetryInterval /\ quiet \in Nat
BY Zenon DEF TileTypeOK, Retries, Recoveries, Promoters

LEMMA TypesNext ==
    (/\ up \subseteq Routes /\ attempt \in Routes /\ phase \in Phases
     /\ mounted \in BOOLEAN /\ held \in BOOLEAN /\ good \in BOOLEAN /\ frame \in BOOLEAN
     /\ open \in Nat /\ restarts \in 0..MaxRestarts
     /\ setup \in Off..Setup /\ stall \in Off..Stall
     /\ retry \in Retries /\ recovery \in Recoveries /\ promoter \in Promoters
     /\ age \in 0..RetryInterval /\ quiet \in Nat)' => TileTypeOK'
BY TypesOf, PTL

\* Of the timers that must be off when the tile has gone.
LEMMA AllOff ==
    {setup, stall, retry.left, promoter.left} = {Off} <=>
        setup = Off /\ stall = Off /\ retry.left = Off /\ promoter.left = Off
OBVIOUS

\* A tile without a connection, whose retry is set.
LEMMA Resting ==
    ASSUME TileTypeOK, OneConnection, AgeInv, mounted, UNCHANGED <<up, mounted>>,
           restarts' \in 0..MaxRestarts,
           Teardown, UNCHANGED <<attempt, age, quiet>>, phase' \in Phases,
           recovery' \in Recoveries,
           retry' \in Retries, retry'.left # Off,
           recovery'.step > Len(Steps) => retry'.phase = "cooldown",
           IF retry'.phase = "cooldown" THEN quiet + retry'.left <= Stall + Cooldown
           ELSE quiet + retry'.left <= Stall
    PROVE  TileInv'
<1> USE Durations, OffTypes
<1>1. OneConnection'
  BY DEF OneConnection, Teardown, AfterClose, TileTypeOK
<1>2. TileTypeOK'
  <2>1. /\ up' \subseteq Routes /\ attempt' \in Routes /\ phase' \in Phases
        /\ restarts' \in 0..MaxRestarts /\ setup' \in Off..Setup /\ stall' \in Off..Stall
        /\ promoter' \in Promoters /\ age' \in 0..RetryInterval /\ quiet' \in Nat
    BY TypesOf DEF Teardown, Off
  <2>2. /\ mounted' \in BOOLEAN /\ held' \in BOOLEAN /\ good' \in BOOLEAN
        /\ frame' \in BOOLEAN
    BY TypesOf, Zenon DEF Teardown, Leftovers
  <2>3. open' \in Nat
    BY TypesOf DEF Teardown, AfterClose, OneConnection
  <2> QED
    BY <2>1, <2>2, <2>3, TypesNext
<1>3. NeverParked' /\ PromoterInv' /\ StepInv' /\ AgeInv'
  BY DEF NeverParked, PromoterInv, StepInv, AgeInv, Teardown, Lesser
<1>4. QuietInv'
  BY DEF QuietInv, Teardown
<1> QED
  BY <1>1, <1>2, <1>3, <1>4 DEF TileInv

LEMMA AdvanceInv ==
    ASSUME TileTypeOK, OneConnection, AgeInv, mounted, UNCHANGED <<up, mounted>>,
           restarts' \in 0..MaxRestarts,
           quiet <= Stall, NEW r \in Recoveries, r.step <= Len(Steps), Advance(r)
    PROVE  TileInv'
<1> DEFINE failed == RecordFailure(r)
           counted == [failed EXCEPT !.step = @ + 1]
<1> USE Durations, StepsFacts, OffTypes
<1>1. failed \in Recoveries /\ failed.step = r.step
  BY RecoveryTypes
<1>2. counted \in Recoveries /\ counted.step = r.step + 1 /\ r.step \in Nat
  <2>1. failed.step + 1 \in 0 .. (Len(Steps) + 1) /\ r.step \in Nat
    BY <1>1, RecoveryFields
  <2> HIDE DEF failed
  <2>2. counted \in Recoveries /\ counted.step = failed.step + 1
    BY <1>1, <2>1, RecoveryTypes
  <2> QED
    BY <1>1, <2>1, <2>2
<1>3. \/ Remaining(failed) = 0 /\ EnterCooldown(failed)
      \/ counted.step > Len(Steps) /\ EnterCooldown(counted)
      \/ /\ counted.step \in 1 .. Len(Steps)
         /\ Teardown
         /\ retry' = [left |-> RetryDelay, route |-> Steps[counted.step].route,
                      phase |-> Steps[counted.step].phase]
         /\ recovery' = counted
         /\ UNCHANGED <<phase, attempt, age, quiet>>
  BY <1>2 DEF Advance
<1> HIDE DEF failed, counted
<1>4. ASSUME NEW s \in {failed, counted}, EnterCooldown(s)
      PROVE  TileInv'
  <2>1. /\ Teardown /\ phase' \in Phases /\ UNCHANGED <<attempt, age, quiet>>
        /\ retry' = [NoRetry EXCEPT !.left = Cooldown] /\ recovery' = s
    BY <1>4 DEF EnterCooldown, Phases
  <2>2. retry' \in Retries /\ retry'.left = Cooldown /\ retry'.phase = "cooldown"
    BY <2>1 DEF Retries, Off
  <2>3. quiet + retry'.left <= Stall + Cooldown /\ retry'.left # Off
    BY <2>2 DEF TileTypeOK, Off
  <2> QED
    BY <1>1, <1>2, <2>1, <2>2, <2>3, Resting
<1>5. CASE /\ counted.step \in 1 .. Len(Steps)
           /\ Teardown
           /\ retry' = [left |-> RetryDelay, route |-> Steps[counted.step].route,
                        phase |-> Steps[counted.step].phase]
           /\ recovery' = counted
           /\ UNCHANGED <<phase, attempt, age, quiet>>
  <2>1. RetryDelay \in 0 .. RetryInterval /\ quiet + RetryDelay <= Stall
    BY TypesOf DEF RetryDelay, Greater, Lesser, AgeInv
  <2>2. /\ retry' \in Retries /\ retry'.left = RetryDelay /\ retry'.left # Off
        /\ retry'.phase # "cooldown"
    BY <1>5, <2>1 DEF Retries, Off
  <2>3. ~(recovery'.step > Len(Steps)) /\ phase' \in Phases
    <3>1. recovery'.step = counted.step /\ phase' = phase
      BY <1>5
    <3>2. phase \in Phases
      BY DEF TileTypeOK
    <3>3. counted.step \in Int /\ counted.step <= Len(Steps)
      BY <1>5
    <3>4. ~(counted.step > Len(Steps))
      BY <3>3
    <3> QED
      BY <3>1, <3>2, <3>4
  <2> QED
    BY <1>2, <1>5, <2>1, <2>2, <2>3, Resting
<1> QED
  BY <1>3, <1>4, <1>5

LEMMA BeginInv ==
    ASSUME TileTypeOK, OneConnection, AgeInv, mounted, UNCHANGED <<up, mounted>>,
           restarts' \in 0..MaxRestarts,
           NEW route \in Routes, NEW ph \in Phases,
           NEW r \in Recoveries, r.step <= Len(Steps), Remaining(r) > 0 \/ quiet <= Stall,
           BeginAttempt(route, ph, r)
    PROVE  TileInv'
<1> USE Durations, StepsFacts, OffTypes
<1>1. CASE Remaining(r) = 0
  BY <1>1, AdvanceInv DEF BeginAttempt
<1>2. CASE Remaining(r) # 0
  <2>1. /\ open' = AfterClose + 1 /\ held' = TRUE /\ good' = (route \in up) /\ Leftovers
        /\ attempt' = route /\ phase' = ph
        /\ setup' = Lesser(Setup, Remaining(r)) /\ stall' = Off
        /\ retry' = NoRetry /\ promoter' = PromoterOff /\ recovery' = r
        /\ age' = 0 /\ quiet' = 0
    BY <1>2 DEF BeginAttempt, PublishAttempt
  <2>2. setup' \in 1 .. Setup
    BY <1>2, <2>1, RemainingType DEF Lesser
  <2>3. open' = 1
    BY <2>1 DEF OneConnection, AfterClose
  <2>4. TileTypeOK'
    <3>1. /\ up' \subseteq Routes /\ attempt' \in Routes /\ phase' \in Phases
          /\ mounted' \in BOOLEAN /\ held' \in BOOLEAN /\ open' \in Nat
          /\ restarts' \in 0..MaxRestarts /\ setup' \in Off..Setup /\ stall' \in Off..Stall
          /\ retry' \in Retries /\ recovery' \in Recoveries /\ promoter' \in Promoters
          /\ age' \in 0..RetryInterval /\ quiet' \in Nat
      BY <2>1, <2>2, <2>3, TypesOf DEF Off
    <3>2. good' \in BOOLEAN
      <4>1. (route \in up) \in BOOLEAN
        OBVIOUS
      <4> QED
        BY <2>1, <4>1, Zenon
    <3>3. frame' \in BOOLEAN
      BY <2>1, TypesOf, Zenon DEF Leftovers
    <3> QED
      BY <3>1, <3>2, <3>3, TypesNext
  <2>5. OneConnection' /\ NeverParked' /\ PromoterInv' /\ StepInv'
    <3>1. held' /\ mounted' /\ setup' # Off /\ stall' = Off /\ retry'.left = Off
      BY <2>1, <2>2 DEF Off
    <3>2. ~(recovery'.step > Len(Steps))
      BY <2>1, RecoveryFields
    <3> QED
      BY <2>1, <2>3, <3>1, <3>2 DEF OneConnection, NeverParked, PromoterInv, StepInv
  <2>6. QuietInv' /\ AgeInv'
    BY <2>1, <2>2 DEF QuietInv, AgeInv, Lesser
  <2> QED
    BY <2>4, <2>5, <2>6 DEF TileInv
<1> QED
  BY <1>1, <1>2

-----------------------------------------------------------------------------
(* The steps. *)

\* A tile whose attempt is in progress: nothing about its silence is left open.
LEMMA HeldFacts ==
    ASSUME TileInv, held
    PROVE  mounted /\ quiet <= Stall /\ recovery.step <= Len(Steps) /\ recovery \in Recoveries
<1>1. /\ mounted /\ recovery \in Recoveries /\ quiet \in Nat
      /\ setup \in Off..Setup /\ stall \in Off..Stall
  BY TypesOf DEF TileInv, OneConnection
<1>2. quiet <= Stall
  BY <1>1, Durations DEF TileInv, NeverParked, QuietInv, Off
<1>3. recovery.step <= Len(Steps)
  BY <1>1, StepsFacts, RecoveryFields DEF TileInv, StepInv
<1> QED
  BY <1>1, <1>2, <1>3

LEMMA FailureInv ==
    ASSUME TileInv, ConnectionFails \/ SetupExpires \/ StallExpires
    PROVE  TileInv'
<1>1. held /\ FailAttempt
  BY AllOff DEF ConnectionFails, SetupExpires, StallExpires, TileInv, NeverParked, OneConnection,
                Off
<1> QED
  BY <1>1, HeldFacts, AdvanceInv, TypesOf DEF FailAttempt, TileInv

LEMMA RetryInv ==
    ASSUME TileInv, RetryFires
    PROVE  TileInv'
<1>0. /\ mounted /\ ~held /\ retry \in Retries /\ recovery \in Recoveries /\ quiet \in Nat
      /\ retry.left = 0 /\ UNCHANGED <<up, mounted>> /\ restarts' \in 0..MaxRestarts
      /\ TileTypeOK /\ OneConnection /\ AgeInv
  BY AllOff, TypesOf DEF RetryFires, TileInv, NeverParked, OneConnection, Off
<1>1. CASE retry.phase = "cooldown"
  <2> DEFINE r == RestartEpisode(recovery)
  <2>1. r \in Recoveries /\ r.step <= Len(Steps) /\ Remaining(r) > 0
    BY <1>0, RecoveryTypes, StepsFacts
  <2>2. BeginAttempt(First, "retrying", r)
    BY <1>1 DEF RetryFires
  <2>3. First \in Routes /\ "retrying" \in Phases
    BY FirstRoute DEF Phases
  <2> HIDE DEF r
  <2> QED
    BY <1>0, <2>1, <2>2, <2>3, BeginInv
<1>2. CASE retry.phase # "cooldown"
  <2>1. BeginAttempt(retry.route, retry.phase, recovery)
    BY <1>2 DEF RetryFires
  <2>2. quiet <= Stall
    BY <1>0, <1>2 DEF TileInv, QuietInv
  <2>3. retry.route \in Routes /\ retry.phase \in Phases
    BY <1>0 DEF Retries
  <2>4. recovery.step <= Len(Steps)
    BY <1>0, <1>2, StepsFacts, RecoveryFields DEF TileInv, StepInv
  <2> QED
    BY <1>0, <2>1, <2>2, <2>3, <2>4, BeginInv
<1> QED
  BY <1>1, <1>2

LEMMA PromoterTypes ==
    /\ Off \in Off..Greater(ProbeInterval, ProbeTimeout)
    /\ ProbeInterval \in Off..Greater(ProbeInterval, ProbeTimeout) /\ ProbeInterval # Off
    /\ ProbeTimeout \in Off..Greater(ProbeInterval, ProbeTimeout) /\ ProbeTimeout # Off
    /\ [PromoterOff EXCEPT !.pc = "waiting", !.left = ProbeInterval] \in Promoters
    /\ [PromoterOff EXCEPT !.pc = "waiting", !.left = ProbeInterval].pc = "waiting"
    /\ [PromoterOff EXCEPT !.pc = "waiting", !.left = ProbeInterval].left = ProbeInterval
    /\ \A t \in Transports :
          /\ ProbeOf(t) \in Promoters /\ ProbeOf(t).pc = "probing"
          /\ ProbeOf(t).left = ProbeTimeout
<1> DEFINE L == Off..Greater(ProbeInterval, ProbeTimeout)
<1>1. /\ Off \in L /\ ProbeInterval \in L /\ ProbeTimeout \in L
      /\ ProbeInterval # Off /\ ProbeTimeout # Off
  BY Durations DEF Off, Greater
<1>2. Promoters = [pc : {"off", "waiting", "probing"}, transport : Transports,
                   left : L, good : BOOLEAN]
  BY DEF Promoters
<1> HIDE DEF L
<1>3. ASSUME NEW t \in Transports
      PROVE  ProbeOf(t) \in Promoters /\ ProbeOf(t).pc = "probing" /\ ProbeOf(t).left = ProbeTimeout
  <2>1. (Route(t, "primary") \in up) \in BOOLEAN
    OBVIOUS
  <2> QED
    BY <1>1, <1>2, <1>3, <2>1 DEF ProbeOf
<1> QED
  BY <1>1, <1>2, <1>3, OffTypes, VariantAssumption DEF L, PromoterOff, Transports

LEMMA ProgressInv ==
    ASSUME TileInv, MarkProgress, frame' \in {frame, FALSE}
    PROVE  TileInv'
<1>0. /\ mounted /\ held /\ attempt \in Routes /\ recovery \in Recoveries /\ promoter \in Promoters
      /\ quiet \in Nat /\ retry.left = Off /\ TileTypeOK /\ retry \in Retries /\ open = 1
      /\ recovery.step <= Len(Steps) /\ age \in 0..RetryInterval
  <2>1. held /\ TileTypeOK
    BY DEF MarkProgress, TileInv
  <2>2. mounted /\ recovery.step <= Len(Steps)
    BY <2>1, HeldFacts
  <2>3. retry.left = Off /\ open = 1
    BY <2>1, <2>2 DEF TileInv, NeverParked, OneConnection
  <2> QED
    BY <2>1, <2>2, <2>3, TypesOf
<1>1. /\ setup' = Off /\ stall' = Stall /\ phase' = "playing" /\ quiet' = 0
      /\ recovery' = RecordProgress(recovery) /\ promoter' = PromoterAfterProgress
      /\ UNCHANGED <<up, mounted, attempt, held, open, good, retry, age, restarts>>
  BY DEF MarkProgress, ResetStallTimer
<1>2. /\ recovery' \in Recoveries /\ recovery'.step <= Len(Steps) /\ recovery'.step \in Nat
  BY <1>0, <1>1, RecoveryTypes, RecoveryFields, StepsFacts
<1>3. /\ promoter' \in Promoters /\ (promoter'.pc = "off" <=> promoter'.left = Off)
  BY <1>0, <1>1, PromoterTypes DEF PromoterAfterProgress, TileInv, PromoterInv
<1>4. TileTypeOK'
  <2>1. /\ up' \subseteq Routes /\ attempt' \in Routes /\ phase' \in Phases
        /\ restarts' \in 0..MaxRestarts /\ setup' \in Off..Setup /\ stall' \in Off..Stall
        /\ open' \in Nat /\ age' \in 0..RetryInterval /\ quiet' \in Nat
        /\ retry' \in Retries
    BY <1>0, <1>1, TypesOf, Durations DEF Off, Phases
  <2>2. mounted' \in BOOLEAN /\ held' \in BOOLEAN /\ good' \in BOOLEAN /\ frame' \in BOOLEAN
    BY <1>0, <1>1, TypesOf
  <2> QED
    BY <1>2, <1>3, <2>1, <2>2, TypesNext
<1>5. OneConnection' /\ NeverParked' /\ PromoterInv' /\ StepInv'
  <2>1. Stall # Off
    BY Durations DEF Off
  <2>2. ~(recovery'.step > Len(Steps))
    BY <1>2, StepsFacts
  <2> QED
    BY <1>0, <1>1, <1>3, <2>1, <2>2 DEF OneConnection, NeverParked, PromoterInv, StepInv
<1>6. QuietInv' /\ AgeInv'
  BY <1>0, <1>1, Durations DEF QuietInv, AgeInv, Lesser
<1> QED
  BY <1>4, <1>5, <1>6 DEF TileInv

LEMMA SetPromoterInv ==
    ASSUME TileInv, NEW p \in Promoters, p.pc = "off" <=> p.left = Off,
           promoter.pc # "off", SetPromoter(p)
    PROVE  TileInv'
<1>0. /\ mounted /\ held /\ promoter' = p
      /\ UNCHANGED <<up, mounted, phase, attempt, held, open, good, frame, setup, stall,
                     retry, recovery, age, quiet, restarts>>
  BY DEF SetPromoter, TileInv, PromoterInv
<1>1. TileTypeOK'
  BY <1>0, TypesOf, TypesNext DEF TileInv
<1>2. OneConnection' /\ NeverParked' /\ PromoterInv' /\ StepInv' /\ QuietInv' /\ AgeInv'
  BY <1>0 DEF TileInv, OneConnection, NeverParked, PromoterInv, StepInv, QuietInv, AgeInv
<1> QED
  BY <1>1, <1>2 DEF TileInv

LEMMA ProbeInv ==
    ASSUME TileInv, ProbeStarts \/ ProbeFails \/ ProbeSucceeds
    PROVE  TileInv'
<1>0. promoter \in Promoters /\ promoter.transport \in Transports
  BY TypesOf DEF TileInv, Promoters
<1>1. CASE ProbeStarts
  BY <1>1, PromoterTypes, SetPromoterInv, VariantAssumption DEF ProbeStarts, Transports
<1>2. CASE ProbeFails
  <2>1. promoter.pc # "off"
    BY <1>2 DEF ProbeFails
  <2>2. \/ \E t \in Transports : SetPromoter(ProbeOf(t))
        \/ SetPromoter([PromoterOff EXCEPT !.pc = "waiting", !.left = ProbeInterval])
    BY <1>2 DEF ProbeFails
  <2> QED
    BY <2>1, <2>2, PromoterTypes, SetPromoterInv
<1>3. CASE ProbeSucceeds
  <2>1. promoter.pc # "off" /\ held
    BY <1>3 DEF ProbeSucceeds, TileInv, PromoterInv
  <2>2. CASE SetPromoter(PromoterOff)
    BY <2>1, <2>2, OffTypes, SetPromoterInv
  <2>3. CASE /\ BeginAttempt(Route(promoter.transport, "primary"), "recovering", NewRecovery)
             /\ UNCHANGED <<up, mounted, restarts>>
    <3>1. Route(promoter.transport, "primary") \in Routes /\ "recovering" \in Phases
      BY <1>0, FirstRoute DEF Streams, Phases
    <3>2. NewRecovery \in Recoveries /\ NewRecovery.step <= Len(Steps) /\ Remaining(NewRecovery) > 0
      BY NewRecoveryType, StepsFacts
    <3> QED
      BY <2>1, <2>3, <3>1, <3>2, HeldFacts, BeginInv, TypesOf DEF TileInv
  <2> QED
    BY <1>3, <2>2, <2>3 DEF ProbeSucceeds
<1> QED
  BY <1>1, <1>2, <1>3

LEMMA UnmountInv ==
    ASSUME TileInv, Unmount
    PROVE  TileInv'
<1>1. /\ mounted' = FALSE /\ Teardown /\ retry' = NoRetry
      /\ UNCHANGED <<up, phase, attempt, recovery, age, quiet, restarts>>
  BY DEF Unmount
<1>2. /\ held' = FALSE /\ open' = 0 /\ setup' = Off /\ stall' = Off /\ good' = FALSE
      /\ promoter' = PromoterOff
  BY <1>1 DEF Teardown, AfterClose, TileInv, OneConnection
<1>3. TileTypeOK'
  <2>1. /\ up' \subseteq Routes /\ attempt' \in Routes /\ phase' \in Phases
        /\ restarts' \in 0..MaxRestarts /\ setup' \in Off..Setup /\ stall' \in Off..Stall
        /\ open' \in Nat /\ age' \in 0..RetryInterval /\ quiet' \in Nat
        /\ retry' \in Retries /\ recovery' \in Recoveries /\ promoter' \in Promoters
    BY <1>1, <1>2, TypesOf, OffTypes, Durations DEF Off, TileInv
  <2>2. mounted' \in BOOLEAN /\ held' \in BOOLEAN /\ good' \in BOOLEAN
    BY <1>1, <1>2
  <2>3. frame' \in BOOLEAN
    BY <1>1, TypesOf, Zenon DEF Teardown, Leftovers, TileInv
  <2> QED
    BY <2>1, <2>2, <2>3, TypesNext
<1>4. OneConnection' /\ NeverParked' /\ PromoterInv' /\ StepInv' /\ QuietInv' /\ AgeInv'
  BY <1>1, <1>2, OffTypes
  DEF TileInv, OneConnection, NeverParked, PromoterInv, StepInv, QuietInv, AgeInv
<1> QED
  BY <1>3, <1>4 DEF TileInv

LEMMA InputsInv ==
    ASSUME TileInv, InputsChange
    PROVE  TileInv'
<1>1. /\ mounted /\ restarts' \in 0..MaxRestarts
      /\ BeginAttempt(First, "connecting", NewRecovery) /\ UNCHANGED <<up, mounted>>
  BY TypesOf, VariantAssumption DEF InputsChange, TileInv
<1>2. First \in Routes /\ "connecting" \in Phases
  BY FirstRoute DEF Phases
<1>3. NewRecovery \in Recoveries /\ NewRecovery.step <= Len(Steps) /\ Remaining(NewRecovery) > 0
  BY NewRecoveryType, StepsFacts
<1> QED
  BY <1>1, <1>2, <1>3, BeginInv DEF TileInv

LEMMA RoutesInv ==
    ASSUME TileInv, RoutesChange
    PROVE  TileInv'
<1>1. /\ up' \subseteq up \cup AllRoutes
      /\ UNCHANGED <<mounted, phase, attempt, held, open, frame, setup, stall, retry,
                     recovery, age, quiet, restarts>>
  BY DEF RoutesChange
<1>2. good' \in BOOLEAN
  <2>1. (attempt \in up') \in BOOLEAN
    OBVIOUS
  <2> QED
    BY <2>1, TypesOf, Zenon DEF RoutesChange, TileInv
<1>3. promoter' \in Promoters /\ promoter'.pc = promoter.pc /\ promoter'.left = promoter.left
  <2> DEFINE g == promoter.good /\ Route(promoter.transport, "primary") \in up'
  <2>1. promoter' = [promoter EXCEPT !.good = g]
    BY DEF RoutesChange
  <2>2. g \in BOOLEAN
    OBVIOUS
  <2>3. promoter \in Promoters
    BY TypesOf DEF TileInv
  <2> HIDE DEF g
  <2> QED
    BY <2>1, <2>2, <2>3 DEF Promoters
<1>4. TileTypeOK'
  <2>1. up' \subseteq Routes
    BY <1>1, TypesOf DEF TileInv, AllRoutes, Route, Routes, Streams
  <2> QED
    BY <1>1, <1>2, <1>3, <2>1, TypesOf, TypesNext DEF TileInv
<1>5. OneConnection' /\ NeverParked' /\ PromoterInv' /\ StepInv' /\ QuietInv' /\ AgeInv'
  BY <1>1, <1>3 DEF TileInv, OneConnection, NeverParked, PromoterInv, StepInv, QuietInv, AgeInv
<1> QED
  BY <1>4, <1>5 DEF TileInv

LEMMA LaterTimer ==
    ASSUME NEW n \in Nat, NEW t \in Off..n, t # 0
    PROVE  Later(t) \in Off..n /\ (Later(t) = Off <=> t = Off) /\ (t # Off => Later(t) = t - 1)
BY DEF Later, Off

LEMMA AgedInstant ==
    ASSUME NEW n \in Nat, NEW t \in Off..n
    PROVE  Aged(t, n) \in Off..n
BY DEF Aged, Lesser, Off

LEMMA TickInv ==
    ASSUME TileInv, Tick
    PROVE  TileInv'
<1>0. /\ TileTypeOK /\ mounted /\ promoter \in Promoters /\ retry \in Retries
      /\ recovery \in Recoveries /\ quiet \in Nat /\ age \in 0..RetryInterval
      /\ setup \in Off..Setup /\ stall \in Off..Stall
  BY TypesOf DEF Tick, TileInv
<1>1. /\ setup # 0 /\ stall # 0 /\ retry.left # 0 /\ promoter.left # 0
      /\ setup' = Later(setup) /\ stall' = Later(stall)
      /\ age' = Lesser(age + 1, RetryInterval) /\ quiet' = quiet + 1 /\ frame' = FALSE
      /\ UNCHANGED <<up, mounted, phase, attempt, held, open, good, restarts>>
  BY DEF Tick
<1>2. /\ setup' \in Off..Setup /\ (setup' = Off <=> setup = Off)
      /\ setup # Off => setup' = setup - 1
      /\ stall' \in Off..Stall /\ (stall' = Off <=> stall = Off)
      /\ stall # Off => stall' = stall - 1
  BY <1>0, <1>1, LaterTimer, Durations
<1>3. /\ retry' \in Retries /\ (retry'.left = Off <=> retry.left = Off)
      /\ retry.left # Off => retry'.left = retry.left - 1
      /\ retry'.phase = retry.phase
  <2>1. retry' = [retry EXCEPT !.left = Later(retry.left)]
    BY DEF Tick
  <2>2. retry.left \in Off..Episode
    BY <1>0 DEF Retries
  <2>3. /\ Later(retry.left) \in Off..Episode
        /\ Later(retry.left) = Off <=> retry.left = Off
        /\ retry.left # Off => Later(retry.left) = retry.left - 1
    BY <1>1, <2>2, LaterTimer, Durations
  <2>4. /\ retry' \in Retries /\ retry'.left = Later(retry.left)
        /\ retry'.phase = retry.phase
    BY <1>0, <2>1, <2>3 DEF Retries
  <2> QED
    BY <2>3, <2>4
<1>4. /\ promoter' \in Promoters /\ (promoter'.left = Off <=> promoter.left = Off)
      /\ promoter'.pc = promoter.pc
  <2> DEFINE L == Greater(ProbeInterval, ProbeTimeout)
  <2>1. promoter' = [promoter EXCEPT !.left = Later(promoter.left)]
    BY DEF Tick
  <2>2. promoter.left \in Off..L /\ L \in Nat
    BY <1>0, Durations DEF Promoters, Greater
  <2>3. /\ Later(promoter.left) \in Off..L
        /\ Later(promoter.left) = Off <=> promoter.left = Off
    BY <1>1, <2>2, LaterTimer
  <2> QED
    BY <1>0, <2>1, <2>3 DEF Promoters
<1>5. recovery' \in Recoveries /\ recovery'.step = recovery.step
  <2> DEFINE e == Aged(recovery.episode, Episode)
             s == Aged(recovery.stable, StableReset)
             g == Aged(recovery.gap, Stall + 1)
  <2>1. recovery' = [recovery EXCEPT !.episode = e, !.stable = s, !.gap = g]
    BY DEF Tick
  <2>2. e \in Off..Episode /\ s \in Off..StableReset /\ g \in Off..(Stall + 1)
    <3>1. /\ recovery.episode \in Off..Episode /\ recovery.stable \in Off..StableReset
          /\ recovery.gap \in Off..(Stall + 1)
          /\ Episode \in Nat /\ StableReset \in Nat /\ Stall + 1 \in Nat
      BY <1>0, RecoveryFields, Durations
    <3> QED
      BY <3>1, AgedInstant
  <2> HIDE DEF e, s, g
  <2> QED
    BY <1>0, <2>1, <2>2 DEF Recoveries
<1>6. age' \in 0..RetryInterval /\ quiet' \in Nat
  BY <1>0, <1>1, Durations DEF Lesser
<1>7. TileTypeOK'
  <2>1. /\ mounted' \in BOOLEAN /\ held' \in BOOLEAN /\ good' \in BOOLEAN /\ frame' \in BOOLEAN
    BY <1>0, <1>1, TypesOf
  <2>2. /\ up' \subseteq Routes /\ attempt' \in Routes /\ phase' \in Phases
        /\ open' \in Nat /\ restarts' \in 0..MaxRestarts
    BY <1>0, <1>1, TypesOf
  <2> QED
    BY <1>2, <1>3, <1>4, <1>5, <1>6, <2>1, <2>2, TypesNext
<1>8. OneConnection' /\ NeverParked' /\ PromoterInv' /\ StepInv'
  BY <1>0, <1>1, <1>2, <1>3, <1>4, <1>5
  DEF TileInv, OneConnection, NeverParked, PromoterInv, StepInv
<1>9. QuietInv'
  <2>1. setup' # Off => quiet' + setup' <= Setup
    BY <1>0, <1>1, <1>2, Durations DEF TileInv, QuietInv, Off
  <2>2. stall' # Off => quiet' + stall' <= Stall
    BY <1>0, <1>1, <1>2, Durations DEF TileInv, QuietInv, Off
  <2>3. ~held' => quiet' + retry'.left = quiet + retry.left /\ quiet + retry.left \in Int
    <3>1. ~held' => retry.left # Off
      BY <1>0, <1>1 DEF TileInv, NeverParked
    <3>2. retry.left \in Int
      BY <1>0, Durations DEF Retries, Off
    <3> QED
      BY <1>0, <1>1, <1>3, <3>1, <3>2
  <2> QED
    BY <1>0, <1>1, <1>3, <2>1, <2>2, <2>3 DEF TileInv, QuietInv
<1>10. AgeInv'
  BY <1>0, <1>1, Durations DEF TileInv, AgeInv, Lesser
<1> QED
  BY <1>7, <1>8, <1>9, <1>10 DEF TileInv

LEMMA TileStart == TileInit => TileInv
<1> SUFFICES ASSUME TileInit PROVE TileInv
  OBVIOUS
<1> USE DEF TileInit
<1>1. TileTypeOK
  <2>1. up \subseteq Routes /\ attempt \in Routes /\ phase \in Phases
    BY FirstRoute DEF AllRoutes, Route, Routes, Streams, Phases
  <2>2. /\ open \in Nat /\ restarts \in 0..MaxRestarts
        /\ setup \in Off..Setup /\ stall \in Off..Stall
        /\ age \in 0..RetryInterval /\ quiet \in Nat
    BY Durations, VariantAssumption DEF Off
  <2>3. retry \in Retries /\ recovery \in Recoveries /\ promoter \in Promoters
    BY OffTypes, NewRecoveryType
  <2> QED
    BY <2>1, <2>2, <2>3, TypesOf
<1>2. OneConnection /\ NeverParked /\ PromoterInv /\ StepInv
  BY OffTypes, NewRecoveryType, StepsFacts, Durations
  DEF OneConnection, NeverParked, PromoterInv, StepInv, Off
<1>3. QuietInv /\ AgeInv
  BY Durations DEF QuietInv, AgeInv, Lesser
<1> QED
  BY <1>1, <1>2, <1>3 DEF TileInv

LEMMA TileStep == TileInv /\ [TileNext]_tileVars => TileInv'
<1> SUFFICES ASSUME TileInv, [TileNext]_tileVars PROVE TileInv'
  OBVIOUS
<1>1. CASE UNCHANGED tileVars
  <2>1. TileTypeOK'
    BY <1>1 DEF tileVars, TileInv, TileTypeOK
  <2> QED
    BY <1>1, <2>1
    DEF tileVars, TileInv, OneConnection, NeverParked, PromoterInv, StepInv, QuietInv, AgeInv
<1>2. CASE ConnectionFails \/ SetupExpires \/ StallExpires
  BY <1>2, FailureInv
<1>3. CASE MediaProgresses \/ LateFrameIsReported
  BY <1>3, ProgressInv DEF MediaProgresses, LateFrameIsReported
<1> QED
  BY <1>1, <1>2, <1>3, RetryInv, ProbeInv, UnmountInv, InputsInv, RoutesInv, TickInv
  DEF TileNext, Timers

-----------------------------------------------------------------------------
(* What follows. *)

\* The inductive invariant of a live tile.
THEOREM TileInvariant == TileSpec => []TileInv
BY TileStart, TileStep, PTL DEF TileSpec

\* Whatever the order of failures, timers, late frames, probes and restarts: the
\* connections opened are those closed and the one that is held, and nothing is left
\* when the tile has gone.
THEOREM TileHoldsOneConnection == TileSpec => []OneConnection
<1>1. TileInv => OneConnection
  BY DEF TileInv
<1> QED
  BY <1>1, TileInvariant, PTL

\* A mounted tile is never parked and never silent for longer than the stall time
\* and one cooldown, for any durations in the order of DurationsAssumption.
THEOREM TileSilenceIsBounded == TileSpec => []SilenceIsBounded
<1>1. ASSUME TileInv, mounted
      PROVE  quiet <= Stall + Cooldown
  <2>1. /\ quiet \in Nat /\ setup \in Off..Setup /\ stall \in Off..Stall /\ retry \in Retries
    BY <1>1, TypesOf DEF TileInv
  <2>2. retry.left \in Off..Episode
    BY <2>1 DEF Retries
  <2>3. CASE held
    BY <1>1, <2>1, <2>3, HeldFacts, Durations
  <2>4. CASE ~held
    <3>1. retry.left \in Nat
      BY <1>1, <2>2, <2>4, Durations DEF TileInv, NeverParked, Off
    <3>2. quiet + retry.left <= Stall + Cooldown
      BY <1>1, <2>1, <2>4, <3>1, Durations DEF TileInv, QuietInv
    <3> QED
      BY <2>1, <3>1, <3>2, Durations
  <2> QED
    BY <2>3, <2>4
<1>2. TileInv => SilenceIsBounded
  BY <1>1 DEF SilenceIsBounded, TileInv
<1> QED
  BY <1>2, TileInvariant, PTL

-----------------------------------------------------------------------------
(* Recorded playback.                                                        *)

Times == 0..LastTime
CameraStates == [status : {"absent", "loading", "ready", "gap", "edge_wait", "error"}, id : Ids \cup {0},
                 file : Files, next : -1..LastTime, from : -1..LastTime]
Calls == [key : Cameras, id : Ids, at : Times, from : -1..LastTime,
          second : BOOLEAN, aborted : BOOLEAN, fresh : BOOLEAN]
Elements == [mounted : BOOLEAN, serves : Ids \cup {0}, ready : BOOLEAN, runs : BOOLEAN, pos : Times]

RecTyped ==
    /\ view \in {"live", "idle", "paused", "playing"} /\ preparing \in BOOLEAN
    /\ playhead \in Times /\ keys \subseteq Cameras /\ acts \in 0..MaxActs
    /\ cams \in [Cameras -> CameraStates]
    /\ calls \subseteq Calls /\ IsFiniteSet(calls)
    /\ current \in [Cameras -> Ids \cup {0}]
    /\ tiles \in [Cameras -> Elements]

\* No two calls have a number in common, and the one whose controller is kept has not returned.
CallsApart(cs, cur) ==
    /\ \A c, d \in cs : c.id = d.id => c = d
    /\ \A k \in Cameras : cur[k] # 0 => \E c \in cs : c.key = k /\ c.id = cur[k]

\* The number of a call under way is held by no video, and by no camera but the one that
\* waits for it.
NumbersApart(cs, cam, ts) ==
    \A c \in cs, k \in Cameras :
        /\ ts[k].serves # c.id
        /\ cam[k].id = c.id => k = c.key /\ cam[k].file = NoFile /\ cam[k].status \in {"loading", "error"}

\* A call that still counts is of a camera on the page, the newest, and awaited.
StillAwaited(cs, cam, cur, ks) ==
    \A c \in cs : ~Obsolete(c) => c.key \in ks /\ cur[c.key] = c.id /\ cam[c.key] = Loading(c.id)

\* What is not on the page holds no number.
OffPage(cam, ts, ks) == \A k \in Cameras \ ks : cam[k].id = 0 /\ ts[k].serves = 0

\* A video that serves what its camera shows has a file to play, as has a ready camera.
HasFile(cam, ts, k) ==
    /\ ts[k].serves # 0 /\ cam[k].id = ts[k].serves => cam[k].file # NoFile
    /\ cam[k].status = "ready" => cam[k].file # NoFile

Numbered(cs, cam, cur, ts, ks) ==
    /\ CallsApart(cs, cur) /\ NumbersApart(cs, cam, ts) /\ StillAwaited(cs, cam, cur, ks)
    /\ OffPage(cam, ts, ks) /\ \A k \in Cameras : HasFile(cam, ts, k)

RecInv == RecTyped /\ Numbered(calls, cams, current, tiles, keys) /\ VideosFollowWorkspace

-----------------------------------------------------------------------------
(* The least and the greatest of a set.                                      *)

LEMMA Smallest ==
    ASSUME NEW S \in SUBSET Nat, S # {}
    PROVE  \E x \in S : \A y \in S : x <= y
<1> DEFINE less == OpToRel(<, Nat)
<1>1. IsWellFoundedOn(less, Nat)
  BY NatLessThanWellFounded
<1>3. \A x, y \in Nat : x < y => <<x, y>> \in less
  BY DEF OpToRel
<1> HIDE DEF less
<1>2. PICK x \in S : \A y \in S : ~(<<y, x>> \in less)
  BY <1>1, WFMin
<1>4. \A y \in S : ~(y < x)
  BY <1>2, <1>3
<1> QED
  BY <1>4

LEMMA MinOf ==
    ASSUME NEW S \in SUBSET Nat, S # {}
    PROVE  Min(S) \in S /\ \A y \in S : Min(S) <= y
<1>1. \E x \in S : \A y \in S : x <= y
  BY Smallest
<1> QED
  BY <1>1 DEF Min

LEMMA MaxOf ==
    ASSUME NEW n \in Nat, NEW S \in SUBSET (0..n), S # {}
    PROVE  Max(S) \in S /\ \A y \in S : Max(S) >= y
<1> DEFINE mirror == {n - x : x \in S}
<1>1. mirror \in SUBSET Nat /\ mirror # {}
  <2>1. \A x \in S : n - x \in Nat
    OBVIOUS
  <2> QED
    BY <2>1
<1>2. PICK m \in mirror : \A y \in mirror : m <= y
  BY <1>1, Smallest
<1>3. PICK x \in S : m = n - x
  BY <1>2
<1>4. \A y \in S : x >= y
  <2> SUFFICES ASSUME NEW y \in S PROVE x >= y
    OBVIOUS
  <2>1. n - y \in mirror
    OBVIOUS
  <2>2. m <= n - y
    BY <1>2, <2>1
  <2> QED
    BY <1>3, <2>2
<1> QED
  BY <1>4 DEF Max

-----------------------------------------------------------------------------
(* Files, answers and the clock.                                             *)

LEMMA PlaybackBounds ==
    /\ IsFiniteSet(Cameras) /\ Cardinality(Cameras) \in Nat /\ LastTime \in Nat /\ MaxCalls \in Nat /\ MaxActs \in Nat
    /\ 2 * Cardinality(Cameras) + MaxCalls \in Nat /\ 0 \notin Ids /\ Ids \subseteq Nat
    /\ Times \subseteq -1..LastTime /\ Never \in -1..LastTime /\ Never \notin Times /\ LastTime \in Times /\ 0 \in Times
    /\ Times \subseteq Nat
<1>1. Cardinality(Cameras) \in Nat
  BY ArchiveAssumption, FS_CardinalityType
<1> QED
  BY <1>1, ArchiveAssumption DEF Ids, Times, Never

LEMMA FileFacts ==
    /\ NoFile \in Files
    /\ \A k \in Cameras : Archive[k] \subseteq Files /\ NoFile \notin Archive[k]
    /\ \A f \in Files : f # NoFile => f[1] \in Times /\ f[2] \in Times /\ f[1] < f[2]
<1>1. \A k \in Cameras : Archive[k] \subseteq {f \in Times \X Times : f[1] < f[2]}
  BY ArchiveAssumption DEF Times
<1>2. \A f \in Times \X Times : f # NoFile /\ f[1] \in Times /\ f[2] \in Times
  BY DEF NoFile
<1>3. \A f \in Files : f # NoFile => \E k \in Cameras : f \in Archive[k]
  BY DEF Files
<1>4. NoFile \in Files /\ \A k \in Cameras : Archive[k] \subseteq Files
  BY DEF Files
<1> QED
  BY <1>1, <1>2, <1>3, <1>4

\* What the server can say of a camera at a time.
LEMMA AnswersTyped ==
    ASSUME NEW k \in Cameras, NEW t \in Times, NEW answer \in Answers(k, t)
    PROVE  /\ answer.status \in {"loading", "gap", "edge_wait"} /\ answer.file \in Files
           /\ answer.next \in -1..LastTime
           /\ answer.status = "loading" => answer.file # NoFile
<1> DEFINE here == {f \in Archive[k] : Contains(f, t)}
           after == {f[1] : f \in {g \in Archive[k] : g[1] > t}}
<1>1. here \subseteq Files /\ NoFile \notin here /\ NoFile \in Files /\ Never \in -1..LastTime
  BY FileFacts, PlaybackBounds
<1>2. after \subseteq Times
  BY FileFacts
<1>3. after # {} => Min(after) \in -1..LastTime
  BY <1>2, MinOf, PlaybackBounds
<1>4. \/ \E f \in here : answer = [status |-> "loading", file |-> f, next |-> Never]
      \/ after # {} /\ answer = [status |-> "gap", file |-> NoFile, next |-> Min(after)]
      \/ \E s \in {"gap", "edge_wait"} : answer = [status |-> s, file |-> NoFile, next |-> Never]
  BY DEF Answers
<1> HIDE DEF here, after
<1> QED
  BY <1>1, <1>3, <1>4

LEMMA ResumeTyped ==
    ASSUME NEW t \in Times, NEW files \in SUBSET Files, NoFile \notin files
    PROVE  ResumeBoundaryClock(t, files) \in Times
<1> DEFINE starts == {f[1] : f \in {g \in files : g[1] > t /\ g[1] - t <= 1}}
<1>1. starts \subseteq Times
  BY FileFacts
<1>2. starts # {} => Min(starts) \in Times
  BY <1>1, MinOf, PlaybackBounds
<1>3. ResumeBoundaryClock(t, files) \in {t} \cup (IF starts = {} THEN {} ELSE {Min(starts)})
  BY DEF ResumeBoundaryClock
<1> HIDE DEF starts
<1> QED
  BY <1>2, <1>3

LEMMA CursorTyped ==
    ASSUME RecInv
    PROVE  Cursor \in Times
<1>0. /\ cams \in [Cameras -> CameraStates] /\ tiles \in [Cameras -> Elements] /\ playhead \in Times
      /\ \A k \in Cameras : Ready(k) => cams[k].file \in Files /\ cams[k].file # NoFile
  BY DEF RecInv, RecTyped, Numbered, HasFile, CameraStates, Ready
<1> DEFINE files == {cams[k].file : k \in Seen}
           at == {Min({cams[k].file[2], tiles[k].pos}) : k \in Presenting}
<1>1. files \in SUBSET Files /\ NoFile \notin files
  BY <1>0 DEF Seen
<1>2. \A k \in Presenting : Min({cams[k].file[2], tiles[k].pos}) \in Times
  <2> SUFFICES ASSUME NEW k \in Presenting PROVE Min({cams[k].file[2], tiles[k].pos}) \in Times
    OBVIOUS
  <2>1. cams[k].file[2] \in Times /\ tiles[k].pos \in Times
    BY <1>0, FileFacts DEF Presenting, Seen, Elements
  <2> DEFINE both == {cams[k].file[2], tiles[k].pos}
  <2>2. both \in SUBSET Nat /\ both # {} /\ both \subseteq Times
    BY <2>1, PlaybackBounds
  <2>3. Min(both) \in both
    BY <2>2, MinOf
  <2> QED
    BY <2>2, <2>3
<1>3. at \subseteq Times
  BY <1>2
<1> DEFINE all == {playhead} \cup at
<1>4. all \in SUBSET Times /\ all # {}
  BY <1>0, <1>3
<1>5. Max(all) \in Times
  BY <1>4, MaxOf, PlaybackBounds DEF Times
<1>6. ResumeBoundaryClock(Max(all), files) \in Times
  BY <1>1, <1>5, ResumeTyped
<1>7. Cursor \in {playhead, ResumeBoundaryClock(Max(all), files)}
  BY DEF Cursor
<1> QED
  BY <1>0, <1>6, <1>7

LEMMA GreaterTyped ==
    ASSUME NEW s \in Times, NEW t \in Times
    PROVE  Max({s, t}) \in Times
BY MaxOf, PlaybackBounds DEF Times

-----------------------------------------------------------------------------
(* Numbers of calls.                                                         *)

\* While there is room there are as many free numbers as cameras are asked for.
LEMMA EnoughNumbers ==
    ASSUME RecInv, NEW ks \in SUBSET Cameras, NEW page \in SUBSET Cameras, Room(ks, page)
    PROVE  IsFiniteSet(Ids \ Used) /\ Cardinality(Ids \ Used) >= Cardinality(ks)
<1>0. /\ keys \subseteq Cameras /\ calls \subseteq Calls /\ IsFiniteSet(calls)
      /\ cams \in [Cameras -> CameraStates] /\ tiles \in [Cameras -> Elements] /\ current \in [Cameras -> Ids \cup {0}]
      /\ OffPage(cams, tiles, keys) /\ CallsApart(calls, current)
  BY DEF RecInv, RecTyped, Numbered
<1> DEFINE shown == {cams[k].id : k \in keys}
           called == {c.id : c \in calls}
           served == {tiles[k].serves : k \in keys}
           taken == shown \cup called \cup served
<1>1. IsFiniteSet(keys) /\ Cardinality(keys) \in Nat /\ Cardinality(keys) <= Cardinality(Cameras)
      /\ Cardinality(calls) \in Nat
  BY <1>0, PlaybackBounds, FS_Subset, FS_CardinalityType
<1>2. IsFiniteSet(shown) /\ Cardinality(shown) <= Cardinality(keys)
  <2>1. [k \in keys |-> cams[k].id] \in Surjection(keys, shown)
    BY DEF Surjection
  <2> QED
    BY <2>1, <1>1, FS_Surjection
<1>3. IsFiniteSet(called) /\ Cardinality(called) <= Cardinality(calls)
  <2>1. [c \in calls |-> c.id] \in Surjection(calls, called)
    BY DEF Surjection
  <2> QED
    BY <2>1, <1>0, FS_Surjection
<1>4. IsFiniteSet(served) /\ Cardinality(served) <= Cardinality(keys)
  <2>1. [k \in keys |-> tiles[k].serves] \in Surjection(keys, served)
    BY DEF Surjection
  <2> QED
    BY <2>1, <1>1, FS_Surjection
<1>5. Ids \cap Used \subseteq taken
  <2>1. \A k \in Cameras : cams[k].id \in Ids => cams[k].id \in shown
    BY <1>0, PlaybackBounds DEF OffPage
  <2>2. \A k \in Cameras : tiles[k].serves \in Ids => tiles[k].serves \in served
    BY <1>0, PlaybackBounds DEF OffPage
  <2>3. \A k \in Cameras : current[k] \in Ids => current[k] \in called
    BY <1>0, PlaybackBounds DEF CallsApart
  <2> QED
    BY <2>1, <2>2, <2>3 DEF Used
<1> HIDE DEF shown, called, served
<1>6. /\ IsFiniteSet(taken) /\ Cardinality(taken) \in Nat
      /\ Cardinality(taken) <= 2 * Cardinality(keys) + Cardinality(calls)
  <2>1. /\ IsFiniteSet(shown \cup called) /\ Cardinality(shown) \in Nat /\ Cardinality(called) \in Nat
        /\ Cardinality(served) \in Nat /\ Cardinality(shown \cap called) \in Nat
        /\ Cardinality(shown \cup called) = Cardinality(shown) + Cardinality(called) - Cardinality(shown \cap called)
    BY <1>2, <1>3, <1>4, FS_Union, FS_CardinalityType, FS_Intersection
  <2>2. /\ IsFiniteSet(taken) /\ Cardinality((shown \cup called) \cap served) \in Nat
        /\ Cardinality(taken) =
              Cardinality(shown \cup called) + Cardinality(served) - Cardinality((shown \cup called) \cap served)
    BY <2>1, <1>4, FS_Union, FS_CardinalityType, FS_Intersection
  <2>3. Cardinality(taken) \in Nat
    BY <2>2, FS_CardinalityType
  <2> QED
    BY <1>1, <1>2, <1>3, <1>4, <2>1, <2>2, <2>3
<1> HIDE DEF taken
<1>7. IsFiniteSet(Ids) /\ Cardinality(Ids) = 2 * Cardinality(Cameras) + MaxCalls
  <2> DEFINE n == 2 * Cardinality(Cameras) + MaxCalls
  <2>1. n \in Nat
    BY PlaybackBounds
  <2> HIDE DEF n
  <2>2. IsFiniteSet(1..n) /\ Cardinality(1..n) = n
    BY <2>1, FS_Interval
  <2> QED
    BY <2>2 DEF Ids, n
<1>8. IsFiniteSet(Ids \cap Used) /\ Cardinality(Ids \cap Used) \in Nat /\ Cardinality(Ids \cap Used) <= Cardinality(taken)
  BY <1>5, <1>6, FS_Subset, FS_CardinalityType
<1>9. IsFiniteSet(Ids \ Used) /\ Cardinality(Ids \ Used) = Cardinality(Ids) - Cardinality(Ids \cap Used)
  BY <1>7, FS_Difference
<1>10. Cardinality(page) \in Nat /\ Cardinality(ks) \in Nat
  BY PlaybackBounds, FS_Subset, FS_CardinalityType
<1>11. Cardinality(calls) + Cardinality(ks) <= MaxCalls
  BY <1>1, <1>10, PlaybackBounds DEF Room
<1> QED
  BY <1>1, <1>6, <1>7, <1>8, <1>9, <1>10, <1>11, PlaybackBounds

LEMMA NewNumbers ==
    ASSUME RecInv, NEW ks \in SUBSET Cameras, NEW page \in SUBSET Cameras, Room(ks, page)
    PROVE  /\ NewIds(ks) \in [ks -> Ids \ Used]
           /\ \A a, b \in ks : a # b => NewIds(ks)[a] # NewIds(ks)[b]
<1> DEFINE free == Ids \ Used
<1>1. IsFiniteSet(free) /\ Cardinality(free) >= Cardinality(ks)
  BY EnoughNumbers
<1>2. IsFiniteSet(ks)
  BY PlaybackBounds, FS_Subset
<1> HIDE DEF free
<1> DEFINE m == Cardinality(ks)
           n == Cardinality(free)
<1>3. m \in Nat /\ n \in Nat /\ m <= n /\ ExistsBijection(1..m, ks) /\ ExistsBijection(1..n, free)
  BY <1>1, <1>2, PlaybackBounds, FS_CardinalityType
<1> HIDE DEF m, n
<1>4. ExistsInjection(1..m, 1..n)
  BY <1>3, Fun_NatInjLeq
<1>5. ExistsBijection(ks, 1..m)
  BY <1>3, Fun_ExistsBijSymmetric
<1>6. ExistsInjection(ks, 1..m) /\ ExistsInjection(1..n, free)
  BY <1>3, <1>5 DEF ExistsBijection, ExistsInjection, Bijection
<1>7. ExistsInjection(ks, free)
  BY <1>4, <1>6, Fun_ExistsInjTransitive
<1>8. PICK f \in [ks -> free] : \A a, b \in ks : a # b => f[a] # f[b]
  BY <1>7 DEF ExistsInjection, Injection, IsInjective
<1> QED
  BY <1>8 DEF NewIds, free

\* What became of the calls: some were aborted, none returned and none was made.
OnlyAborts(others) ==
    /\ others \subseteq Calls /\ IsFiniteSet(others)
    /\ \A d \in others : \E c \in calls : d.id = c.id /\ d.key = c.key /\ (~Obsolete(d) => d = c)
    /\ \A c \in calls : \E d \in others : d.id = c.id /\ d.key = c.key
    /\ \A c, d \in others : c.id = d.id => c = d

LEMMA MappedCalls ==
    ASSUME RecInv, NEW m \in [calls -> Calls],
           \A c \in calls : m[c].id = c.id /\ m[c].key = c.key /\ (~Obsolete(m[c]) => m[c] = c)
    PROVE  OnlyAborts({m[c] : c \in calls})
<1> DEFINE others == {m[c] : c \in calls}
<1>0. IsFiniteSet(calls) /\ \A c, d \in calls : c.id = d.id => c = d
  BY DEF RecInv, RecTyped, Numbered, CallsApart
<1>1. m \in Surjection(calls, others)
  BY DEF Surjection
<1>2. IsFiniteSet(others)
  BY <1>0, <1>1, FS_Surjection
<1> QED
  BY <1>0, <1>2 DEF OnlyAborts

LEMMA AbandonAborts ==
    ASSUME RecInv, NEW ks
    PROVE  /\ OnlyAborts(Abandon(ks))
           /\ \A d \in Abandon(ks) : ~Obsolete(d) => d \in calls /\ d.key \notin ks
<1> DEFINE m == [c \in calls |-> IF c.key \in ks /\ c.id = current[c.key] THEN [c EXCEPT !.aborted = TRUE] ELSE c]
<1>0. calls \subseteq Calls /\ StillAwaited(calls, cams, current, keys)
  BY DEF RecInv, RecTyped, Numbered
<1>1. \A c \in Calls : LET d == [c EXCEPT !.aborted = TRUE]
                       IN d \in Calls /\ d.id = c.id /\ d.key = c.key /\ Obsolete(d)
  BY DEF Calls, Obsolete
<1>2. \A c \in calls : m[c] \in Calls /\ m[c].id = c.id /\ m[c].key = c.key /\ (~Obsolete(m[c]) => m[c] = c)
  BY <1>0, <1>1
<1>3. m \in [calls -> Calls]
  BY <1>2
<1>4. Abandon(ks) = {m[c] : c \in calls}
  BY DEF Abandon
<1>5. \A c \in calls : ~Obsolete(m[c]) => m[c] = c /\ c.key \notin ks
  BY <1>0, <1>1, <1>2 DEF StillAwaited
<1> HIDE DEF m
<1>6. OnlyAborts(Abandon(ks))
  BY <1>2, <1>3, <1>4, MappedCalls
<1> QED
  BY <1>4, <1>5, <1>6

LEMMA AllAborted ==
    ASSUME RecInv, NEW f \in [calls -> BOOLEAN]
    PROVE  LET others == {[c EXCEPT !.aborted = f[c], !.fresh = FALSE] : c \in calls}
           IN OnlyAborts(others) /\ \A d \in others : Obsolete(d)
<1> DEFINE m == [c \in calls |-> [c EXCEPT !.aborted = f[c], !.fresh = FALSE]]
           others == {[c EXCEPT !.aborted = f[c], !.fresh = FALSE] : c \in calls}
<1>0. calls \subseteq Calls
  BY DEF RecInv, RecTyped
<1>1. \A c \in Calls, b \in BOOLEAN : LET d == [c EXCEPT !.aborted = b, !.fresh = FALSE]
                                      IN d \in Calls /\ d.id = c.id /\ d.key = c.key /\ Obsolete(d)
  BY DEF Calls, Obsolete
<1>2. \A c \in calls : m[c] \in Calls /\ m[c].id = c.id /\ m[c].key = c.key /\ Obsolete(m[c])
  BY <1>0, <1>1
<1>3. m \in [calls -> Calls]
  BY <1>2
<1>4. others = {m[c] : c \in calls}
  OBVIOUS
<1> HIDE DEF m, others
<1>5. OnlyAborts(others)
  BY <1>2, <1>3, <1>4, MappedCalls
<1>6. \A d \in others : Obsolete(d)
  BY <1>2, <1>4
<1> QED
  BY <1>5, <1>6 DEF others

LEMMA LoadingTyped ==
    /\ Absent \in CameraStates /\ Absent.id = 0 /\ Absent.status = "absent"
    /\ \A i \in Ids : Loading(i) \in CameraStates /\ Loading(i).id = i /\ Loading(i).file = NoFile
                      /\ Loading(i).status = "loading"
<1>1. Absent \in CameraStates /\ Absent.id = 0 /\ Absent.status = "absent"
  BY FileFacts, PlaybackBounds DEF Absent, CameraStates
<1> QED
  BY <1>1 DEF Loading, Absent, CameraStates

\* What resolveCamera finds when it is called for the cameras of ks, on a page that shows the
\* cameras of shown: what it leaves alone is as it was or gone.
Resolvable(shown, ks, before, ts, others) ==
    /\ shown \in SUBSET Cameras /\ ks \in SUBSET shown /\ OnlyAborts(others)
    /\ before \in [Cameras -> CameraStates] /\ ts \in [Cameras -> Elements]
    /\ \A k \in Cameras : before[k] \in {cams[k], Absent} /\ ts[k].serves \in {tiles[k].serves, 0}
    /\ \A k \in Cameras \ shown : before[k].id = 0 /\ ts[k].serves = 0
    /\ \A d \in others : ~Obsolete(d) => d.key \in shown \ ks /\ before[d.key] = cams[d.key]

\* resolveCamera keeps the numbers apart, whatever cameras it is called for.
LEMMA ResolveKeeps ==
    ASSUME RecInv,
           NEW t \in Times, NEW from \in [Cameras -> -1..LastTime],
           NEW shown, NEW ks, NEW before, NEW ts, NEW others, Resolvable(shown, ks, before, ts, others),
           Room(ks, shown), ResolveCameras(ks, t, from, before, others)
    PROVE  /\ cams' \in [Cameras -> CameraStates] /\ calls' \subseteq Calls /\ IsFiniteSet(calls')
           /\ current' \in [Cameras -> Ids \cup {0}]
           /\ Numbered(calls', cams', current', ts, shown)
           /\ \A k \in ks : cams'[k].status = "loading"
           /\ \A k \in Cameras \ ks : cams'[k] = before[k]
<1> DEFINE id == NewIds(ks)
           New(k) == [key |-> k, id |-> id[k], at |-> t, from |-> from[k],
                      second |-> FALSE, aborted |-> FALSE, fresh |-> TRUE]
           new == {New(k) : k \in ks}
<1>a. /\ shown \in SUBSET Cameras /\ ks \in SUBSET shown /\ OnlyAborts(others)
      /\ before \in [Cameras -> CameraStates] /\ ts \in [Cameras -> Elements]
      /\ \A k \in Cameras : before[k] \in {cams[k], Absent} /\ ts[k].serves \in {tiles[k].serves, 0}
      /\ \A k \in Cameras \ shown : before[k].id = 0 /\ ts[k].serves = 0
      /\ \A d \in others : ~Obsolete(d) => d.key \in shown \ ks /\ before[d.key] = cams[d.key]
  BY DEF Resolvable
<1> USE <1>a
<1>0. /\ cams \in [Cameras -> CameraStates] /\ calls \subseteq Calls /\ current \in [Cameras -> Ids \cup {0}]
      /\ tiles \in [Cameras -> Elements]
      /\ CallsApart(calls, current) /\ NumbersApart(calls, cams, tiles) /\ StillAwaited(calls, cams, current, keys)
      /\ \A k \in Cameras : HasFile(cams, tiles, k)
  BY DEF RecInv, RecTyped, Numbered
<1>1. /\ id \in [ks -> Ids \ Used] /\ \A a, b \in ks : a # b => id[a] # id[b]
  BY NewNumbers
<1> HIDE DEF id
<1>2. /\ cams' = [k \in Cameras |-> IF k \in ks THEN Loading(id[k]) ELSE before[k]]
      /\ calls' = others \cup new
      /\ current' = [k \in Cameras |-> IF k \in ks THEN id[k] ELSE current[k]]
  BY DEF ResolveCameras, id
<1>3. \A k \in ks : /\ id[k] \in Ids /\ id[k] # 0
                    /\ \A c \in calls : c.id # id[k]
                    /\ \A l \in Cameras : cams[l].id # id[k] /\ tiles[l].serves # id[k]
  BY <1>1, PlaybackBounds DEF Used
<1>4. \A k \in ks : New(k) \in Calls /\ New(k).id = id[k] /\ New(k).key = k /\ ~Obsolete(New(k))
  BY <1>3 DEF Calls, Obsolete
<1>5. new \subseteq Calls /\ IsFiniteSet(new)
  <2>1. [k \in ks |-> New(k)] \in Surjection(ks, new)
    BY DEF Surjection
  <2>2. IsFiniteSet(ks)
    BY PlaybackBounds, FS_Subset
  <2>3. IsFiniteSet(new)
    BY <2>1, <2>2, FS_Surjection
  <2> QED
    BY <1>4, <2>3
<1>6. \A d \in new : \E k \in ks : d = New(k)
  OBVIOUS
<1>7. \A k \in ks : \E d \in new : d.key = k /\ d.id = id[k]
  BY <1>4
<1> HIDE DEF New, new
<1>8. calls' \subseteq Calls /\ IsFiniteSet(calls')
  BY <1>2, <1>5, FS_Union DEF OnlyAborts
<1>9. /\ cams' \in [Cameras -> CameraStates]
      /\ \A k \in ks : cams'[k] = Loading(id[k]) /\ cams'[k].id = id[k] /\ cams'[k].file = NoFile
                       /\ cams'[k].status = "loading"
      /\ \A k \in Cameras \ ks : cams'[k] = before[k]
  BY <1>2, <1>3, LoadingTyped
<1>10. current' \in [Cameras -> Ids \cup {0}]
  BY <1>0, <1>2, <1>3
<1>11. \A d \in others : \E c \in calls : d.id = c.id /\ d.key = c.key /\ (~Obsolete(d) => d = c)
  BY DEF OnlyAborts
<1>12. CallsApart(calls', current')
  <2>1. \A c, d \in calls' : c.id = d.id => c = d
    <3> SUFFICES ASSUME NEW c \in calls', NEW d \in calls', c.id = d.id PROVE c = d
      OBVIOUS
    <3>1. CASE c \in others /\ d \in others
      BY <3>1 DEF OnlyAborts
    <3>2. CASE c \in new /\ d \in new
      BY <3>2, <1>1, <1>4, <1>6
    <3>3. CASE (c \in new /\ d \in others) \/ (c \in others /\ d \in new)
      BY <3>3, <1>3, <1>4, <1>6, <1>11
    <3> QED
      BY <3>1, <3>2, <3>3, <1>2
  <2>2. ASSUME NEW k \in Cameras, current'[k] # 0
        PROVE  \E c \in calls' : c.key = k /\ c.id = current'[k]
    <3>1. CASE k \in ks
      BY <3>1, <1>2, <1>7
    <3>2. CASE k \notin ks
      <4>1. \E c \in calls : c.key = k /\ c.id = current[k]
        BY <2>2, <3>2, <1>0, <1>2 DEF CallsApart
      <4>2. \E d \in others : d.key = k /\ d.id = current[k]
        BY <4>1 DEF OnlyAborts
      <4> QED
        BY <4>2, <3>2, <1>2
    <3> QED
      BY <3>1, <3>2
  <2> QED
    BY <2>1, <2>2 DEF CallsApart
<1>13. NumbersApart(calls', cams', ts)
  <2> SUFFICES ASSUME NEW c \in calls', NEW k \in Cameras
               PROVE  /\ ts[k].serves # c.id
                      /\ cams'[k].id = c.id => k = c.key /\ cams'[k].file = NoFile /\ cams'[k].status \in {"loading", "error"}
    BY DEF NumbersApart
  <2>1. CASE c \in others
    <3>1. PICK o \in calls : c.id = o.id /\ c.key = o.key
      BY <2>1, <1>11
    <3>2. o.id # 0 /\ o.id \in Ids
      BY <1>0, PlaybackBounds DEF Calls
    <3>3. ts[k].serves # c.id
      BY <3>1, <3>2, <1>0 DEF NumbersApart
    <3>4. CASE k \in ks
      BY <3>1, <3>3, <3>4, <1>3, <1>9
    <3>5. CASE k \notin ks
      BY <3>1, <3>2, <3>3, <3>5, <1>0, <1>9, LoadingTyped DEF NumbersApart
    <3> QED
      BY <3>4, <3>5
  <2>2. CASE c \in new
    <3>1. PICK l \in ks : c.id = id[l] /\ c.key = l
      BY <2>2, <1>4, <1>6
    <3>2. ts[k].serves # c.id
      BY <3>1, <1>3
    <3>3. k \notin ks => cams'[k].id # c.id
      BY <3>1, <1>3, <1>9, LoadingTyped
    <3> QED
      BY <3>1, <3>2, <3>3, <1>1, <1>9
  <2> QED
    BY <2>1, <2>2, <1>2
<1>14. StillAwaited(calls', cams', current', shown)
  <2> SUFFICES ASSUME NEW c \in calls', ~Obsolete(c)
               PROVE  c.key \in shown /\ current'[c.key] = c.id /\ cams'[c.key] = Loading(c.id)
    BY DEF StillAwaited
  <2>1. CASE c \in others
    <3>1. c \in calls /\ c.key \in shown \ ks /\ before[c.key] = cams[c.key]
      BY <2>1, <1>11
    <3>2. current[c.key] = c.id /\ cams[c.key] = Loading(c.id)
      BY <3>1, <1>0 DEF StillAwaited
    <3> QED
      BY <3>1, <3>2, <1>2, <1>9
  <2>2. CASE c \in new
    BY <2>2, <1>2, <1>4, <1>6, <1>9
  <2> QED
    BY <2>1, <2>2, <1>2
<1>15. OffPage(cams', ts, shown)
  BY <1>9 DEF OffPage
<1>16. ASSUME NEW k \in Cameras
       PROVE  HasFile(cams', ts, k)
  <2>1. CASE k \in ks
    <3>1. cams'[k].id # ts[k].serves \/ ts[k].serves = 0
      BY <2>1, <1>3, <1>9
    <3> QED
      BY <2>1, <3>1, <1>9 DEF HasFile
  <2>2. CASE k \notin ks
    BY <2>2, <1>0, <1>9, LoadingTyped DEF HasFile
  <2> QED
    BY <2>1, <2>2
<1> QED
  BY <1>8, <1>9, <1>10, <1>12, <1>13, <1>14, <1>15, <1>16 DEF Numbered

\* Calls that are abandoned, cameras that are taken off the page.
LEMMA AbortsKeep ==
    ASSUME RecInv, NEW shown \in SUBSET Cameras,
           NEW before \in [Cameras -> CameraStates], NEW ts \in [Cameras -> Elements],
           NEW cur \in [Cameras -> Ids \cup {0}], NEW others, OnlyAborts(others),
           \A k \in Cameras : /\ before[k] \in {cams[k], Absent} /\ ts[k].serves \in {tiles[k].serves, 0}
                              /\ cur[k] \in {current[k], 0},
           \A k \in Cameras \ shown : before[k].id = 0 /\ ts[k].serves = 0,
           \A d \in others : ~Obsolete(d) =>
               d.key \in shown /\ before[d.key] = cams[d.key] /\ cur[d.key] = current[d.key]
    PROVE  Numbered(others, before, cur, ts, shown)
<1>0. /\ calls \subseteq Calls
      /\ CallsApart(calls, current) /\ NumbersApart(calls, cams, tiles) /\ StillAwaited(calls, cams, current, keys)
      /\ \A k \in Cameras : HasFile(cams, tiles, k)
  BY DEF RecInv, RecTyped, Numbered
<1>1. \A d \in others : \E c \in calls : d.id = c.id /\ d.key = c.key /\ (~Obsolete(d) => d = c)
  BY DEF OnlyAborts
<1>2. CallsApart(others, cur)
  <2>1. \A k \in Cameras : cur[k] # 0 => \E d \in others : d.key = k /\ d.id = cur[k]
    BY <1>0 DEF CallsApart, OnlyAborts
  <2> QED
    BY <2>1 DEF CallsApart, OnlyAborts
<1>3. NumbersApart(others, before, ts)
  <2> SUFFICES ASSUME NEW d \in others, NEW k \in Cameras
               PROVE  /\ ts[k].serves # d.id
                      /\ before[k].id = d.id => k = d.key /\ before[k].file = NoFile
                                                /\ before[k].status \in {"loading", "error"}
    BY DEF NumbersApart
  <2>1. PICK c \in calls : d.id = c.id /\ d.key = c.key
    BY <1>1
  <2>2. c.id # 0
    BY <1>0, PlaybackBounds DEF Calls
  <2> QED
    BY <2>1, <2>2, <1>0, LoadingTyped DEF NumbersApart
<1>4. StillAwaited(others, before, cur, shown)
  BY <1>0, <1>1 DEF StillAwaited
<1>5. OffPage(before, ts, shown)
  BY DEF OffPage
<1>6. \A k \in Cameras : HasFile(before, ts, k)
  BY <1>0, LoadingTyped DEF HasFile
<1> QED
  BY <1>2, <1>3, <1>4, <1>5, <1>6 DEF Numbered

\* Events of the videos: a camera with a file changes its state, a video takes the file up.
LEMMA ElementsKeep ==
    ASSUME RecInv, NEW cam \in [Cameras -> CameraStates], NEW ts \in [Cameras -> Elements],
           \A k \in Cameras :
              /\ \/ cam[k] = cams[k]
                 \/ cam[k].id = cams[k].id /\ cam[k].file = cams[k].file /\ cam[k].file # NoFile
              /\ \/ ts[k].serves \in {tiles[k].serves, 0}
                 \/ ts[k].serves = cams[k].id /\ cams[k].file # NoFile
    PROVE  Numbered(calls, cam, current, ts, keys)
<1>0. /\ CallsApart(calls, current) /\ NumbersApart(calls, cams, tiles) /\ StillAwaited(calls, cams, current, keys)
      /\ OffPage(cams, tiles, keys) /\ calls \subseteq Calls
      /\ \A k \in Cameras : HasFile(cams, tiles, k)
  BY DEF RecInv, RecTyped, Numbered
<1>1. \A c \in calls : c.key \in Cameras /\ c.id # 0 /\ c.id \in Ids
  BY <1>0, PlaybackBounds DEF Calls
<1>2. NumbersApart(calls, cam, ts)
  <2> SUFFICES ASSUME NEW c \in calls, NEW k \in Cameras
               PROVE  /\ ts[k].serves # c.id
                      /\ cam[k].id = c.id => k = c.key /\ cam[k].file = NoFile /\ cam[k].status \in {"loading", "error"}
    BY DEF NumbersApart
  <2> QED
    BY <1>0, <1>1 DEF NumbersApart
<1>3. StillAwaited(calls, cam, current, keys)
  <2> SUFFICES ASSUME NEW c \in calls, ~Obsolete(c)
               PROVE  c.key \in keys /\ current[c.key] = c.id /\ cam[c.key] = Loading(c.id)
    BY DEF StillAwaited
  <2>1. c.key \in keys /\ current[c.key] = c.id /\ cams[c.key] = Loading(c.id)
    BY <1>0 DEF StillAwaited
  <2>2. cams[c.key].file = NoFile
    BY <2>1, <1>1, LoadingTyped
  <2> QED
    BY <2>1, <2>2, <1>1
<1>4. OffPage(cam, ts, keys)
  BY <1>0 DEF OffPage
<1>5. \A k \in Cameras : HasFile(cam, ts, k)
  BY <1>0 DEF HasFile
<1> QED
  BY <1>0, <1>2, <1>3, <1>4, <1>5 DEF Numbered

LEMMA PausedTyped ==
    ASSUME RecInv, NEW ks
    PROVE  /\ Paused(ks) \in [Cameras -> Elements]
           /\ \A k \in Cameras : /\ Paused(ks)[k].serves = tiles[k].serves
                                 /\ Paused(ks)[k].mounted = tiles[k].mounted
                                 /\ Paused(ks)[k].ready = tiles[k].ready
                                 /\ Paused(ks)[k].runs => tiles[k].runs /\ k \notin ks
BY DEF RecInv, RecTyped, Paused, Elements

LEMMA UnmountedTyped ==
    Unmounted0 \in Elements /\ Unmounted0.serves = 0 /\ ~Unmounted0.mounted /\ ~Unmounted0.runs
BY PlaybackBounds DEF Unmounted0, Elements

LEMMA FromStartTyped == FromStart \in [Cameras -> -1..LastTime]
BY PlaybackBounds DEF FromStart

-----------------------------------------------------------------------------
(* The answers.                                                              *)

\* One call less.
LEMMA OneCallLess ==
    ASSUME RecInv, NEW c \in calls, Returned(c)
    PROVE  /\ calls \ {c} \subseteq Calls /\ IsFiniteSet(calls \ {c})
           /\ current' \in [Cameras -> Ids \cup {0}]
           /\ CallsApart(calls \ {c}, current')
           /\ \A d \in calls \ {c} : d.id # c.id /\ (~Obsolete(d) => current'[d.key] = current[d.key])
<1>0. /\ calls \subseteq Calls /\ IsFiniteSet(calls) /\ current \in [Cameras -> Ids \cup {0}]
      /\ CallsApart(calls, current) /\ StillAwaited(calls, cams, current, keys) /\ c.key \in Cameras
  BY DEF RecInv, RecTyped, Numbered, Calls
<1>1. current' \in [Cameras -> Ids \cup {0}]
      /\ \A k \in Cameras : current'[k] = IF k = c.key /\ current[k] = c.id THEN 0 ELSE current[k]
  BY <1>0 DEF Returned
<1>2. \A d \in calls \ {c} : d.id # c.id
  BY <1>0 DEF CallsApart
<1>3. \A d \in calls \ {c} : ~Obsolete(d) => current'[d.key] = current[d.key]
  BY <1>0, <1>1, <1>2 DEF StillAwaited, Calls
<1>4. IsFiniteSet(calls \ {c})
  BY <1>0, FS_RemoveElement
<1>5. CallsApart(calls \ {c}, current')
  <2> SUFFICES ASSUME NEW k \in Cameras, current'[k] # 0
               PROVE  \E d \in calls \ {c} : d.key = k /\ d.id = current'[k]
    BY <1>0 DEF CallsApart
  <2>1. current'[k] = current[k]
    BY <1>1
  <2>2. PICK d \in calls : d.key = k /\ d.id = current[k]
    BY <1>0, <2>1 DEF CallsApart
  <2>3. CASE d # c
    BY <2>1, <2>2, <2>3
  <2>4. CASE d = c
    BY <2>1, <2>2, <2>4, <1>1
  <2> QED
    BY <2>3, <2>4
<1> QED
  BY <1>0, <1>1, <1>2, <1>3, <1>4, <1>5

LEMMA RecParts ==
    ASSUME RecInv
    PROVE  /\ view \in {"live", "idle", "paused", "playing"} /\ preparing \in BOOLEAN
           /\ playhead \in Times /\ keys \subseteq Cameras /\ acts \in 0..MaxActs
           /\ cams \in [Cameras -> CameraStates] /\ calls \subseteq Calls /\ IsFiniteSet(calls)
           /\ current \in [Cameras -> Ids \cup {0}] /\ tiles \in [Cameras -> Elements]
           /\ CallsApart(calls, current) /\ NumbersApart(calls, cams, tiles)
           /\ StillAwaited(calls, cams, current, keys) /\ OffPage(cams, tiles, keys)
           /\ \A k \in Cameras : HasFile(cams, tiles, k)
           /\ VideosFollowWorkspace
           /\ \A c \in calls : c.key \in Cameras /\ c.id \in Ids /\ c.id # 0
<1>1. \A c \in calls : c.key \in Cameras /\ c.id \in Ids /\ c.id # 0
  BY PlaybackBounds DEF RecInv, RecTyped, Calls
<1> QED
  BY <1>1 DEF RecInv, RecTyped, Numbered

ElseSame == UNCHANGED <<view, preparing, playhead, keys, tiles, acts>>

LEMMA CallSettles ==
    ASSUME RecInv, NEW c \in calls, calls' = calls \ {c}, Returned(c), cams' = cams, ElseSame
    PROVE  RecInv'
<1>1. /\ calls' \subseteq Calls /\ IsFiniteSet(calls') /\ current' \in [Cameras -> Ids \cup {0}]
      /\ CallsApart(calls', current')
      /\ \A d \in calls' : ~Obsolete(d) => current'[d.key] = current[d.key]
  BY OneCallLess
<1>2. StillAwaited(calls', cams', current', keys')
  BY <1>1, RecParts DEF StillAwaited, ElseSame
<1>3. NumbersApart(calls', cams', tiles') /\ OffPage(cams', tiles', keys') /\ \A k \in Cameras : HasFile(cams', tiles', k)
  BY RecParts DEF NumbersApart, OffPage, HasFile, ElseSame
<1>4. VideosFollowWorkspace'
  BY RecParts DEF VideosFollowWorkspace, Ready, Serves, ElseSame
<1>5. RecTyped'
  BY <1>1, RecParts DEF RecTyped, ElseSame
<1> QED
  BY <1>1, <1>2, <1>3, <1>4, <1>5 DEF RecInv, Numbered

LEMMA CallWrites ==
    ASSUME RecInv, NEW c \in calls, calls' = calls \ {c}, Returned(c), ~Obsolete(c), ElseSame,
           NEW cam \in CameraStates, cam.id = c.id, cam.status # "ready",
           cams' = [cams EXCEPT ![c.key] = cam]
    PROVE  RecInv'
<1>0. c.key \in keys /\ current[c.key] = c.id /\ c.key \in Cameras /\ c.id # 0
  BY RecParts DEF StillAwaited
<1>1. /\ calls' \subseteq Calls /\ IsFiniteSet(calls') /\ current' \in [Cameras -> Ids \cup {0}]
      /\ CallsApart(calls', current')
      /\ \A d \in calls' : d.id # c.id /\ (~Obsolete(d) => current'[d.key] = current[d.key])
  BY OneCallLess
<1>2. /\ cams' \in [Cameras -> CameraStates] /\ cams'[c.key] = cam
      /\ \A k \in Cameras \ {c.key} : cams'[k] = cams[k]
  BY RecParts
<1>3. StillAwaited(calls', cams', current', keys')
  <2> SUFFICES ASSUME NEW d \in calls', ~Obsolete(d)
               PROVE  d.key \in keys' /\ current'[d.key] = d.id /\ cams'[d.key] = Loading(d.id)
    BY DEF StillAwaited
  <2>1. d.key \in keys /\ current[d.key] = d.id /\ cams[d.key] = Loading(d.id) /\ d.key \in Cameras
    BY RecParts DEF StillAwaited
  <2>2. d.key # c.key
    BY <2>1, <1>0, <1>1
  <2> QED
    BY <2>1, <2>2, <1>1, <1>2 DEF ElseSame
<1>4. NumbersApart(calls', cams', tiles')
  BY <1>1, <1>2, RecParts DEF NumbersApart, ElseSame
<1>5. OffPage(cams', tiles', keys')
  BY <1>0, <1>2, RecParts DEF OffPage, ElseSame
<1>6. \A k \in Cameras : HasFile(cams', tiles', k)
  <2>1. tiles[c.key].serves # c.id
    BY <1>0, RecParts DEF NumbersApart
  <2> QED
    BY <2>1, <1>2, RecParts DEF HasFile, ElseSame
<1>7. VideosFollowWorkspace'
  BY <1>2, RecParts DEF VideosFollowWorkspace, Ready, Serves, ElseSame
<1>8. RecTyped'
  BY <1>1, <1>2, RecParts DEF RecTyped, ElseSame
<1> QED
  BY <1>1, <1>3, <1>4, <1>5, <1>6, <1>7, <1>8 DEF RecInv, Numbered

\* A call goes on under the same number.
LEMMA CallGoesOn ==
    ASSUME RecInv, NEW c \in calls, NEW n \in Calls, n.id = c.id, n.key = c.key, ~Obsolete(n) => ~Obsolete(c),
           calls' = (calls \ {c}) \cup {n}
    PROVE  /\ calls' \subseteq Calls /\ IsFiniteSet(calls') /\ CallsApart(calls', current)
           /\ NumbersApart(calls', cams, tiles) /\ StillAwaited(calls', cams, current, keys)
<1>1. IsFiniteSet(calls')
  BY RecParts, FS_RemoveElement, FS_AddElement
<1>2. CallsApart(calls', current)
  <2>1. \A a, b \in calls' : a.id = b.id => a = b
    BY RecParts DEF CallsApart
  <2>2. ASSUME NEW k \in Cameras, current[k] # 0 PROVE \E d \in calls' : d.key = k /\ d.id = current[k]
    <3>1. PICK d \in calls : d.key = k /\ d.id = current[k]
      BY <2>2, RecParts DEF CallsApart
    <3> QED
      BY <3>1
  <2> QED
    BY <2>1, <2>2 DEF CallsApart
<1>3. NumbersApart(calls', cams, tiles)
  BY RecParts DEF NumbersApart
<1>4. StillAwaited(calls', cams, current, keys)
  BY RecParts DEF StillAwaited
<1> QED
  BY <1>1, <1>2, <1>3, <1>4, RecParts

LEMMA FailedTyped ==
    ASSUME NEW i \in Ids
    PROVE  LET failed == [Loading(i) EXCEPT !.status = "error"]
           IN failed \in CameraStates /\ failed.id = i /\ failed.status = "error" /\ failed.file = NoFile
BY FileFacts, PlaybackBounds DEF Loading, Absent, CameraStates

LEMMA CallAnsweredKeeps ==
    ASSUME RecInv, NEW c \in calls, CallAnswered(c)
    PROVE  RecInv'
<1>0. ElseSame
  BY DEF CallAnswered, ElseSame
<1>1. CASE Obsolete(c) \/ c.key \notin keys
  <2>1. (Obsolete(c) \/ c.key \notin keys) /\ calls' = calls \ {c} /\ Returned(c) /\ UNCHANGED cams
    BY <1>1 DEF CallAnswered
  <2> QED
    BY <2>1, <1>0, CallSettles
<1>2. CASE ~Obsolete(c) /\ c.key \in keys
  <2>1. PICK answer \in Answers(c.key, c.at) :
              IF Continues(answer, c.from) /\ ~c.second
              THEN /\ calls' = (calls \ {c}) \cup {[c EXCEPT !.at = answer.next, !.second = TRUE]}
                   /\ UNCHANGED <<cams, current>>
              ELSE /\ cams' = [cams EXCEPT ![c.key] =
                                  [status |-> answer.status, id |-> c.id, file |-> answer.file,
                                   next |-> answer.next, from |-> c.from]]
                   /\ calls' = calls \ {c} /\ Returned(c)
    BY <1>2 DEF CallAnswered
  <2>2. c \in Calls /\ c.key \in Cameras /\ c.at \in Times /\ c.from \in -1..LastTime
    BY RecParts DEF Calls
  <2>3. /\ answer.status \in {"loading", "gap", "edge_wait"} /\ answer.file \in Files
        /\ answer.next \in -1..LastTime
    BY <2>2, AnswersTyped
  <2>4. CASE Continues(answer, c.from) /\ ~c.second
    <3> DEFINE n == [c EXCEPT !.at = answer.next, !.second = TRUE]
    <3>1. answer.next \in Times
      BY <2>2, <2>3, <2>4, PlaybackBounds DEF Continues, Times, Never
    <3>2. n \in Calls /\ n.id = c.id /\ n.key = c.key /\ (Obsolete(n) <=> Obsolete(c))
      BY <3>1, <2>2 DEF Calls, Obsolete
    <3>3. calls' = (calls \ {c}) \cup {n} /\ UNCHANGED <<cams, current>>
      BY <2>1, <2>4
    <3> HIDE DEF n
    <3>4. /\ calls' \subseteq Calls /\ IsFiniteSet(calls') /\ CallsApart(calls', current)
          /\ NumbersApart(calls', cams, tiles) /\ StillAwaited(calls', cams, current, keys)
      BY <3>2, <3>3, CallGoesOn
    <3>5. VideosFollowWorkspace'
      BY <3>3, <1>0, RecParts DEF VideosFollowWorkspace, Ready, Serves, ElseSame
    <3>6. RecTyped'
      BY <3>3, <3>4, <1>0, RecParts DEF RecTyped, ElseSame
    <3>7. Numbered(calls', cams', current', tiles', keys')
      BY <3>3, <3>4, <1>0, RecParts DEF Numbered, ElseSame
    <3> QED
      BY <3>5, <3>6, <3>7 DEF RecInv
  <2>5. CASE ~(Continues(answer, c.from) /\ ~c.second)
    <3> DEFINE cam == [status |-> answer.status, id |-> c.id, file |-> answer.file,
                       next |-> answer.next, from |-> c.from]
    <3>1. cam \in CameraStates /\ cam.id = c.id /\ cam.status # "ready"
      BY <2>2, <2>3, RecParts DEF CameraStates
    <3>2. cams' = [cams EXCEPT ![c.key] = cam] /\ calls' = calls \ {c} /\ Returned(c)
      BY <2>1, <2>5
    <3> HIDE DEF cam
    <3> QED
      BY <3>1, <3>2, <1>0, <1>2, CallWrites
  <2> QED
    BY <2>4, <2>5
<1> QED
  BY <1>1, <1>2

LEMMA CallFailsKeeps ==
    ASSUME RecInv, NEW c \in calls, CallFails(c)
    PROVE  RecInv'
<1>0. ElseSame /\ calls' = calls \ {c} /\ Returned(c)
  BY DEF CallFails, ElseSame
<1>1. CASE Obsolete(c)
  <2>1. cams' = cams
    BY <1>1 DEF CallFails
  <2> QED
    BY <2>1, <1>0, CallSettles
<1>2. CASE ~Obsolete(c)
  <2> DEFINE cam == [Loading(c.id) EXCEPT !.status = "error"]
  <2>1. cams' = [cams EXCEPT ![c.key] = cam]
    BY <1>2 DEF CallFails
  <2>2. cam \in CameraStates /\ cam.id = c.id /\ cam.status # "ready"
    BY FailedTyped, RecParts
  <2> HIDE DEF cam
  <2> QED
    BY <2>1, <2>2, <1>0, <1>2, CallWrites
<1> QED
  BY <1>1, <1>2

LEMMA CallTimesOutKeeps ==
    ASSUME RecInv, NEW c \in calls, CallTimesOut(c)
    PROVE  RecInv'
<1> DEFINE n == [c EXCEPT !.aborted = TRUE]
           cam == [Loading(c.id) EXCEPT !.status = "error"]
<1>0. /\ cams[c.key].id = c.id /\ calls' = (calls \ {c}) \cup {n} /\ cams' = [cams EXCEPT ![c.key] = cam]
      /\ ElseSame /\ current' = current
  BY DEF CallTimesOut, ElseSame
<1>1. c \in Calls /\ c.key \in Cameras /\ c.id \in Ids /\ c.id # 0
  BY RecParts
<1>2. n \in Calls /\ n.id = c.id /\ n.key = c.key /\ Obsolete(n)
  BY <1>1 DEF Calls, Obsolete
<1>3. cam \in CameraStates /\ cam.id = c.id /\ cam.status = "error" /\ cam.file = NoFile
  BY <1>1, FailedTyped
<1> HIDE DEF n, cam
<1>4. /\ cams' \in [Cameras -> CameraStates] /\ cams'[c.key] = cam
      /\ \A k \in Cameras \ {c.key} : cams'[k] = cams[k]
  BY <1>0, <1>1, <1>3, RecParts
<1>5. /\ calls' \subseteq Calls /\ IsFiniteSet(calls') /\ CallsApart(calls', current)
      /\ NumbersApart(calls', cams, tiles) /\ StillAwaited(calls', cams, current, keys)
  BY <1>0, <1>2, CallGoesOn
<1>6. NumbersApart(calls', cams', tiles')
  <2> SUFFICES ASSUME NEW d \in calls', NEW k \in Cameras
               PROVE  /\ tiles[k].serves # d.id
                      /\ cams'[k].id = d.id => k = d.key /\ cams'[k].file = NoFile /\ cams'[k].status \in {"loading", "error"}
    BY <1>0 DEF NumbersApart, ElseSame
  <2> QED
    BY <1>0, <1>3, <1>4, <1>5 DEF NumbersApart
<1>7. StillAwaited(calls', cams', current', keys')
  <2> SUFFICES ASSUME NEW d \in calls', ~Obsolete(d)
               PROVE  d.key \in keys /\ current[d.key] = d.id /\ cams'[d.key] = Loading(d.id)
    BY <1>0 DEF StillAwaited, ElseSame
  <2>1. d \in calls /\ d # c
    BY <1>0, <1>2
  <2>2. d.key \in keys /\ current[d.key] = d.id /\ cams[d.key] = Loading(d.id) /\ d.id \in Ids /\ d.key \in Cameras
    BY <2>1, RecParts DEF StillAwaited
  <2>3. d.key # c.key
    BY <2>1, <2>2, <1>0, LoadingTyped, RecParts DEF CallsApart
  <2> QED
    BY <2>2, <2>3, <1>4
<1>8. OffPage(cams', tiles', keys')
  BY <1>0, <1>1, <1>3, <1>4, RecParts DEF OffPage, ElseSame
<1>9. \A k \in Cameras : HasFile(cams', tiles', k)
  <2>1. tiles[c.key].serves # c.id
    BY <1>1, RecParts DEF NumbersApart
  <2> QED
    BY <2>1, <1>0, <1>3, <1>4, RecParts DEF HasFile, ElseSame
<1>10. VideosFollowWorkspace'
  BY <1>0, <1>3, <1>4, RecParts DEF VideosFollowWorkspace, Ready, Serves, ElseSame
<1>11. RecTyped'
  BY <1>0, <1>4, <1>5, RecParts DEF RecTyped, ElseSame
<1> QED
  BY <1>0, <1>5, <1>6, <1>7, <1>8, <1>9, <1>10, <1>11 DEF RecInv, Numbered

-----------------------------------------------------------------------------
(* The operator.                                                             *)

\* Cameras that are asked for again while the page stays as it is.
LEMMA AsksAgain ==
    ASSUME RecInv, NEW t \in Times, NEW from \in [Cameras -> -1..LastTime], NEW ks \in SUBSET keys,
           Room(ks, keys), ResolveCameras(ks, t, from, cams, Abandon(ks)),
           view' \in {"live", "idle", "paused", "playing"}, preparing' \in BOOLEAN, playhead' \in Times,
           keys' = keys, acts' \in 0..MaxActs, tiles' \in [Cameras -> Elements],
           \A k \in Cameras :
              /\ tiles'[k].serves = tiles[k].serves /\ tiles'[k].mounted = tiles[k].mounted
              /\ tiles'[k].ready = tiles[k].ready
              /\ tiles'[k].runs => view' = "playing" /\ ~preparing'
    PROVE  RecInv'
<1>1. /\ OnlyAborts(Abandon(ks))
      /\ \A d \in Abandon(ks) : ~Obsolete(d) => d.key \in keys \ ks
  BY AbandonAborts, RecParts DEF StillAwaited
<1>2. \A k \in Cameras \ keys : cams[k].id = 0 /\ tiles'[k].serves = 0
  BY RecParts DEF OffPage
<1>3. keys \in SUBSET Cameras
  BY RecParts
<1>4. cams \in [Cameras -> CameraStates]
  BY RecParts
<1>a. Resolvable(keys, ks, cams, tiles', Abandon(ks))
  BY <1>1, <1>2, <1>3, <1>4 DEF Resolvable
<1>5. /\ cams' \in [Cameras -> CameraStates] /\ calls' \subseteq Calls /\ IsFiniteSet(calls')
      /\ current' \in [Cameras -> Ids \cup {0}]
      /\ Numbered(calls', cams', current', tiles', keys)
      /\ \A k \in ks : cams'[k].status = "loading"
      /\ \A k \in Cameras \ ks : cams'[k] = cams[k]
  BY <1>a, ResolveKeeps
<1>6. VideosFollowWorkspace'
  BY <1>5, RecParts DEF VideosFollowWorkspace, Ready, Serves
<1> QED
  BY <1>5, <1>6, RecParts DEF RecInv, RecTyped

LEMMA SeekKeeps ==
    ASSUME RecInv, Room(keys, keys), NEW t \in Times, NEW play \in BOOLEAN, SeekTo(t, play), acts' \in 0..MaxActs
    PROVE  RecInv'
<1> DEFINE others == {[c EXCEPT !.aborted = TRUE, !.fresh = FALSE] : c \in calls}
           before == [k \in Cameras |-> Absent]
<1>0. /\ view' \in {"paused", "playing"} /\ playhead' = t /\ preparing' = TRUE /\ tiles' = Paused(Cameras)
      /\ keys' = keys /\ ResolveCameras(keys, t, FromStart, before, others)
  BY DEF SeekTo
<1>1. OnlyAborts(others) /\ \A d \in others : Obsolete(d)
  <2> DEFINE f == [c \in calls |-> TRUE]
  <2>1. f \in [calls -> BOOLEAN]
    OBVIOUS
  <2>2. others = {[c EXCEPT !.aborted = f[c], !.fresh = FALSE] : c \in calls}
    OBVIOUS
  <2> HIDE DEF f
  <2> QED
    BY <2>1, <2>2, AllAborted
<1>2. before \in [Cameras -> CameraStates] /\ \A k \in Cameras : before[k] = Absent
  BY LoadingTyped
<1> HIDE DEF others, before
<1>3. /\ tiles' \in [Cameras -> Elements]
      /\ \A k \in Cameras : tiles'[k].serves = tiles[k].serves /\ ~tiles'[k].runs
  BY <1>0, PausedTyped
<1>4. \A k \in Cameras \ keys : before[k].id = 0 /\ tiles'[k].serves = 0
  BY <1>2, <1>3, LoadingTyped, RecParts DEF OffPage
<1>5. keys \in SUBSET Cameras
  BY RecParts
<1>a. Resolvable(keys, keys, before, tiles', others)
  BY <1>1, <1>2, <1>3, <1>4, <1>5 DEF Resolvable
<1>6. /\ cams' \in [Cameras -> CameraStates] /\ calls' \subseteq Calls /\ IsFiniteSet(calls')
      /\ current' \in [Cameras -> Ids \cup {0}]
      /\ Numbered(calls', cams', current', tiles', keys)
      /\ \A k \in keys : cams'[k].status = "loading"
      /\ \A k \in Cameras \ keys : cams'[k] = before[k]
  BY <1>a, <1>0, FromStartTyped, ResolveKeeps
<1>7. VideosFollowWorkspace'
  BY <1>2, <1>3, <1>6, LoadingTyped DEF VideosFollowWorkspace, Ready
<1> QED
  BY <1>0, <1>3, <1>6, <1>7, <1>5 DEF RecInv, RecTyped

LEMMA ActsTyped ==
    ASSUME RecInv, NEW ks \in SUBSET Cameras, ActsOn(ks)
    PROVE  acts' \in 0..MaxActs
<1>1. Cardinality(ks) \in Nat
  BY PlaybackBounds, FS_Subset, FS_CardinalityType
<1> QED
  BY <1>1, RecParts, PlaybackBounds DEF ActsOn

LEMMA SeeksKeep ==
    ASSUME RecInv, Seeks \/ NextRecording
    PROVE  RecInv'
<1>0. ActsOn(keys) /\ Room(keys, keys)
  BY DEF Seeks, NextRecording, Acts
<1>1. CASE Seeks
  BY <1>0, <1>1, RecParts, SeekKeeps, ActsTyped DEF Seeks, Times
<1>2. CASE NextRecording
  <2> DEFINE nexts == {cams[k].next : k \in keys} \cap (playhead + 1)..LastTime
  <2>1. nexts # {} /\ SeekTo(Min(nexts), view = "playing")
    BY <1>2 DEF NextRecording
  <2>2. nexts \in SUBSET Nat /\ nexts \subseteq Times
    BY RecParts, PlaybackBounds DEF Times
  <2> HIDE DEF nexts
  <2>3. Min(nexts) \in Times
    BY <2>1, <2>2, MinOf
  <2>4. (view = "playing") \in BOOLEAN
    OBVIOUS
  <2> QED
    BY <2>1, <2>3, <2>4, <1>0, RecParts, SeekKeeps, ActsTyped
<1> QED
  BY <1>1, <1>2

LEMMA RetryKeeps ==
    ASSUME RecInv, Retry
    PROVE  RecInv'
<1>1. acts' \in 0..MaxActs /\ UNCHANGED <<view, preparing, playhead, keys, tiles>>
  BY RecParts, ActsTyped DEF Retry, Acts
<1>2. PICK k \in keys : Room({k}, keys) /\ ResolveCameras({k}, playhead, FromStart, cams, Abandon({k}))
  BY DEF Retry, ResolveAgain
<1>3. {k} \in SUBSET keys /\ playhead \in Times
  BY RecParts
<1>4. /\ view' \in {"live", "idle", "paused", "playing"} /\ preparing' \in BOOLEAN /\ playhead' \in Times
      /\ keys' = keys /\ tiles' \in [Cameras -> Elements]
      /\ \A l \in Cameras :
              /\ tiles'[l].serves = tiles[l].serves /\ tiles'[l].mounted = tiles[l].mounted
              /\ tiles'[l].ready = tiles[l].ready
              /\ tiles'[l].runs => view' = "playing" /\ ~preparing'
  BY <1>1, RecParts DEF VideosFollowWorkspace
<1> QED
  BY <1>1, <1>2, <1>3, <1>4, FromStartTyped, AsksAgain

LEMMA TogglesKeeps ==
    ASSUME RecInv, Toggles
    PROVE  RecInv'
<1>0. /\ acts' \in 0..MaxActs /\ UNCHANGED <<preparing, playhead, keys, cams, calls, current>>
      /\ view' \in {"paused", "playing"}
      /\ \/ view' = "paused" /\ tiles' = Paused(Cameras)
         \/ view = "paused" /\ view' = "playing" /\ tiles' = tiles
  BY RecParts, ActsTyped DEF Toggles, Acts, Watching
<1>1. /\ tiles' \in [Cameras -> Elements]
      /\ \A k \in Cameras : /\ tiles'[k].serves = tiles[k].serves /\ tiles'[k].mounted = tiles[k].mounted
                            /\ tiles'[k].ready = tiles[k].ready /\ ~tiles'[k].runs
  BY <1>0, PausedTyped, RecParts DEF VideosFollowWorkspace
<1>2. Numbered(calls, cams, current, tiles', keys)
  BY <1>1, RecParts, ElementsKeep
<1>3. VideosFollowWorkspace'
  BY <1>0, <1>1, RecParts DEF VideosFollowWorkspace, Ready, Serves
<1> QED
  BY <1>0, <1>1, <1>2, <1>3, RecParts DEF RecInv, RecTyped

LEMMA GoLiveKeeps ==
    ASSUME RecInv, GoLive
    PROVE  RecInv'
<1> DEFINE f == [c \in calls |-> c.aborted \/ c.id = current[c.key]]
           others == {[c EXCEPT !.aborted = f[c], !.fresh = FALSE] : c \in calls}
           before == [k \in Cameras |-> Absent]
<1>0. /\ acts' \in 0..MaxActs /\ view' = "live" /\ preparing' = FALSE /\ playhead' = LastTime
      /\ tiles' = Paused(Cameras) /\ cams' = before /\ UNCHANGED <<keys, current>>
  BY RecParts, ActsTyped DEF GoLive, Acts
<1>1. calls' = others
  BY DEF GoLive
<1>2. f \in [calls -> BOOLEAN]
  BY RecParts DEF Calls
<1> HIDE DEF f
<1>3. OnlyAborts(others) /\ \A d \in others : Obsolete(d)
  BY <1>2, AllAborted
<1>4. before \in [Cameras -> CameraStates] /\ \A k \in Cameras : before[k] = Absent
  BY LoadingTyped
<1> HIDE DEF others, before
<1>5. /\ tiles' \in [Cameras -> Elements]
      /\ \A k \in Cameras : tiles'[k].serves = tiles[k].serves /\ ~tiles'[k].runs
  BY <1>0, PausedTyped
<1>6. /\ keys \in SUBSET Cameras /\ current \in [Cameras -> Ids \cup {0}]
      /\ \A k \in Cameras \ keys : before[k].id = 0 /\ tiles'[k].serves = 0
  BY <1>4, <1>5, LoadingTyped, RecParts DEF OffPage
<1>7. Numbered(others, before, current, tiles', keys)
  BY <1>3, <1>4, <1>5, <1>6, AbortsKeep
<1>8. VideosFollowWorkspace'
  BY <1>0, <1>4, <1>5, LoadingTyped DEF VideosFollowWorkspace, Ready
<1>9. others \subseteq Calls /\ IsFiniteSet(others)
  BY <1>3 DEF OnlyAborts
<1> QED
  BY <1>0, <1>1, <1>4, <1>5, <1>6, <1>7, <1>8, <1>9, PlaybackBounds DEF RecInv, RecTyped

LEMMA KeysChangeKeeps ==
    ASSUME RecInv, KeysChange
    PROVE  RecInv'
<1>0. UNCHANGED <<view, preparing, playhead>>
  BY DEF KeysChange
<1>1. PICK ks \in SUBSET Cameras \ {keys} :
        LET gone == keys \ ks
            retained == [k \in Cameras |-> IF k \in gone THEN Absent ELSE cams[k]]
            missing == {k \in ks : retained[k] = Absent
                            \/ \E c \in calls : c.id = current[k] /\ c.aborted}
        IN /\ ActsOn(ks) /\ keys' = ks
           /\ tiles' = [k \in Cameras |-> IF k \in gone THEN Unmounted0 ELSE tiles[k]]
           /\ IF Watching
              THEN Room(missing, ks) /\ ResolveCameras(missing, playhead, FromStart, retained, Abandon(gone \cup missing))
              ELSE cams' = retained /\ calls' = Abandon(gone)
                   /\ current' = [k \in Cameras |-> IF k \in gone THEN 0 ELSE current[k]]
  BY DEF KeysChange
<1> DEFINE gone == keys \ ks
           retained == [k \in Cameras |-> IF k \in gone THEN Absent ELSE cams[k]]
           missing == {k \in ks : retained[k] = Absent \/ \E c \in calls : c.id = current[k] /\ c.aborted}
<1>2. /\ keys' = ks /\ ks \in SUBSET Cameras /\ acts' \in 0..MaxActs
      /\ tiles' = [k \in Cameras |-> IF k \in gone THEN Unmounted0 ELSE tiles[k]]
  BY <1>1, ActsTyped
<1>3. CASE Watching
  <2>1. Room(missing, ks) /\ ResolveCameras(missing, playhead, FromStart, retained, Abandon(gone \cup missing))
    BY <1>1, <1>3
  <2>2. missing \in SUBSET ks
    OBVIOUS
  <2>3. /\ retained \in [Cameras -> CameraStates]
        /\ \A k \in Cameras : retained[k] \in {cams[k], Absent} /\ (k \in gone => retained[k] = Absent)
                              /\ (k \notin gone => retained[k] = cams[k])
    BY LoadingTyped, RecParts
  <2> HIDE DEF retained, missing
  <2>4. /\ tiles' \in [Cameras -> Elements]
        /\ \A k \in Cameras : tiles'[k] = IF k \in gone THEN Unmounted0 ELSE tiles[k]
    BY <1>2, UnmountedTyped, RecParts
  <2>5. /\ \A k \in Cameras : tiles'[k].serves \in {tiles[k].serves, 0}
        /\ \A k \in Cameras \ ks : retained[k].id = 0 /\ tiles'[k].serves = 0
    BY <2>3, <2>4, LoadingTyped, UnmountedTyped, RecParts DEF OffPage
  <2>6. OnlyAborts(Abandon(gone \cup missing))
    BY AbandonAborts
  <2>7. \A d \in Abandon(gone \cup missing) : ~Obsolete(d) =>
          d.key \in ks \ missing /\ retained[d.key] = cams[d.key]
    <3> SUFFICES ASSUME NEW d \in Abandon(gone \cup missing), ~Obsolete(d)
                 PROVE  d.key \in ks \ missing /\ retained[d.key] = cams[d.key]
      OBVIOUS
    <3>1. d \in calls /\ d.key \notin gone \cup missing
      BY AbandonAborts
    <3>2. d.key \in keys /\ d.key \in Cameras
      BY <3>1, RecParts DEF StillAwaited
    <3> QED
      BY <3>1, <3>2, <2>3
  <2>8. playhead \in Times
    BY RecParts
  <2>a. Resolvable(ks, missing, retained, tiles', Abandon(gone \cup missing))
    BY <1>2, <2>2, <2>3, <2>4, <2>5, <2>6, <2>7 DEF Resolvable
  <2>9. /\ cams' \in [Cameras -> CameraStates] /\ calls' \subseteq Calls /\ IsFiniteSet(calls')
        /\ current' \in [Cameras -> Ids \cup {0}]
        /\ Numbered(calls', cams', current', tiles', ks)
        /\ \A k \in missing : cams'[k].status = "loading"
        /\ \A k \in Cameras \ missing : cams'[k] = retained[k]
    BY <2>1, <2>8, <2>a, FromStartTyped, ResolveKeeps
  <2>10. VideosFollowWorkspace'
    BY <1>0, <2>3, <2>4, <2>9, LoadingTyped, UnmountedTyped, RecParts DEF VideosFollowWorkspace, Ready, Serves
  <2> QED
    BY <1>0, <1>2, <2>4, <2>9, <2>10, RecParts DEF RecInv, RecTyped
<1>4. CASE ~Watching
  <2> DEFINE cur == [k \in Cameras |-> IF k \in gone THEN 0 ELSE current[k]]
  <2>1. cams' = retained /\ calls' = Abandon(gone) /\ current' = cur
    BY <1>1, <1>4
  <2>3. /\ retained \in [Cameras -> CameraStates] /\ cur \in [Cameras -> Ids \cup {0}]
        /\ \A k \in Cameras : retained[k] \in {cams[k], Absent} /\ (k \in gone => retained[k] = Absent /\ cur[k] = 0)
                              /\ (k \notin gone => retained[k] = cams[k] /\ cur[k] = current[k])
    BY LoadingTyped, RecParts
  <2> HIDE DEF retained, cur, missing
  <2>4. /\ tiles' \in [Cameras -> Elements]
        /\ \A k \in Cameras : tiles'[k] = IF k \in gone THEN Unmounted0 ELSE tiles[k]
    BY <1>2, UnmountedTyped, RecParts
  <2>5. /\ \A k \in Cameras : tiles'[k].serves \in {tiles[k].serves, 0} /\ cur[k] \in {current[k], 0}
        /\ \A k \in Cameras \ ks : retained[k].id = 0 /\ tiles'[k].serves = 0
    BY <2>3, <2>4, LoadingTyped, UnmountedTyped, RecParts DEF OffPage
  <2>6. OnlyAborts(Abandon(gone))
    BY AbandonAborts
  <2>7. \A d \in Abandon(gone) : ~Obsolete(d) =>
          d.key \in ks /\ retained[d.key] = cams[d.key] /\ cur[d.key] = current[d.key]
    <3> SUFFICES ASSUME NEW d \in Abandon(gone), ~Obsolete(d)
                 PROVE  d.key \in ks /\ retained[d.key] = cams[d.key] /\ cur[d.key] = current[d.key]
      OBVIOUS
    <3>1. d \in calls /\ d.key \notin gone
      BY AbandonAborts
    <3>2. d.key \in keys /\ d.key \in Cameras
      BY <3>1, RecParts DEF StillAwaited
    <3> QED
      BY <3>1, <3>2, <2>3
  <2>8. Numbered(Abandon(gone), retained, cur, tiles', ks)
    BY <1>2, <2>3, <2>4, <2>5, <2>6, <2>7, AbortsKeep
  <2>9. Abandon(gone) \subseteq Calls /\ IsFiniteSet(Abandon(gone))
    BY <2>6 DEF OnlyAborts
  <2>10. VideosFollowWorkspace'
    BY <1>0, <2>1, <2>3, <2>4, LoadingTyped, UnmountedTyped, RecParts DEF VideosFollowWorkspace, Ready, Serves
  <2> QED
    BY <1>0, <1>2, <2>1, <2>3, <2>4, <2>8, <2>9, <2>10, RecParts DEF RecInv, RecTyped
<1> QED
  BY <1>3, <1>4

-----------------------------------------------------------------------------
(* The video element and the interval.                                       *)

\* What the camera shows when its video serves it, or when it counts as ready.
LEMMA ShownFile ==
    ASSUME RecInv, NEW k \in Cameras, Serves(k) \/ Ready(k)
    PROVE  /\ cams[k].file \in Files /\ cams[k].file # NoFile
           /\ cams[k].file[1] \in Times /\ cams[k].file[2] \in Times
<1>1. cams[k].file \in Files /\ cams[k].file # NoFile
  BY RecParts DEF HasFile, Serves, Ready, CameraStates
<1> QED
  BY <1>1, FileFacts

\* One video changes, and the state of its camera with it.
LEMMA OneElement ==
    ASSUME RecInv, NEW k \in Cameras, NEW cam \in CameraStates, NEW el \in Elements,
           cams' = [cams EXCEPT ![k] = cam], tiles' = [tiles EXCEPT ![k] = el],
           \/ cam = cams[k]
           \/ cam.id = cams[k].id /\ cam.file = cams[k].file /\ cam.file # NoFile,
           \/ el.serves \in {tiles[k].serves, 0}
           \/ el.serves = cams[k].id /\ cams[k].file # NoFile,
           cam.status = "ready" /\ el.mounted => el.serves # 0 /\ cam.id = el.serves /\ el.ready,
           el.runs => tiles[k].runs,
           UNCHANGED <<view, preparing, playhead, keys, calls, current>>, acts' \in 0..MaxActs
    PROVE  RecInv'
<1>1. /\ cams' \in [Cameras -> CameraStates] /\ cams'[k] = cam /\ \A l \in Cameras \ {k} : cams'[l] = cams[l]
      /\ tiles' \in [Cameras -> Elements] /\ tiles'[k] = el /\ \A l \in Cameras \ {k} : tiles'[l] = tiles[l]
  BY RecParts
<1>2. Numbered(calls, cams', current, tiles', keys)
  <2>1. \A l \in Cameras :
              /\ \/ cams'[l] = cams[l]
                 \/ cams'[l].id = cams[l].id /\ cams'[l].file = cams[l].file /\ cams'[l].file # NoFile
              /\ \/ tiles'[l].serves \in {tiles[l].serves, 0}
                 \/ tiles'[l].serves = cams[l].id /\ cams[l].file # NoFile
    BY <1>1
  <2> QED
    BY <1>1, <2>1, ElementsKeep
<1>3. VideosFollowWorkspace'
  BY <1>1, RecParts DEF VideosFollowWorkspace, Ready, Serves
<1> QED
  BY <1>1, <1>2, <1>3, RecParts DEF RecInv, RecTyped

LEMMA MountKeeps ==
    ASSUME RecInv, NEW k \in Cameras, Mount(k)
    PROVE  RecInv'
<1> DEFINE el == [tiles[k] EXCEPT !.mounted = TRUE]
           cam == IF cams[k].status = "ready" THEN [cams[k] EXCEPT !.status = "loading"] ELSE cams[k]
<1>1. tiles' = [tiles EXCEPT ![k] = el]
  BY RecParts DEF Mount, Elements
<1>2. cams' = [cams EXCEPT ![k] = cam]
  <2>1. [cams EXCEPT ![k] = cams[k]] = cams
    BY RecParts
  <2> QED
    BY <2>1 DEF Mount
<1>3. el \in Elements /\ el.serves = tiles[k].serves /\ el.runs = tiles[k].runs
  BY RecParts DEF Elements
<1>4. /\ cam \in CameraStates /\ cam.status # "ready"
      /\ cam = cams[k] \/ (cam.id = cams[k].id /\ cam.file = cams[k].file /\ cam.file # NoFile)
  <2>1. cams[k] \in CameraStates /\ (cams[k].status = "ready" => cams[k].file # NoFile)
    BY RecParts DEF HasFile
  <2> QED
    BY <2>1 DEF CameraStates
<1>5. UNCHANGED <<view, preparing, playhead, keys, calls, current>> /\ acts' \in 0..MaxActs
  BY RecParts DEF Mount
<1> HIDE DEF el, cam
<1> QED
  BY <1>1, <1>2, <1>3, <1>4, <1>5, OneElement

LEMMA DetachKeeps ==
    ASSUME RecInv, NEW k \in Cameras, Detach(k)
    PROVE  RecInv'
<1>1. tiles' = [tiles EXCEPT ![k] = Unmounted0] /\ cams' = [cams EXCEPT ![k] = cams[k]]
  BY RecParts DEF Detach
<1>2. UNCHANGED <<view, preparing, playhead, keys, calls, current>> /\ acts' \in 0..MaxActs
  BY RecParts, ActsTyped DEF Detach, Acts
<1>3. cams[k] \in CameraStates
  BY RecParts
<1> QED
  BY <1>1, <1>2, <1>3, UnmountedTyped, OneElement

LEMMA LoadsKeeps ==
    ASSUME RecInv, NEW k \in Cameras, Loads(k)
    PROVE  RecInv'
<1> DEFINE shown == IF cams[k].file # NoFile THEN cams[k].id ELSE 0
           el == [tiles[k] EXCEPT !.serves = shown, !.ready = FALSE, !.runs = FALSE, !.pos = 0]
<1>1. /\ tiles[k].mounted /\ tiles[k].serves # shown /\ tiles' = [tiles EXCEPT ![k] = el]
      /\ UNCHANGED <<view, preparing, playhead, keys, cams, calls, current, acts>>
  BY RecParts DEF Loads, Elements
<1>2. cams[k] \in CameraStates /\ cams' = [cams EXCEPT ![k] = cams[k]]
  BY <1>1, RecParts
<1>3. shown \in Ids \cup {0}
  BY <1>2 DEF CameraStates
<1>4. shown = 0 \/ (shown = cams[k].id /\ cams[k].file # NoFile)
  OBVIOUS
<1>5. cams[k].status # "ready"
  <2> SUFFICES ASSUME cams[k].status = "ready" PROVE FALSE
    OBVIOUS
  <2>1. tiles[k].serves = cams[k].id /\ cams[k].file # NoFile
    BY <1>1, RecParts DEF VideosFollowWorkspace, Ready, Serves, HasFile
  <2> QED
    BY <1>1, <2>1
<1> HIDE DEF shown
<1>6. el \in Elements /\ el.serves = shown /\ ~el.runs
  <2> DEFINE served == [tiles[k] EXCEPT !.serves = shown]
             still == [served EXCEPT !.ready = FALSE, !.runs = FALSE]
  <2>1. served \in Elements /\ served.serves = shown
    BY <1>3, RecParts DEF Elements
  <2>2. el = [still EXCEPT !.pos = 0]
    OBVIOUS
  <2> HIDE DEF served, el
  <2>3. still \in Elements /\ still.serves = shown /\ ~still.runs
    BY <2>1 DEF Elements
  <2> HIDE DEF still
  <2> QED
    BY <2>2, <2>3, PlaybackBounds DEF Elements
<1>7. acts' \in 0..MaxActs
  BY <1>1, RecParts
<1> HIDE DEF el
<1> QED
  BY <1>1, <1>2, <1>4, <1>5, <1>6, <1>7, OneElement

LEMMA PreparedKeeps ==
    ASSUME RecInv, NEW k \in Cameras, Prepared(k)
    PROVE  RecInv'
<1> DEFINE p == IF Serves(k) THEN Max({playhead, cams[k].file[1]}) ELSE 0
           el == [tiles[k] EXCEPT !.ready = TRUE, !.pos = p]
           cam == IF Serves(k) /\ cams[k].status = "loading" THEN [cams[k] EXCEPT !.status = "ready"] ELSE cams[k]
<1>1. p \in Times
  BY ShownFile, GreaterTyped, RecParts, PlaybackBounds
<1>2. tiles' = [tiles EXCEPT ![k].ready = TRUE, ![k].pos = p]
  BY DEF Prepared
<1>3. cams' = [cams EXCEPT ![k] = cam]
  <2>1. [cams EXCEPT ![k] = cams[k]] = cams
    BY RecParts
  <2> QED
    BY <2>1 DEF Prepared
<1>4. UNCHANGED <<view, preparing, playhead, keys, calls, current, acts>>
  BY DEF Prepared
<1> HIDE DEF p
<1>5. tiles' = [tiles EXCEPT ![k] = el]
  BY <1>2, RecParts DEF Elements
<1>6. el \in Elements /\ el.serves = tiles[k].serves /\ el.runs = tiles[k].runs /\ el.ready
      /\ el.mounted = tiles[k].mounted
  BY <1>1, RecParts DEF Elements
<1>7. /\ cam \in CameraStates
      /\ cam = cams[k] \/ (cam.id = cams[k].id /\ cam.file = cams[k].file /\ cam.file # NoFile)
      /\ cam.status = "ready" => cams[k].status = "ready" \/ Serves(k)
      /\ cam.id = cams[k].id
  <2>1. cams[k] \in CameraStates /\ (Serves(k) => cams[k].file # NoFile)
    BY RecParts, ShownFile
  <2> QED
    BY <2>1 DEF CameraStates
<1> HIDE DEF el, cam
<1>8. cam.status = "ready" /\ el.mounted => el.serves # 0 /\ cam.id = el.serves /\ el.ready
  BY <1>6, <1>7, RecParts DEF VideosFollowWorkspace, Ready, Serves
<1>9. acts' \in 0..MaxActs
  BY <1>4, RecParts
<1> QED
  BY <1>3, <1>4, <1>5, <1>6, <1>7, <1>8, <1>9, OneElement

LEMMA VideoErrorKeeps ==
    ASSUME RecInv, NEW k \in Cameras, VideoError(k)
    PROVE  RecInv'
<1> DEFINE el == [tiles[k] EXCEPT !.runs = FALSE]
           cam == [cams[k] EXCEPT !.status = "error"]
<1>1. tiles' = [tiles EXCEPT ![k] = el] /\ cams' = [cams EXCEPT ![k] = cam]
  BY RecParts DEF VideoError, Elements, CameraStates
<1>2. UNCHANGED <<view, preparing, playhead, keys, calls, current>> /\ acts' \in 0..MaxActs
  BY RecParts DEF VideoError
<1>3. el \in Elements /\ el.serves = tiles[k].serves /\ ~el.runs
  BY RecParts DEF Elements
<1>4. cam \in CameraStates /\ cam.id = cams[k].id /\ cam.file = cams[k].file /\ cam.file # NoFile /\ cam.status = "error"
  BY RecParts, ShownFile DEF VideoError, CameraStates
<1> HIDE DEF el, cam
<1> QED
  BY <1>1, <1>2, <1>3, <1>4, OneElement

LEMMA AdvancesKeeps ==
    ASSUME RecInv, NEW k \in Cameras, Advances(k)
    PROVE  RecInv'
<1> DEFINE el == [tiles[k] EXCEPT !.pos = @ + 1]
<1>1. tiles' = [tiles EXCEPT ![k] = el] /\ cams' = [cams EXCEPT ![k] = cams[k]] /\ cams[k] \in CameraStates
  BY RecParts DEF Advances, Elements
<1>2. UNCHANGED <<view, preparing, playhead, keys, calls, current>> /\ acts' \in 0..MaxActs
  BY RecParts DEF Advances
<1>3. tiles[k].pos + 1 \in Times
  <2>1. tiles[k].pos < cams[k].file[2] /\ cams[k].file[2] \in Times /\ tiles[k].pos \in Times
    BY RecParts, ShownFile DEF Advances, Elements
  <2> QED
    BY <2>1, PlaybackBounds DEF Times
<1>4. /\ el \in Elements /\ el.serves = tiles[k].serves /\ el.runs = tiles[k].runs
      /\ el.ready = tiles[k].ready /\ el.mounted = tiles[k].mounted
  BY <1>3, RecParts DEF Elements
<1>5. cams[k].status = "ready" /\ el.mounted => el.serves # 0 /\ cams[k].id = el.serves /\ el.ready
  BY <1>4, RecParts DEF VideosFollowWorkspace, Ready, Serves
<1> HIDE DEF el
<1> QED
  BY <1>1, <1>2, <1>4, <1>5, OneElement

LEMMA EndedKeeps ==
    ASSUME RecInv, NEW k \in Cameras, Ended(k)
    PROVE  RecInv'
<1> DEFINE end == cams[k].file[2]
           t == Max({playhead, end})
           from == [FromStart EXCEPT ![k] = end]
<1>1. /\ Room({k}, keys) /\ Serves(k) /\ UNCHANGED <<view, preparing, keys, acts>>
      /\ playhead' \in {playhead, t} /\ ResolveCameras({k}, t, from, cams, Abandon({k}))
      /\ tiles' = [tiles EXCEPT ![k].runs = FALSE]
  BY DEF Ended
<1>2. end \in Times /\ t \in Times
  BY <1>1, ShownFile, GreaterTyped, RecParts
<1>3. from \in [Cameras -> -1..LastTime]
  BY <1>2, FromStartTyped, PlaybackBounds
<1>4. k \in keys
  BY <1>1, RecParts DEF Serves, OffPage
<1> HIDE DEF t, from
<1>5. /\ tiles' \in [Cameras -> Elements]
      /\ \A l \in Cameras :
              /\ tiles'[l].serves = tiles[l].serves /\ tiles'[l].mounted = tiles[l].mounted
              /\ tiles'[l].ready = tiles[l].ready
              /\ tiles'[l].runs => tiles[l].runs
  BY <1>1, RecParts DEF Elements
<1>6. /\ view' \in {"live", "idle", "paused", "playing"} /\ preparing' \in BOOLEAN /\ playhead' \in Times
      /\ keys' = keys /\ acts' \in 0..MaxActs
      /\ \A l \in Cameras : tiles'[l].runs => view' = "playing" /\ ~preparing'
  BY <1>1, <1>2, <1>5, RecParts DEF VideosFollowWorkspace
<1>7. {k} \in SUBSET keys
  BY <1>4
<1> QED
  BY <1>1, <1>2, <1>3, <1>5, <1>6, <1>7, AsksAgain

LEMMA HoldsBackKeeps ==
    ASSUME RecInv, HoldsBack
    PROVE  RecInv'
<1>0. tiles' = Paused(Cameras) /\ UNCHANGED <<view, preparing, playhead, keys, cams, calls, current, acts>>
  BY DEF HoldsBack
<1>1. /\ tiles' \in [Cameras -> Elements]
      /\ \A k \in Cameras : /\ tiles'[k].serves = tiles[k].serves /\ tiles'[k].mounted = tiles[k].mounted
                            /\ tiles'[k].ready = tiles[k].ready /\ ~tiles'[k].runs
  BY <1>0, PausedTyped
<1>2. Numbered(calls, cams, current, tiles', keys)
  BY <1>1, RecParts, ElementsKeep
<1>3. VideosFollowWorkspace'
  BY <1>0, <1>1, RecParts DEF VideosFollowWorkspace, Ready, Serves
<1> QED
  BY <1>0, <1>1, <1>2, <1>3, RecParts DEF RecInv, RecTyped

LEMMA DrivesKeeps ==
    ASSUME RecInv, Drives
    PROVE  RecInv'
<1>1. PICK polled \in SUBSET Polled :
        LET t == Cursor
            ended == {k \in keys : Ends(k, t)}
            ks == ended \cup Due(t) \cup polled
            from == [k \in Cameras |-> IF k \in ended THEN cams[k].file[2] ELSE cams[k].from]
        IN /\ Room(ks, keys) /\ playhead' = t
           /\ tiles' = [k \in Cameras |-> IF k \in keys THEN Driven(k, t) ELSE tiles[k]]
           /\ ResolveCameras(ks, t, from, cams, Abandon(ks))
  BY DEF Drives
<1> DEFINE t == Cursor
           ended == {k \in keys : Ends(k, t)}
           ks == ended \cup Due(t) \cup polled
           from == [k \in Cameras |-> IF k \in ended THEN cams[k].file[2] ELSE cams[k].from]
<1>2. /\ Room(ks, keys) /\ playhead' = t /\ ResolveCameras(ks, t, from, cams, Abandon(ks))
      /\ tiles' = [k \in Cameras |-> IF k \in keys THEN Driven(k, t) ELSE tiles[k]]
  BY <1>1
<1>3. preparing' = FALSE /\ UNCHANGED <<view, keys, acts>>
  BY DEF Drives
<1>4. t \in Times
  BY CursorTyped
<1>5. from \in [Cameras -> -1..LastTime]
  <2> SUFFICES ASSUME NEW k \in Cameras
               PROVE  (IF k \in ended THEN cams[k].file[2] ELSE cams[k].from) \in -1..LastTime
    OBVIOUS
  <2>1. cams[k].from \in -1..LastTime
    BY RecParts DEF CameraStates
  <2>2. k \in ended => cams[k].file[2] \in Times
    BY ShownFile DEF Ends
  <2> QED
    BY <2>1, <2>2, PlaybackBounds
<1>6. ks \in SUBSET keys
  BY DEF Due, Polled
<1> HIDE DEF t, ended, ks, from
<1>7. ASSUME NEW k \in Cameras
      PROVE  /\ Driven(k, t) \in Elements
             /\ Driven(k, t).serves = tiles[k].serves /\ Driven(k, t).mounted = tiles[k].mounted
             /\ Driven(k, t).ready = tiles[k].ready
             /\ Driven(k, t).runs => tiles[k].runs \/ view = "playing"
  <2>1. tiles[k] \in Elements
    BY RecParts
  <2>2. LET el == [tiles[k] EXCEPT !.runs = FALSE]
        IN el \in Elements /\ el.serves = tiles[k].serves /\ el.mounted = tiles[k].mounted
           /\ el.ready = tiles[k].ready /\ ~el.runs
    BY <2>1 DEF Elements
  <2>3. \A p \in Times : LET el == [tiles[k] EXCEPT !.runs = TRUE, !.pos = p]
        IN el \in Elements /\ el.serves = tiles[k].serves /\ el.mounted = tiles[k].mounted
           /\ el.ready = tiles[k].ready
    BY <2>1 DEF Elements
  <2>4. tiles[k].pos \in Times
    BY <2>1 DEF Elements
  <2>5. CASE ~(Ready(k) /\ tiles[k].mounted)
    BY <2>1, <2>5 DEF Driven
  <2>6. CASE Ready(k) /\ tiles[k].mounted /\ (Ends(k, t) \/ view # "playing" \/ t < cams[k].file[1])
    BY <2>2, <2>6 DEF Driven
  <2>7. CASE Ready(k) /\ tiles[k].mounted /\ ~(Ends(k, t) \/ view # "playing" \/ t < cams[k].file[1])
    <3> DEFINE p == IF Contains(cams[k].file, t) THEN t ELSE tiles[k].pos
    <3>1. Driven(k, t) = [tiles[k] EXCEPT !.runs = TRUE, !.pos = p]
      BY <2>7 DEF Driven
    <3>2. p \in Times
      BY <2>4, <1>4
    <3> HIDE DEF p
    <3> QED
      BY <2>3, <2>7, <3>1, <3>2
  <2> QED
    BY <2>5, <2>6, <2>7
<1>8. /\ tiles' \in [Cameras -> Elements]
      /\ \A l \in Cameras :
              /\ tiles'[l].serves = tiles[l].serves /\ tiles'[l].mounted = tiles[l].mounted
              /\ tiles'[l].ready = tiles[l].ready
              /\ tiles'[l].runs => tiles[l].runs \/ view = "playing"
  BY <1>2, <1>7, RecParts
<1>9. /\ view' \in {"live", "idle", "paused", "playing"} /\ preparing' \in BOOLEAN /\ playhead' \in Times
      /\ keys' = keys /\ acts' \in 0..MaxActs
      /\ \A l \in Cameras : tiles'[l].runs => view' = "playing" /\ ~preparing'
  BY <1>2, <1>3, <1>4, <1>8, RecParts DEF VideosFollowWorkspace
<1> QED
  BY <1>2, <1>3, <1>4, <1>5, <1>6, <1>8, <1>9, AsksAgain

LEMMA RecStart == RecInit => RecInv
<1> SUFFICES ASSUME RecInit PROVE RecInv
  OBVIOUS
<1>1. /\ view \in {"live", "idle"} /\ preparing = FALSE /\ playhead = LastTime
      /\ keys = Cameras /\ cams = [k \in Cameras |-> Absent]
      /\ calls = {} /\ current = [k \in Cameras |-> 0]
      /\ tiles = [k \in Cameras |-> Unmounted0] /\ acts = 0
  BY DEF RecInit
<1>2. RecTyped
  <2>1. view \in {"live", "idle", "paused", "playing"} /\ preparing \in BOOLEAN /\ keys \subseteq Cameras
    BY <1>1
  <2>2. playhead \in Times /\ acts \in 0..MaxActs
    BY <1>1, PlaybackBounds
  <2>3. calls \subseteq Calls /\ IsFiniteSet(calls)
    BY <1>1, FS_EmptySet
  <2>4. cams \in [Cameras -> CameraStates] /\ tiles \in [Cameras -> Elements]
    BY <1>1, LoadingTyped, UnmountedTyped
  <2>5. current \in [Cameras -> Ids \cup {0}]
    BY <1>1
  <2> QED
    BY <2>1, <2>2, <2>3, <2>4, <2>5 DEF RecTyped
<1>3. Numbered(calls, cams, current, tiles, keys)
  BY <1>1, LoadingTyped, UnmountedTyped
  DEF Numbered, CallsApart, NumbersApart, StillAwaited, OffPage, HasFile
<1>4. VideosFollowWorkspace
  BY <1>1, LoadingTyped, UnmountedTyped DEF VideosFollowWorkspace, Ready
<1> QED
  BY <1>2, <1>3, <1>4 DEF RecInv

LEMMA RecStep == RecInv /\ [RecNext]_recVars => RecInv'
<1> SUFFICES ASSUME RecInv, [RecNext]_recVars PROVE RecInv'
  OBVIOUS
<1>1. CASE Seeks \/ NextRecording \/ Retry \/ Toggles \/ GoLive \/ KeysChange
  BY <1>1, SeeksKeep, RetryKeeps, TogglesKeeps, GoLiveKeeps, KeysChangeKeeps
<1>2. CASE \E c \in calls : CallAnswered(c) \/ CallFails(c) \/ CallTimesOut(c)
  BY <1>2, CallAnsweredKeeps, CallFailsKeeps, CallTimesOutKeeps
<1>3. CASE \E k \in Cameras : Mount(k) \/ Detach(k) \/ Loads(k) \/ Prepared(k)
  BY <1>3, MountKeeps, DetachKeeps, LoadsKeeps, PreparedKeeps
<1>4. CASE \E k \in Cameras : VideoError(k) \/ GivesUp(k) \/ Advances(k) \/ Ended(k)
  BY <1>4, VideoErrorKeeps, AdvancesKeeps, EndedKeeps DEF GivesUp
<1>5. CASE HoldsBack \/ Drives
  BY <1>5, HoldsBackKeeps, DrivesKeeps
<1>6. CASE UNCHANGED recVars
  BY <1>6 DEF recVars, RecInv, RecTyped, Numbered, CallsApart, NumbersApart, StillAwaited, OffPage, HasFile,
              VideosFollowWorkspace, Ready, Serves
<1> QED
  BY <1>1, <1>2, <1>3, <1>4, <1>5, <1>6 DEF RecNext

\* For any cameras and recordings, any number of calls under way and of acts of the operator:
\* every step keeps the types and the numbers of calls, cameras and videos apart.
THEOREM PlaybackInvariant == RecSpec => []RecInv
BY RecStart, RecStep, PTL DEF RecSpec

\* Type correctness: among other things the playhead never leaves the time line, and a request
\* always finds a number no answer under way could be mistaken for.
THEOREM PlaybackTypeCorrect == RecSpec => []RecTypeOK
<1>1. RecInv => RecTypeOK
  BY RecParts DEF RecTypeOK, CameraStates, Elements, Times
<1> QED
  BY <1>1, PlaybackInvariant, PTL

\* For any cameras and recordings: whatever answers, errors, timeouts and video events come late,
\* a request under way is the newest of its camera and still awaited, a ready camera has the video
\* of the file it shows, and no video runs behind the barrier, a pause or the live view
\* (resolveCamera and attachVideo of usePlaybackWorkspace.ts).
THEOREM RecordingsStayAsAsked == RecSpec => []RecordingsAsAsked
<1>1. RecInv => NewestRequestDecides
  BY RecParts DEF NewestRequestDecides, StillAwaited
<1>2. RecInv => RecordingsAsAsked
  BY <1>1, RecParts DEF RecordingsAsAsked
<1> QED
  BY <1>2, PlaybackInvariant, PTL

===============================================================================
