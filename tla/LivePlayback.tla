----------------------------- MODULE LivePlayback -----------------------------
(******************************************************************************)
(* One live tile: the effect of useWebRtcMseStream with its recovery budget   *)
(* (PlaybackRecovery), its retry timer (PlaybackProbeScheduler) and the       *)
(* probe that brings a tile on the fallback stream back to the primary one    *)
(* (PlaybackPrimaryPromoter).                                                 *)
(*                                                                            *)
(* Callbacks of the browser arrive in any order: connection failures, media   *)
(* progress, timers, probe results and the last frame of a connection that    *)
(* is already closed.  A connection is abstracted to whether its route        *)
(* works; PlaybackConnection models its inside.  Time is counted in seconds:  *)
(* a timer runs in the second it is due, in any order with what else happens  *)
(* in that second.                                                            *)
(******************************************************************************)
EXTENDS Integers, Sequences

CONSTANTS
    Setup,         \* PLAYBACK_SETUP_MS
    RetryInterval, \* PLAYBACK_RETRY_INTERVAL_MS
    Stall,         \* PLAYBACK_STALL_MS
    Episode,       \* PLAYBACK_EPISODE_MS
    StableReset,   \* PLAYBACK_STABLE_RESET_MS
    Cooldown,      \* PLAYBACK_COOLDOWN_MS
    ProbeInterval, \* PLAYBACK_PRIMARY_PROBE_INTERVAL_MS
    ProbeTimeout,  \* PLAYBACK_PRIMARY_PROBE_TIMEOUT_MS
    Latency,       \* within which a working route shows progress
    Preferred,     \* preferredTransport
    HasFallback,   \* whether the camera has a second stream
    MaxRestarts    \* bound on the restarts of the effect by changed inputs

ASSUME DurationsAssumption ==
    /\ {Setup, RetryInterval, Stall, Episode, StableReset, Cooldown, ProbeInterval,
        ProbeTimeout, Latency} \subseteq Nat \ {0}
    /\ Latency < Setup /\ Latency < ProbeTimeout /\ Cooldown <= Episode
    /\ RetryInterval <= Setup /\ Setup <= Stall /\ Stall <= Episode /\ StableReset <= Episode
ASSUME VariantAssumption ==
    /\ Preferred \in {"webrtc", "mse"}
    /\ HasFallback \in BOOLEAN
    /\ MaxRestarts \in Nat

Transports == {"webrtc", "mse"}
Streams == {"primary", "fallback"}
Routes == [transport : Transports, stream : Streams]
Route(t, s) == [transport |-> t, stream |-> s]
AllRoutes == {Route(t, s) : t \in Transports, s \in IF HasFallback THEN Streams ELSE {"primary"}}
Phases == {"connecting", "retrying", "fallback", "recovering", "playing", "cooldown"}

VARIABLES
    up,       \* the routes that work now
    mounted,  \* ~destroyed
    phase,    \* diagnosticPhase
    attempt,  \* the route of activeAttempt
    held,     \* closeConnection is set
    open,     \* connections that write to the video element
    good,     \* the route of the open connection has worked since it was opened
    frame,    \* a frame of a closed connection is still to be reported
    setup,    \* setupTimer: seconds left
    stall,    \* stallTimer: seconds left
    retry,    \* recoveryProbeScheduler: seconds left and what it will begin
    recovery, \* PlaybackRecovery
    promoter, \* PlaybackPrimaryPromoter and its scheduler
    age,      \* seconds since attemptStartedAt
    quiet,    \* seconds since the last attempt began or progressed
    restarts

tileVars == <<up, mounted, phase, attempt, held, open, good, frame, setup, stall, retry,
          recovery, promoter, age, quiet, restarts>>

Off == -1                        \* a timer or an instant that is not set
Lesser(a, b) == IF a <= b THEN a ELSE b
Greater(a, b) == IF a >= b THEN a ELSE b

First == Route(Preferred, "primary")
NoRetry == [left |-> Off, route |-> First, phase |-> "cooldown"]
PromoterOff == [pc |-> "off", left |-> Off, transport |-> Preferred, good |-> FALSE]

-----------------------------------------------------------------------------
(* PlaybackRecovery: ages of episodeStartedAt, stableSince, lastProgressAt.  *)

NewRecovery == [episode |-> Off, step |-> 0, stable |-> Off, gap |-> Off]

\* The retries of one episode, after the attempt that failed.
Steps ==
    <<[route |-> Route("webrtc", "primary"), phase |-> "retrying"],
      [route |-> Route("mse", "primary"), phase |-> "retrying"]>>
    \o (IF HasFallback THEN <<[route |-> Route("mse", "fallback"), phase |-> "fallback"]>>
        ELSE <<>>)
    \o <<[route |-> First, phase |-> "recovering"]>>

Remaining(r) == IF r.episode = Off THEN Episode ELSE Greater(0, Episode - r.episode)

RecordFailure(r) ==
    [r EXCEPT !.stable = Off, !.episode = IF @ = Off THEN 0 ELSE @]

RecordProgress(r) ==
    LET since == IF r.stable = Off \/ r.gap = Off \/ r.gap > Stall THEN 0 ELSE r.stable
    IN  IF since < StableReset
        THEN [r EXCEPT !.stable = since, !.gap = 0]
        ELSE [NewRecovery EXCEPT !.stable = 0, !.gap = 0]

RestartEpisode(r) == [r EXCEPT !.episode = 0, !.step = 0, !.stable = Off]

-----------------------------------------------------------------------------
(* Tearing down and beginning an attempt.                                    *)

\* Mutant: the handle is dropped without calling close().
AfterForgetting == open

\* teardownAttempt: timers, promoter and the connection go together.
AfterClose == IF held THEN open - 1 ELSE open
Leftovers == frame' = (frame \/ (held /\ phase = "playing"))

Teardown ==
    /\ open' = AfterClose
    /\ held' = FALSE
    /\ good' = FALSE
    /\ Leftovers
    /\ setup' = Off
    /\ stall' = Off
    /\ promoter' = PromoterOff

EnterCooldown(r) ==
    /\ Teardown
    /\ phase' = "cooldown"
    /\ retry' = [NoRetry EXCEPT !.left = Cooldown]
    /\ recovery' = r
    /\ UNCHANGED <<attempt, age, quiet>>

\* The retry waits until RetryInterval after the attempt that failed began.
RetryDelay == Greater(0, RetryInterval - age)

\* advance(nextFailure(now)) after recordFailure(now).
Advance(r) ==
    LET failed == RecordFailure(r)
        counted == [failed EXCEPT !.step = @ + 1]
    IN  IF Remaining(failed) = 0 THEN EnterCooldown(failed)
        ELSE IF counted.step > Len(Steps) THEN EnterCooldown(counted)
        ELSE /\ Teardown
             /\ retry' = [left |-> RetryDelay, route |-> Steps[counted.step].route,
                          phase |-> Steps[counted.step].phase]
             /\ recovery' = counted
             /\ UNCHANGED <<phase, attempt, age, quiet>>

\* What the tile shows: the transport and the stream of the attempt, and its phase.
PublishAttempt(route, ph) == attempt' = route /\ phase' = ph

BeginAttempt(route, ph, r) ==
    IF Remaining(r) = 0 THEN Advance(r)
    ELSE /\ open' = AfterClose + 1
         /\ held' = TRUE
         /\ good' = (route \in up)
         /\ Leftovers
         /\ PublishAttempt(route, ph)
         /\ setup' = Lesser(Setup, Remaining(r))
         /\ stall' = Off
         /\ retry' = NoRetry
         /\ promoter' = PromoterOff
         /\ recovery' = r
         /\ age' = 0
         /\ quiet' = 0

-----------------------------------------------------------------------------
(* Callbacks of the connection and of the timers.                            *)

\* Callbacks of a closed connection and cleared timers do not run; the token of
\* failAttempt guards what they would do a second time.
FailAttempt == Advance(recovery) /\ UNCHANGED <<up, mounted, restarts>>

ConnectionFails ==
    /\ held /\ ~good
    /\ FailAttempt

SetupExpires == setup = 0 /\ FailAttempt
StallExpires == stall = 0 /\ FailAttempt

\* The scheduler clears itself before it calls back.
RetryFires ==
    /\ retry.left = 0
    /\ IF retry.phase = "cooldown"
       THEN BeginAttempt(First, "retrying", RestartEpisode(recovery))
       ELSE BeginAttempt(retry.route, retry.phase, recovery)
    /\ UNCHANGED <<up, mounted, restarts>>

\* Mutant: nothing looks for the primary stream any more.
NoPromotion == promoter

\* ensurePrimaryPromotion
PromoterAfterProgress ==
    IF HasFallback /\ attempt.stream = "fallback" /\ promoter.pc = "off"
    THEN [PromoterOff EXCEPT !.pc = "waiting", !.left = ProbeInterval]
    ELSE promoter

\* Mutant: a tile that has played is watched like a whole episode.
WatchEpisode == Episode

\* resetStallTimer: progress is looked for from now on.
ResetStallTimer == Stall

\* markProgress: progress is credited to the attempt that is current.
MarkProgress ==
    /\ mounted /\ held /\ phase # "cooldown"
    /\ setup' = Off
    /\ stall' = ResetStallTimer
    /\ phase' = "playing"
    /\ recovery' = RecordProgress(recovery)
    /\ promoter' = PromoterAfterProgress
    /\ quiet' = 0
    /\ UNCHANGED <<up, mounted, attempt, held, open, good, retry, age, restarts>>

MediaProgresses == attempt \in up /\ frame' = frame /\ MarkProgress

\* The frame callback reads the generation when it runs.
LateFrameIsReported == frame /\ frame' = FALSE /\ MarkProgress

-----------------------------------------------------------------------------
(* The promoter probes both transports of the primary stream in turn.        *)

ProbeOf(t) == [pc |-> "probing", left |-> ProbeTimeout, transport |-> t,
               good |-> Route(t, "primary") \in up]

SetPromoter(p) ==
    /\ promoter' = p
    /\ UNCHANGED <<up, mounted, phase, attempt, held, open, good, frame, setup, stall,
                   retry, recovery, age, quiet, restarts>>

ProbeStarts == promoter.pc = "waiting" /\ promoter.left = 0 /\ SetPromoter(ProbeOf(Preferred))

\* runCycle goes on with the other transport, then waits for the next interval.
ProbeFails ==
    /\ promoter.pc = "probing"
    /\ ~promoter.good \/ promoter.left = 0
    /\ IF promoter.transport = Preferred
       THEN \E t \in Transports \ {Preferred} : SetPromoter(ProbeOf(t))
       ELSE SetPromoter([PromoterOff EXCEPT !.pc = "waiting", !.left = ProbeInterval])

\* onRecovered leaves the fallback only while it plays.
ProbeSucceeds ==
    /\ promoter.pc = "probing"
    /\ Route(promoter.transport, "primary") \in up
    /\ IF mounted /\ attempt.stream = "fallback" /\ phase = "playing"
       THEN /\ BeginAttempt(Route(promoter.transport, "primary"), "recovering", NewRecovery)
            /\ UNCHANGED <<up, mounted, restarts>>
       ELSE SetPromoter(PromoterOff)

-----------------------------------------------------------------------------
(* The page and the world.                                                   *)

\* The cleanup of the effect; with changed inputs a new effect begins at once.
Unmount ==
    /\ mounted
    /\ mounted' = FALSE
    /\ Teardown
    /\ retry' = NoRetry
    /\ UNCHANGED <<up, phase, attempt, recovery, age, quiet, restarts>>

InputsChange ==
    /\ mounted
    /\ restarts < MaxRestarts
    /\ restarts' = restarts + 1
    /\ BeginAttempt(First, "connecting", NewRecovery)
    /\ UNCHANGED <<up, mounted>>

RoutesChange ==
    /\ \E r \in AllRoutes : up' = IF r \in up THEN up \ {r} ELSE up \cup {r}
    /\ good' = (good /\ attempt \in up')
    /\ promoter' = [promoter EXCEPT
            !.good = @ /\ Route(promoter.transport, "primary") \in up']
    /\ UNCHANGED <<mounted, phase, attempt, held, open, frame, setup, stall, retry,
                   recovery, age, quiet, restarts>>

Later(t) == IF t = Off THEN Off ELSE t - 1
Aged(t, bound) == IF t = Off THEN Off ELSE Lesser(t + 1, bound)

\* A second passes: no timer is overdue and working routes have delivered.
Tick ==
    /\ mounted
    /\ 0 \notin {setup, stall, retry.left, promoter.left}
    /\ (held /\ good) => quiet < Latency
    /\ (promoter.pc = "probing" /\ promoter.good) => promoter.left > ProbeTimeout - Latency
    /\ setup' = Later(setup)
    /\ stall' = Later(stall)
    /\ retry' = [retry EXCEPT !.left = Later(@)]
    /\ promoter' = [promoter EXCEPT !.left = Later(@)]
    /\ recovery' = [recovery EXCEPT !.episode = Aged(@, Episode),
                                    !.stable = Aged(@, StableReset), !.gap = Aged(@, Stall + 1)]
    /\ age' = Lesser(age + 1, RetryInterval)
    /\ quiet' = quiet + 1
    /\ frame' = FALSE
    /\ UNCHANGED <<up, mounted, phase, attempt, held, open, good, restarts>>

\* The effect mounts and begins its first attempt.
TileInit ==
    /\ up = AllRoutes
    /\ mounted = TRUE
    /\ phase = "connecting"
    /\ attempt = First
    /\ held = TRUE
    /\ open = 1
    /\ good = TRUE
    /\ frame = FALSE
    /\ setup = Setup
    /\ stall = Off
    /\ retry = NoRetry
    /\ recovery = NewRecovery
    /\ promoter = PromoterOff
    /\ age = 0
    /\ quiet = 0
    /\ restarts = 0

Timers == SetupExpires \/ StallExpires \/ RetryFires \/ ProbeStarts

TileNext ==
    \/ ConnectionFails \/ Timers
    \/ MediaProgresses \/ LateFrameIsReported
    \/ ProbeFails \/ ProbeSucceeds
    \/ Unmount \/ InputsChange \/ RoutesChange \/ Tick

TileSpec == TileInit /\ [][TileNext]_tileVars

\* Timers run and time passes; a working route delivers, a probe ends.
TileFairSpec ==
    /\ TileSpec
    /\ WF_tileVars(Timers) /\ WF_tileVars(Tick)
    /\ WF_tileVars(MediaProgresses) /\ WF_tileVars(ProbeSucceeds) /\ WF_tileVars(ProbeFails)

-----------------------------------------------------------------------------
(* Properties.                                                               *)

TileTypeOK ==
    /\ up \subseteq Routes /\ attempt \in Routes /\ phase \in Phases
    /\ {mounted, held, good, frame} \subseteq BOOLEAN
    /\ open \in Nat /\ restarts \in 0..MaxRestarts
    /\ setup \in Off..Setup /\ stall \in Off..Stall
    /\ retry \in [left : Off..Episode, route : Routes, phase : Phases]
    /\ recovery \in [episode : Off..Episode, step : 0..(Len(Steps) + 1),
                     stable : Off..StableReset, gap : Off..(Stall + 1)]
    /\ promoter \in [pc : {"off", "waiting", "probing"}, transport : Transports,
                     left : Off..Greater(ProbeInterval, ProbeTimeout), good : BOOLEAN]
    /\ age \in 0..RetryInterval /\ quiet \in Nat

\* Every connection that was opened is closed before the next one takes the video
\* element, on every path into and out of beginAttempt; after the component has
\* gone, no timer and no connection is left.
OneConnection ==
    /\ open = (IF held THEN 1 ELSE 0)
    /\ ~mounted => ~held /\ {setup, stall, retry.left, promoter.left} = {Off}

\* "never park a tile": a mounted tile always has a timer that will act on it, and
\* the timers agree with the connection: an attempt in progress is watched by exactly
\* one of setup and stall timer, a closed one by the retry timer.
NeverParked ==
    mounted => IF held THEN (setup = Off) # (stall = Off) /\ retry.left = Off
               ELSE retry.left # Off /\ setup = Off /\ stall = Off

\* A tile without progress begins a new attempt within the stall time and one cooldown,
\* whatever combination of timeouts, refusals and spent budget.
SilenceIsBounded == NeverParked /\ (mounted => quiet <= Stall + Cooldown)

\* If one transport of the primary stream works from some time on, the tile
\* plays the primary stream again and again, from cooldown and fallback too.
PlaysPrimary == phase = "playing" /\ attempt.stream = "primary"
PrimaryComesBack ==
    \A t \in Transports :
        ([]mounted /\ <>[](Route(t, "primary") \in up)) => []<>PlaysPrimary
=============================================================================
