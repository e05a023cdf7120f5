----------------------------- MODULE RemoteCommand -----------------------------
(*****************************************************************************)
(* What remote control promises about each command, whatever carries it:     *)
(* it waits until it is revoked, is closed without having had any effect,    *)
(* or takes effect once; a command that is revoked, closed or settled stays  *)
(* so.                                                                       *)
(*****************************************************************************)
EXTENDS Naturals

CONSTANT Command

VARIABLES phase, effects

abstractVars == <<phase, effects>>

Phases == {"unborn", "waiting", "revoked", "closed", "acting", "settled"}

Init ==
    /\ phase = [c \in Command |-> "unborn"]
    /\ effects = [c \in Command |-> 0]

Move(c, from, to) ==
    /\ phase[c] \in from
    /\ phase' = [phase EXCEPT ![c] = to]

Request(c) == Move(c, {"unborn"}, "waiting") /\ UNCHANGED effects
Revoke(c)  == Move(c, {"waiting"}, "revoked") /\ UNCHANGED effects
Close(c)   == Move(c, {"waiting"}, "closed") /\ UNCHANGED effects
Begin(c)   == Move(c, {"waiting"}, "acting") /\ effects' = [effects EXCEPT ![c] = @ + 1]
Settle(c)  == Move(c, {"acting"}, "settled") /\ UNCHANGED effects

Next == \E c \in Command : Request(c) \/ Revoke(c) \/ Close(c) \/ Begin(c) \/ Settle(c)

Spec == Init /\ [][Next]_abstractVars
===============================================================================
