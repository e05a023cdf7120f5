---------------------------- MODULE ViewerCommands ----------------------------
(*****************************************************************************)
(* Vocabulary shared by the two ends of the Viewer remote-control protocol:  *)
(* the server's command queue (internal/store/viewer_commands.go) and the    *)
(* Windows Viewer Service's command engine (internal/viewerservice).         *)
(*                                                                           *)
(* One registered Viewer is modelled; rows of different Viewers never        *)
(* interact.  A payload hash is a function of the payload, and the payloads  *)
(* the properties tell apart differ by command type, so the type stands for  *)
(* the hash.                                                                 *)
(*****************************************************************************)
EXTENDS Naturals, Sequences, FiniteSets

CONSTANTS
    MaxCommands,    \* how many rows the queue may ever hold (bounds the ids)
    CommandTypes    \* the command types in play

ASSUME MaxCommandsAssumption == MaxCommands \in Nat \ {0}

Ids == 1 .. MaxCommands

\* The operator surface; "update_app" is the only type made internally.
OperatorTypes ==
    {"ping", "reload_live", "resubscribe_stream", "restart_viewer", "restart_service"}

ASSUME CommandTypesAssumption == CommandTypes \subseteq OperatorTypes \cup {"update_app"}

Terminal     == {"succeeded", "failed", "rejected", "expired"}
ResultStates == {"acknowledged", "running"} \cup Terminal

\* Fixed error categories; "" is no error.
Codes == {"", "command_expired", "command_payload_changed", "command_interrupted",
          "unsupported_command", "execution_failed", "viewer_unavailable",
          "command_journal_unavailable"}

\* Operation keys: command-<id> or service-generation-<boot>.
Keys  == {"none", "command", "service-generation"} \X Nat
NoKey == <<"none", 0>>

\* The body of a result report.
Results == [state : ResultStates, code : Codes, key : Keys]
Result(s, c, k) == [state |-> s, code |-> c, key |-> k]
===============================================================================
