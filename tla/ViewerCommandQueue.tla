-------------------------- MODULE ViewerCommandQueue --------------------------
(*****************************************************************************)
(* The server's durable command queue of one Viewer, the viewer_commands     *)
(* table.  Every operation is one statement or one transaction on the        *)
(* store's single writer connection, hence one atomic action.                *)
(*                                                                           *)
(* Time: serverLapsed holds the ids whose created_at + ttl_seconds is in     *)
(* the past on the server's clock.                                           *)
(*****************************************************************************)
EXTENDS ViewerCommands

VARIABLES commands, serverLapsed

queueVars == <<commands, serverLapsed>>

RowStates == {"absent", "pending", "delivered", "cancelled", "deleted"} \cup ResultStates
Rows == [type : CommandTypes \cup {"none"}, state : RowStates, code : Codes, key : Keys]

AbsentRow == [type |-> "none", state |-> "absent", code |-> "", key |-> NoKey]
Open == {"pending", "delivered"}

QueueInit ==
    /\ commands = [id \in Ids |-> AbsentRow]
    /\ serverLapsed = {}

\* AUTOINCREMENT: the next id is the lowest one never used.
NextId(id) ==
    /\ commands[id].state = "absent"
    /\ \A lower \in 1 .. id - 1 : commands[lower].state # "absent"

Insert(id, type) ==
    /\ NextId(id)
    /\ commands' = [commands EXCEPT ![id] = [AbsentRow EXCEPT !.type = type, !.state = "pending"]]
    /\ UNCHANGED serverLapsed

CreateOperatorViewerCommand(id, type) ==
    /\ type \in OperatorTypes
    /\ Insert(id, type)

\* One published release: a heartbeat makes its update command once and finds
\* it again afterwards, whatever became of it.
EnsureViewerUpdateCommand(id) ==
    /\ \A other \in Ids : commands[other].type # "update_app"
    /\ Insert(id, "update_app")

Lapse(id) ==
    /\ commands[id].state # "absent"
    /\ serverLapsed' = serverLapsed \cup {id}
    /\ UNCHANGED commands

-----------------------------------------------------------------------------
\* The delivery transaction: expire what is overdue, then hand out the oldest
\* open row, marking it delivered.
ExpiryOfPending ==   \* mutant: a delivered row never expires
    [id \in Ids |->
        IF commands[id].state = "pending" /\ id \in serverLapsed
        THEN [commands[id] EXCEPT !.state = "expired"]
        ELSE commands[id]]
AfterExpiry ==
    [id \in Ids |->
        IF commands[id].state \in Open /\ id \in serverLapsed
        THEN [commands[id] EXCEPT !.state = "expired"]
        ELSE commands[id]]

Deliverable == {id \in Ids : AfterExpiry[id].state \in Open}

DeliverAnyViewerCommand(id) ==   \* mutant: no ORDER BY id
    /\ id \in Deliverable
    /\ commands' = [AfterExpiry EXCEPT ![id] = [AfterExpiry[id] EXCEPT !.state = "delivered"]]
    /\ UNCHANGED serverLapsed
DeliverNextViewerCommand(id) ==
    /\ id \in Deliverable
    /\ \A other \in Deliverable : id <= other
    /\ commands' = [AfterExpiry EXCEPT ![id] = [AfterExpiry[id] EXCEPT !.state = "delivered"]]
    /\ UNCHANGED serverLapsed

DeliverNothing ==
    /\ Deliverable = {}
    /\ commands' = AfterExpiry
    /\ UNCHANGED serverLapsed

-----------------------------------------------------------------------------
\* The states a report may move a row from.
AnyUnfinishedState(state) == Open \cup {"acknowledged", "running"}   \* mutant
PreviousStates(state) ==
    CASE state = "acknowledged" -> Open
      [] state = "running"      -> Open \cup {"acknowledged"}
      [] OTHER                  -> Open \cup {"acknowledged", "running"}

Applies(id, result) ==
    /\ commands[id].state \in PreviousStates(result.state)
    /\ commands[id].key = NoKey \/ result.key = NoKey \/ commands[id].key = result.key

\* An exact repetition of the result already recorded is answered with success.
Repeats(id, result) ==
    /\ commands[id].state = result.state
    /\ commands[id].code = result.code
    /\ result.key = NoKey \/ commands[id].key = result.key

Accepted(id, result) == Applies(id, result) \/ Repeats(id, result)

ApplyViewerCommandResult(id, result) ==
    /\ commands' =
         IF Applies(id, result)
         THEN [commands EXCEPT ![id] =
                 [commands[id] EXCEPT !.state = result.state, !.code = result.code,
                                      !.key = IF result.key = NoKey THEN @ ELSE result.key]]
         ELSE commands
    /\ UNCHANGED serverLapsed

CancelDelivered(id) ==   \* mutant: a row already handed out may be cancelled
    /\ commands[id].state \in Open
    /\ commands' = [commands EXCEPT ![id] = [@ EXCEPT !.state = "cancelled"]]
    /\ UNCHANGED serverLapsed
CancelViewerCommand(id) ==
    /\ commands[id].state = "pending"
    /\ commands' = [commands EXCEPT ![id] = [@ EXCEPT !.state = "cancelled"]]
    /\ UNCHANGED serverLapsed

DeleteViewerCommand(id) ==
    /\ commands[id].state \in {"pending", "cancelled"}
    /\ commands' = [commands EXCEPT ![id] = [@ EXCEPT !.state = "deleted", !.code = ""]]
    /\ UNCHANGED serverLapsed

QueueTypeOK ==
    /\ commands \in [Ids -> Rows]
    /\ serverLapsed \subseteq Ids
===============================================================================
