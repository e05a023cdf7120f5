----------------------------- MODULE ViewerPanels -----------------------------
(******************************************************************************)
(* The page from which operators command the Viewers (ViewersPage.tsx with    *)
(* ViewerCommandPanel and ViewerRegistryPanel): two panels on one selection,  *)
(* fed by polls, with a first and a second click for what disturbs a Viewer.  *)
(* The server side of a command is ViewerCommandQueue's subject; here it is   *)
(* external: a row moves on, and refuses what its state forbids.              *)
(******************************************************************************)
EXTENDS Naturals, Sequences, FiniteSets

CONSTANTS
    Fleet,         \* the registered Viewers
    MaxCommands,   \* bound: commands of all Viewers
    MaxPresses     \* bound: what the operator does

Nobody == "nobody"
ASSUME FleetAssumption ==
    Nobody \notin Fleet /\ IsFiniteSet(Fleet) /\ MaxCommands \in Nat /\ MaxPresses \in Nat

Disruptive == {"restart_viewer", "restart_service"}
OfTheScreen == {"reload_live", "resubscribe_stream"}   \* need the app and its renderer
Actions == {"ping"} \cup OfTheScreen \cup Disruptive
Active == {"pending", "running"}
Rendering == {"ready", "dark"}   \* dark: the app renders but a camera is not received
PanelRequests == Actions \cup {"cancel", "delete", "remove", "label"}   \* what the panels ask of the server
Health == Rendering \cup {"degraded", "offline", "gone"}   \* degraded: the control channel only
Row == [viewer : Fleet, type : Actions, state : Active \cup {"finished", "cancelled", "deleted"}]

VARIABLES
    fleet,       \* server: the health of each Viewer, and the command rows
    page,        \* the page's copy of both
    form,        \* what the two panels hold
    mutations,   \* those in flight
    presses,
    meant        \* history: what first clicks asked for, since something else was selected

panelVars == <<fleet, page, form, mutations, presses, meant>>

PanelTypeOK ==
    /\ fleet \in [health : [Fleet -> Health], rows : Seq(Row)] /\ Len(fleet.rows) <= MaxCommands
    /\ page \in [health : [Fleet -> Health], rows : Seq(Row)]
    /\ form \in [viewer : Fleet \cup {Nobody}, type : Actions, stream : BOOLEAN,
                 armed : Disruptive \cup {"none"}, confirm : {"none", "cancel", "delete"}, row : 0..MaxCommands,
                 remove : BOOLEAN, label : Fleet \cup {Nobody}]
    /\ \A c \in mutations : c.what \in PanelRequests
                        /\ c.viewer \in Fleet /\ c.row \in 0..MaxCommands
    /\ presses \in 0..MaxPresses
    /\ \A m \in meant : m.what \in Disruptive \cup {"cancel", "delete", "remove"} /\ m.viewer \in Fleet

PanelInit ==
    /\ fleet = [health |-> [v \in Fleet |-> "ready"], rows |-> <<>>]
    /\ page = [health |-> [v \in Fleet |-> "gone"], rows |-> <<>>]
    /\ form = [viewer |-> Nobody, type |-> "ping", stream |-> FALSE, armed |-> "none",
               confirm |-> "none", row |-> 0, remove |-> FALSE, label |-> Nobody]
    /\ mutations = {} /\ presses = 0 /\ meant = {}

--------------------------------------------------------------------------------
\* The effects that run when the selection, or the row of the selected Viewer, changes.

\* a mutant: the form keeps what was armed for the Viewer selected before
SelectedKeeping(f, v) == [f EXCEPT !.viewer = v, !.stream = FALSE]

Selected(f, v) ==
    IF v = f.viewer THEN f
    ELSE [f EXCEPT !.viewer = v, !.armed = "none", !.confirm = "none", !.row = 0, !.stream = FALSE]

\* The registry reads the label of a Viewer again whenever its row is new.
RowRead(f, health) ==
    IF f.viewer = Nobody THEN f
    ELSE IF health[f.viewer] = "gone" THEN f ELSE [f EXCEPT !.label = f.viewer, !.remove = FALSE]

\* A poll that brings the selected Viewer's row as it was does not replace it.
ViewersPolled ==
    /\ page' = [page EXCEPT !.health = fleet.health]
    /\ \/ form' = RowRead(form, fleet.health)
       \/ form.viewer # Nobody /\ page.health[form.viewer] = fleet.health[form.viewer] /\ form' = form
    /\ UNCHANGED <<fleet, mutations, presses, meant>>

CommandsPolled ==
    /\ page.rows # fleet.rows
    /\ form.viewer # Nobody
    /\ page' = [page EXCEPT !.rows = fleet.rows]
    /\ UNCHANGED <<fleet, form, mutations, presses, meant>>

--------------------------------------------------------------------------------
\* The operator.
Presses == presses < MaxPresses /\ presses' = presses + 1

\* viewerCommandUnavailableReason is empty.
Available(type, stream) ==
    /\ form.viewer # Nobody
    /\ page.health[form.viewer] \in (IF type \in OfTheScreen THEN Rendering ELSE Rendering \cup {"degraded"})
    /\ type = "resubscribe_stream" => stream

Pending(kinds) == \E c \in mutations : c.what \in kinds

Meaning(what, row) == [what |-> what, viewer |-> form.viewer, row |-> row]
Without(kinds) == {m \in meant : m.what \notin kinds}

Asked(what, row) == mutations' = mutations \cup {[what |-> what, viewer |-> form.viewer, row |-> row, at |-> "sent"]}

\* Selecting in either panel; only a Viewer that is listed can be picked, or none.
SelectViewer(v) ==
    /\ Presses /\ v # form.viewer
    /\ IF v = Nobody THEN TRUE ELSE page.health[v] # "gone"
    /\ form' = RowRead(Selected(form, v), page.health)
    /\ meant' = {}
    /\ UNCHANGED <<fleet, page, mutations>>

\* Another action, another stream or another reason disarms.
SelectAction(type, stream) ==
    /\ Presses
    /\ stream => type = "resubscribe_stream" /\ form.viewer # Nobody
    /\ form' = [form EXCEPT !.type = type, !.stream = stream, !.armed = "none"]
    /\ meant' = Without(Disruptive)
    /\ UNCHANGED <<fleet, page, mutations>>

NeedsArming == form.type \in Disruptive /\ form.armed # form.type

Submit ==
    /\ Presses /\ Available(form.type, form.stream) /\ ~Pending(Actions)
    /\ IF NeedsArming
       THEN /\ form' = [form EXCEPT !.armed = form.type]
            /\ meant' = Without(Disruptive) \cup {Meaning(form.type, 0)}
            /\ UNCHANGED mutations
       ELSE Asked(form.type, 0) /\ UNCHANGED <<form, meant>>
    /\ UNCHANGED <<fleet, page>>

\* viewerCameraReceptionSummary: a camera is received by a Viewer that renders and
\* has reported progress of its stream lately.
Receives(health) == health = "ready"

\* The button of a camera that is not received, unless its command is under way.
RetryOffered ==
    /\ ~Receives(page.health[form.viewer]) /\ ~Pending(Actions)
    /\ \A i \in DOMAIN page.rows :
          page.rows[i].viewer = form.viewer /\ page.rows[i].type = "resubscribe_stream" =>
              page.rows[i].state \notin Active

RetryCamera ==
    /\ Presses /\ Available("resubscribe_stream", TRUE) /\ RetryOffered
    /\ form' = [form EXCEPT !.type = "resubscribe_stream", !.stream = TRUE, !.armed = "none"]
    /\ Asked("resubscribe_stream", 0)
    /\ meant' = Without(Disruptive)
    /\ UNCHANGED <<fleet, page>>

\* The two buttons of a row.
CommandActions(i) ==
    IF Pending({"cancel", "delete"}) THEN {}
    ELSE {a \in {"cancel", "delete"} :
             page.rows[i].state \in (IF a = "cancel" THEN {"pending"} ELSE {"pending", "cancelled"})}

RunConfirmed(action, i) ==
    /\ Presses /\ page.rows[i].viewer = form.viewer /\ action \in CommandActions(i)
    /\ IF form.confirm # action \/ form.row # i
       THEN /\ form' = [form EXCEPT !.confirm = action, !.row = i]
            /\ meant' = Without({"cancel", "delete"}) \cup {Meaning(action, i)}
            /\ UNCHANGED mutations
       ELSE Asked(action, i) /\ UNCHANGED <<form, meant>>
    /\ UNCHANGED <<fleet, page>>

DeleteSelectedViewer ==
    /\ Presses /\ form.viewer # Nobody /\ page.health[form.viewer] = "offline" /\ ~Pending({"remove"})
    /\ IF ~form.remove
       THEN /\ form' = [form EXCEPT !.remove = TRUE]
            /\ meant' = meant \cup {Meaning("remove", 0)}
            /\ UNCHANGED mutations
       ELSE Asked("remove", 0) /\ UNCHANGED <<form, meant>>
    /\ UNCHANGED <<fleet, page>>

SaveLabel ==
    /\ Presses /\ form.viewer # Nobody /\ ~Pending({"label"})
    /\ Asked("label", 0)
    /\ UNCHANGED <<fleet, page, form, meant>>

--------------------------------------------------------------------------------
\* The server answers, and the queries it made stale are read again.
Applied(c) ==
    CASE c.what \in Actions ->
            [fleet EXCEPT !.rows = Append(@, [viewer |-> c.viewer, type |-> c.what, state |-> "pending"])]
      [] c.what \in {"cancel", "delete"} ->
            [fleet EXCEPT !.rows[c.row].state = IF c.what = "cancel" THEN "cancelled" ELSE "deleted"]
      [] c.what = "remove" -> [fleet EXCEPT !.health[c.viewer] = "gone"]
      [] OTHER -> fleet

Accepted(c) ==
    CASE c.what \in Actions -> fleet.health[c.viewer] # "gone" /\ Len(fleet.rows) < MaxCommands
      [] c.what = "cancel" -> fleet.rows[c.row].state = "pending"
      [] c.what = "delete" -> fleet.rows[c.row].state \in {"pending", "cancelled"}
      [] c.what = "remove" -> fleet.health[c.viewer] = "offline"
      [] OTHER -> fleet.health[c.viewer] # "gone"

ServerApplies(c) ==
    /\ c.at = "sent" /\ Accepted(c)
    /\ fleet' = Applied(c)
    /\ mutations' = (mutations \ {c}) \cup {[c EXCEPT !.at = "done"]}
    /\ UNCHANGED <<page, form, presses, meant>>

ServerRejects(c) ==
    /\ c.at = "sent"
    /\ mutations' = (mutations \ {c}) \cup {[c EXCEPT !.at = "failed"]}
    /\ UNCHANGED <<fleet, page, form, presses, meant>>

\* What the callbacks of a mutation do to the form, whatever it holds by now.
Afterwards(f, c) ==
    CASE c.what \in Actions /\ c.at = "done" -> [f EXCEPT !.armed = "none"]
      [] c.what \in {"cancel", "delete"} -> [f EXCEPT !.confirm = "none", !.row = 0]
      [] c.what = "remove" ->
            LET g == [f EXCEPT !.remove = FALSE] IN IF c.at = "done" THEN Selected(g, Nobody) ELSE g
      [] OTHER -> f

MutationReturns(c) ==
    /\ c.at \in {"done", "failed"}
    /\ mutations' = mutations \ {c}
    /\ page' = IF c.at = "done" THEN fleet ELSE page
    /\ form' = Afterwards(IF c.at = "done" THEN RowRead(form, fleet.health) ELSE form, c)
    /\ UNCHANGED <<fleet, presses, meant>>

\* A Viewer comes and goes, and runs its commands.
HealthChanges(v, h) ==
    /\ presses < MaxPresses /\ presses' = presses + 1
    /\ fleet.health[v] # h /\ h # "gone"
    /\ fleet' = [fleet EXCEPT !.health[v] = h]
    /\ UNCHANGED <<page, form, mutations, meant>>

CommandMoves(i, s) ==
    /\ fleet.rows[i].state \in Active /\ s \in {"running", "finished"} /\ s # fleet.rows[i].state
    /\ fleet' = [fleet EXCEPT !.rows[i].state = s]
    /\ UNCHANGED <<page, form, mutations, presses, meant>>

PanelNext ==
    \/ ViewersPolled \/ CommandsPolled
    \/ \E v \in Fleet \cup {Nobody} : SelectViewer(v)
    \/ \E v \in Fleet, h \in Health : HealthChanges(v, h)
    \/ \E type \in Actions, stream \in BOOLEAN : SelectAction(type, stream)
    \/ Submit \/ RetryCamera \/ DeleteSelectedViewer \/ SaveLabel
    \/ \E i \in DOMAIN page.rows, action \in {"cancel", "delete"} : RunConfirmed(action, i)
    \/ \E c \in mutations : ServerApplies(c) \/ ServerRejects(c) \/ MutationReturns(c)
    \/ \E i \in DOMAIN fleet.rows, s \in {"running", "finished"} : CommandMoves(i, s)

PanelSpec == PanelInit /\ [][PanelNext]_panelVars

--------------------------------------------------------------------------------
\* What disturbs a Viewer or destroys a row leaves the page only as the second of two
\* clicks on the same thing, with nothing else selected in between, and a label is saved
\* only to the Viewer it was read from: neither a poll, nor the other panel, nor the end
\* of an earlier call can put a confirmation on something the operator did not confirm.
OnlyWhatWasConfirmed ==
    [][\A c \in mutations' \ mutations : c.at = "sent" =>
          /\ c.what \in Disruptive \cup {"cancel", "delete", "remove"} =>
                 [what |-> c.what, viewer |-> c.viewer, row |-> c.row] \in meant
          /\ c.what = "label" => form.label = c.viewer]_panelVars
===============================================================================
