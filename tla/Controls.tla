---- MODULE Controls ----
(***************************************************************************)
(* UIControl and two of its subclasses, UIButton and UISwitch              *)
(* (uikit/ui_view/ui_control.rs, ui_control/ui_button.rs,                  *)
(* ui_control/ui_switch.rs): a control follows one touch at a time, sends  *)
(* its targets the actions that the touch asks for, and shows its state.   *)
(*                                                                         *)
(* The targets are guest code, called one after the other from a copy of   *)
(* the list: each may change the control before the next is called.  It    *)
(* never calls setHighlighted: and runs no run loop within an action.      *)
(***************************************************************************)
EXTENDS Integers, Sequences, FiniteSets, TLC

CONSTANTS
    Contents,       \* what a button shows: its titles, their colours, its images, backgrounds
    Looks,          \* the values these have
    MaxTargets,     \* bound: targets the guest adds
    MaxTouchesOn    \* bound: touches that are followed

VARIABLES
    kind,       \* "button" or "switch": what the control is
    control,    \* UIControlHostObject: enabled, selected, highlighted, tracking, tracked_touch
    targets,    \* action_targets: who, and for which events
    sending,    \* the actions of the copied list that are still to be sent
    for_states, \* UIButton: titles_for_states and the like
    shown,      \* UIButton: what its label and its image views show
    is_on,      \* UISwitch
    thumb_on,   \* UISwitch: the side its thumb and its label are on
    touch,      \* the touch on the control: its number, 0 when there is none, and
                \* whether it was and is inside
    touched,    \* how many touches there have been
    believed    \* what the guest takes the switch to be: it reads isOn when it adds a target
                \* for its changes, and when it is told of one

controlVars == <<kind, control, targets, sending, for_states, shown, is_on, thumb_on,
                 touch, touched, believed>>
lookVars == <<for_states, shown>>
switchVars == <<is_on, thumb_on>>

noLook == "none"

\* - (UIControlState)state
StateOf(c) ==
    (IF c.highlighted THEN {"highlighted"} ELSE {}) \cup
    (IF c.enabled THEN {} ELSE {"disabled"}) \cup
    (IF c.selected THEN {"selected"} ELSE {})

\* titleForState: and the like: what was set for the state, else for the
\* normal one.
ForState(table, state) == IF state \in DOMAIN table THEN table[state] ELSE table[{}]

\* update of ui_button.rs
UpdateButton(c, tables) == [x \in Contents |-> ForState(tables[x], StateOf(c))]

NoTouch == [n |-> 0, was |-> FALSE, is |-> FALSE]

\* The switch's own target is the first.
ControlInit ==
    /\ kind \in {"button", "switch"}
    /\ control = [enabled |-> TRUE, selected |-> FALSE, highlighted |-> FALSE,
                  tracking |-> FALSE, tracked_touch |-> 0]
    /\ targets = IF kind = "switch" THEN <<[who |-> "flip", events |-> {"up_inside"}]>> ELSE <<>>
    /\ sending = <<>>
    /\ for_states = [x \in Contents |-> ({} :> noLook)]
    /\ shown = UpdateButton(control, for_states)
    /\ is_on = FALSE /\ thumb_on = FALSE
    /\ touch = NoTouch /\ touched = 0
    /\ believed = FALSE

\* setEnabled:, setSelected: and setHighlighted: of the subclasses: UIControl's,
\* then update.
SetControl(c) ==
    /\ control' = c
    /\ shown' = IF kind = "button" THEN UpdateButton(c, for_states) ELSE shown
    /\ thumb_on' = IF kind = "switch" THEN is_on ELSE thumb_on
    /\ UNCHANGED <<for_states, is_on>>

\* send_actions: the copied list, filtered by the event.
Actions(event) ==
    LET Taken[n \in 0 .. Len(targets)] ==
            IF n = 0 THEN <<>>
            ELSE IF event \in targets[n].events
            THEN Append(Taken[n - 1], [who |-> targets[n].who, event |-> event])
            ELSE Taken[n - 1]
    IN  Taken[Len(targets)]

---------------------------------------------------------------------------
(* Touches (ui_touch.rs sends them, one at a time to a view that takes no  *)
(* multiple touches).                                                      *)

Idle == sending = <<>>

\* - touchesBegan:withEvent: (a subclass may refuse to track)
touchesBegan ==
    /\ Idle /\ touch.n = 0 /\ touched < MaxTouchesOn
    /\ touched' = touched + 1
    /\ touch' = [n |-> touched + 1, was |-> TRUE, is |-> TRUE]
    /\ \/ UNCHANGED <<control, lookVars, switchVars, sending>>
       \/ /\ control.enabled
          /\ SetControl([control EXCEPT !.tracking = TRUE, !.tracked_touch = touched + 1,
                                        !.highlighted = TRUE])
          /\ sending' = Actions("down")
    /\ UNCHANGED <<kind, targets, believed>>

Drag(was, is) ==
    CASE was /\ is -> "drag_inside"
      [] ~was /\ ~is -> "drag_outside"
      [] ~was /\ is -> "drag_enter"
      [] was /\ ~is -> "drag_exit"

\* - touchesMoved:withEvent: (a subclass may give the touch up)
touchesMoved ==
    /\ Idle /\ touch.n # 0
    /\ \E is \in BOOLEAN :
          /\ touch' = [touch EXCEPT !.was = touch.is, !.is = is]
          /\ IF control.enabled /\ control.tracked_touch = touch.n
             THEN /\ \/ UNCHANGED <<control, lookVars, switchVars>>
                     \/ SetControl([control EXCEPT !.tracked_touch = 0, !.tracking = FALSE,
                                                   !.highlighted = FALSE])
                  /\ sending' = Actions(Drag(touch.is, is))
             ELSE UNCHANGED <<control, lookVars, switchVars, sending>>
    /\ UNCHANGED <<kind, targets, touched, believed>>

\* A plausible slip: the end of a touch is ignored, as its moves are, while
\* the control is disabled.
touchesEndedEnabled ==
    /\ Idle /\ touch.n # 0
    /\ touch' = NoTouch
    /\ IF control.enabled /\ control.tracked_touch = touch.n
       THEN /\ SetControl([control EXCEPT !.tracking = FALSE, !.tracked_touch = 0,
                                          !.highlighted = FALSE])
            /\ sending' = Actions(IF touch.is THEN "up_inside" ELSE "up_outside")
       ELSE UNCHANGED <<control, lookVars, switchVars, sending>>
    /\ UNCHANGED <<kind, targets, touched, believed>>

\* - touchesEnded:withEvent:
touchesEnded ==
    /\ Idle /\ touch.n # 0
    /\ touch' = NoTouch
    /\ IF control.tracked_touch = touch.n
       THEN /\ SetControl([control EXCEPT !.tracking = FALSE, !.tracked_touch = 0,
                                          !.highlighted = FALSE])
            /\ sending' = Actions(IF touch.is THEN "up_inside" ELSE "up_outside")
       ELSE UNCHANGED <<control, lookVars, switchVars, sending>>
    /\ UNCHANGED <<kind, targets, touched, believed>>

---------------------------------------------------------------------------
(* - sendAction:to:forEvent:, for the next of the copied list.             *)

\* A guest's target: it is told the switch's value by reading isOn.
SendToGuest ==
    /\ sending # <<>> /\ Head(sending).who = "guest"
    /\ sending' = Tail(sending)
    /\ believed' = IF Head(sending).event = "value" THEN is_on ELSE believed
    /\ UNCHANGED <<kind, control, targets, lookVars, switchVars, touch, touched>>

\* - _touchHLE_flipAction:forEvent:, the switch's own target: it changes, then
\* tells those who want to know of its value.
Flip ==
    /\ sending # <<>> /\ Head(sending).who = "flip"
    /\ sending' = Actions("value") \o Tail(sending)
    /\ is_on' = ~is_on /\ thumb_on' = ~is_on
    /\ UNCHANGED <<kind, control, targets, lookVars, touch, touched, believed>>

---------------------------------------------------------------------------
(* The guest's calls, within an action or not.                             *)

addTarget(events) ==
    /\ Len(targets) < MaxTargets + (IF kind = "switch" THEN 1 ELSE 0)
    /\ targets' = Append(targets, [who |-> "guest", events |-> events])
    /\ believed' = IF "value" \in events THEN is_on ELSE believed
    /\ UNCHANGED <<kind, control, sending, lookVars, switchVars, touch, touched>>

setEnabled(yes) ==
    /\ SetControl([control EXCEPT !.enabled = yes])
    /\ UNCHANGED <<kind, targets, sending, touch, touched, believed>>

setSelected(yes) ==
    /\ SetControl([control EXCEPT !.selected = yes])
    /\ UNCHANGED <<kind, targets, sending, touch, touched, believed>>

\* setTitle:forState: and the like
SetForState(x, look, state) ==
    /\ kind = "button"
    /\ for_states' = [for_states EXCEPT ![x] = (state :> look) @@ @]
    /\ shown' = UpdateButton(control, for_states')
    /\ UNCHANGED <<kind, control, targets, sending, switchVars, touch, touched, believed>>

\* setOn:animated:
setOn(yes) ==
    /\ kind = "switch"
    /\ is_on' = yes /\ thumb_on' = yes
    /\ believed' = yes
    /\ UNCHANGED <<kind, control, targets, sending, lookVars, touch, touched>>

ControlNext ==
    \/ touchesBegan \/ touchesMoved \/ touchesEnded
    \/ SendToGuest \/ Flip
    \/ \E events \in {{"up_inside"}, {"down", "drag_exit"}, {"value"}} : addTarget(events)
    \/ \E yes \in BOOLEAN : setEnabled(yes) \/ setSelected(yes) \/ setOn(yes)
    \/ \E x \in Contents, look \in Looks, state \in {{}, {"highlighted"}, {"disabled"}} :
          SetForState(x, look, state)

\* A control by itself.
ControlsSpec == ControlInit /\ [][ControlNext]_controlVars

---------------------------------------------------------------------------

\* Once the finger is lifted the control neither tracks a touch nor looks
\* pressed, even if it was disabled in between; a button shows what its
\* current state calls for, a switch the side it is on; and a guest that asks
\* to be told of a switch's changes knows its value (touchesEnded, update).
ControlsFollowTouches ==
    /\ control.tracking = (control.tracked_touch # 0)
    /\ control.highlighted = control.tracking
    /\ control.tracked_touch \in {0, touch.n}
    /\ kind = "button" =>
          \A x \in Contents : shown[x] = ForState(for_states[x], StateOf(control))
    /\ thumb_on = is_on
    /\ \/ \A i \in DOMAIN targets : "value" \notin targets[i].events
       \/ \E i \in DOMAIN sending : sending[i].event = "value"
       \/ believed = is_on
====
