---- MODULE Touches ----
(***************************************************************************)
(* From the user's hands to the app's views: SDL queues an event for every *)
(* press, movement and release (an external queue, the pump);              *)
(* Window::poll_for_events turns a batch of them into touch events of      *)
(* named fingers, several inputs of a desktop computer (mouse, pinch with  *)
(* Shift, buttons, direction pad, sticks) standing in for a touch screen;  *)
(* UIKit's handle_events pops these and keeps the touches in progress.     *)
(*                                                                         *)
(* A place on the screen is the view a hit test finds there, or nowhere.   *)
(***************************************************************************)
EXTENDS Integers, Sequences, FiniteSets, SequencesExt

CONSTANTS TouchFingers,     \* fingers a touch screen reports
          Pads,             \* directions of the direction pad, mapped as one
          Keys,             \* controller buttons mapped to a touch each
          TouchViews, MultiTouch,   \* views, and those with multi-touch enabled
          nowhere,
          Desks,            \* the sets of inputs a user may have at hand
          MaxPump, MaxQueue \* bounds on the events that wait in SDL's queue and,
                            \* before another poll, in the window's

\* Inputs of a desktop computer, and the fingers that some of them stand for.
NamedInputs == {"mouse", "shift", "stick", "cursor"}
NamedFingers ==
    {"Mouse", "VirtualCursor", "StickToTouch", "DpadToTouch", "PinchFinger1", "PinchFinger2"}

ASSUME TouchAssumption ==
    /\ MultiTouch \subseteq TouchViews /\ nowhere \notin TouchViews
    /\ TouchFingers \cap Pads = {} /\ TouchFingers \cap Keys = {} /\ Pads \cap Keys = {}
    /\ (TouchFingers \cup Pads \cup Keys)
         \cap (NamedInputs \cup NamedFingers \cup {"controller", "system"}) = {}
    /\ \A d \in Desks : /\ IsFiniteSet(d)
                         /\ d \subseteq TouchFingers \cup Pads \cup Keys \cup NamedInputs

VARIABLES pump,     \* SDL's queue of events
          desk,     \* the inputs this user has
          held,     \* the inputs the user holds down now
          plugged,  \* whether the controller is connected
          win,      \* the Window: its queue and what it remembers of its inputs
          touches,  \* current_touches: finger -> its view, or nowhere
          inputPanic, exited

touchVars == <<pump, desk, held, plugged, win, touches, inputPanic, exited>>

Places == TouchViews \cup {nowhere}
Fingers == NamedFingers \cup TouchFingers \cup Keys
onController == Pads \cup Keys \cup {"stick", "cursor"}

NewWindow ==
    [queue |-> <<>>, high |-> "none", polling |-> TRUE, gathering |-> FALSE,
     pads |-> {}, padActive |-> FALSE, stickActive |-> FALSE, cursor |-> FALSE,
     pinch |-> FALSE, controllers |-> FALSE, updated |-> FALSE, rest |-> <<>>]

TouchInit ==
    /\ pump = <<>> /\ desk \in Desks /\ held = {} /\ plugged = FALSE
    /\ win = NewWindow
    /\ touches = <<>>
    /\ inputPanic = FALSE /\ exited = FALSE

-----------------------------------------------------------------------------
(* SDL and the user (external).                                            *)

\* An event: what happened to which input, where, and whether it has the same
\* time stamp as the event before it.
sdl(what, input, at, same) == [what |-> what, input |-> input, at |-> at, same |-> same]

Room(n) == Len(pump) + n <= MaxPump /\ ~exited

\* SDL reports a controller's inputs once the window has opened it.
MayPress(i) == i \in onController => plugged /\ win.controllers

Press ==
    \E i \in desk \ held, p \in Places, same \in BOOLEAN :
        /\ Room(1) /\ MayPress(i)
        /\ same => i \in TouchFingers /\ pump # <<>>
        /\ i \notin TouchFingers \cup {"mouse"} => p = nowhere
        /\ held' = held \cup {i}
        /\ pump' = IF i = "shift" THEN pump ELSE Append(pump, sdl("down", i, p, same))
        /\ UNCHANGED <<desk, plugged, win, touches, inputPanic, exited>>

Drag ==
    \E i \in held \cap (TouchFingers \cup {"mouse"}), same \in BOOLEAN :
        /\ Room(1) /\ (same => i \in TouchFingers /\ pump # <<>>)
        /\ pump' = Append(pump, sdl("move", i, nowhere, same))
        /\ UNCHANGED <<desk, held, plugged, win, touches, inputPanic, exited>>

Release ==
    \E i \in held, same \in BOOLEAN :
        /\ Room(1) /\ (same => i \in TouchFingers /\ pump # <<>>)
        /\ held' = held \ {i}
        /\ pump' = IF i = "shift" THEN pump ELSE Append(pump, sdl("up", i, nowhere, same))
        /\ UNCHANGED <<desk, plugged, win, touches, inputPanic, exited>>

Plug ==
    /\ desk \cap onController # {} /\ ~plugged /\ ~win.controllers /\ Room(1)
    /\ plugged' = TRUE
    /\ pump' = Append(pump, sdl("added", "controller", nowhere, FALSE))
    /\ UNCHANGED <<desk, held, win, touches, inputPanic, exited>>

\* SDL releases what is held on a controller before it reports it removed.
Unplug ==
    LET still == held \cap onController
        ups == SetToSeq({sdl("up", i, nowhere, FALSE) : i \in still})
    IN  /\ plugged /\ win.controllers /\ Room(Len(ups) + 1)
        /\ plugged' = FALSE
        /\ held' = held \ still
        /\ pump' = pump \o Append(ups, sdl("removed", "controller", nowhere, FALSE))
        /\ UNCHANGED <<desk, win, touches, inputPanic, exited>>

\* The window is closed, the system suspends or ends the app, or F12 is pressed.
SystemEvent ==
    \E what \in {"quit", "background", "terminating", "F12"} :
        /\ Room(1)
        /\ pump' = Append(pump, sdl(what, "system", nowhere, FALSE))
        /\ UNCHANGED <<desk, held, plugged, win, touches, inputPanic, exited>>

-----------------------------------------------------------------------------
(* Window::poll_for_events                                                 *)

Touched(kind, fingers, at) == [kind |-> kind, at |-> [f \in fingers |-> at]]
Queued(w, e) == [w EXCEPT !.queue = Append(@, e), !.gathering = FALSE]

\* A plausible slip: Shift is looked at again when the button is released.
OfMouseShiftAgain(w, e, shift) ==
    LET fingers == IF shift THEN {"PinchFinger1", "PinchFinger2"} ELSE {"Mouse"}
    IN  [Queued(w, Touched(e.what, fingers, e.at)) EXCEPT !.pinch = shift]

\* The left mouse button: with Shift held when it goes down it is two fingers.
OfMouse(w, e, shift) ==
    LET pinching == IF e.what = "down" THEN shift ELSE w.pinch
        fingers == IF pinching THEN {"PinchFinger1", "PinchFinger2"} ELSE {"Mouse"}
    IN  [Queued(w, Touched(e.what, fingers, e.at))
            EXCEPT !.pinch = IF e.what = "up" THEN FALSE ELSE pinching]

\* The four directions move one finger.
OfPad(w, e) ==
    LET dirs == IF e.what = "down" THEN w.pads \cup {e.input} ELSE w.pads \ {e.input}
        kind == IF dirs = {} THEN "up" ELSE IF w.padActive THEN "move" ELSE "down"
        w2 == [w EXCEPT !.pads = dirs, !.padActive = dirs # {}, !.updated = TRUE, !.gathering = FALSE]
    IN  IF dirs = {} /\ ~w.padActive THEN w2
        ELSE Queued(w2, Touched(kind, {"DpadToTouch"}, nowhere))

\* The left stick: its position is read now, whatever the event said.
OfStick(w, e, out) ==
    LET w2 == [w EXCEPT !.stickActive = out, !.updated = TRUE, !.gathering = FALSE]
        kind == IF ~out THEN "up" ELSE IF w.stickActive THEN "move" ELSE "down"
    IN  IF ~out /\ ~w.stickActive THEN w2
        ELSE Queued(w2, Touched(kind, {"StickToTouch"}, nowhere))

\* Events of fingers with the same kind and time stamp become one touch event.
OfFinger(w, e) ==
    IF w.gathering /\ e.same /\ Last(w.queue).kind = e.what
    THEN [w EXCEPT !.queue[Len(w.queue)].at =
             [f \in DOMAIN @ \cup {e.input} |-> IF f = e.input THEN e.at ELSE @[f]]]
    ELSE [Queued(w, Touched(e.what, {e.input}, e.at)) EXCEPT !.gathering = TRUE]

\* Suspension and termination overtake the queue and stop the polling.
OfSystem(w, e) ==
    CASE e.what = "quit" -> Queued(w, [kind |-> "quit"])
      [] e.what = "F12" -> Queued(w, [kind |-> "debugger"])
      [] OTHER -> [w EXCEPT !.high = e.what, !.polling = FALSE, !.gathering = FALSE]

PollEvent(w, e, now) ==
    IF ~w.polling THEN [w EXCEPT !.rest = Append(@, e)]
    ELSE CASE e.input = "mouse" -> OfMouse(w, e, "shift" \in now)
           [] e.input \in Pads -> OfPad(w, e)
           [] e.input \in Keys -> [Queued(w, Touched(e.what, {e.input}, nowhere)) EXCEPT !.updated = TRUE]
           [] e.input = "stick" -> OfStick(w, e, w.controllers /\ "stick" \in now)
           [] e.input = "cursor" -> [w EXCEPT !.updated = TRUE, !.gathering = FALSE]
           [] e.input = "controller" -> [w EXCEPT !.controllers = (e.what = "added"), !.gathering = FALSE]
           [] e.input = "system" -> OfSystem(w, e)
           [] OTHER -> OfFinger(w, e)

\* After a batch with controller events: the virtual cursor, as it is now.
UpdateVirtualCursor(w, now) ==
    LET pressed == w.controllers /\ "cursor" \in now
        w2 == [w EXCEPT !.cursor = pressed]
    IN  IF ~w.updated \/ pressed = w.cursor THEN w2
        ELSE Queued(w2, Touched(IF pressed THEN "down" ELSE "up", {"VirtualCursor"}, nowhere))

PollForEvents ==
    /\ ~exited /\ pump # <<>> /\ win.polling /\ Len(win.queue) <= MaxQueue
    /\ LET polled[k \in 0..Len(pump)] ==
               IF k = 0 THEN [win EXCEPT !.updated = FALSE, !.gathering = FALSE]
               ELSE PollEvent(polled[k - 1], pump[k], held)
           w == polled[Len(pump)]
       IN  /\ win' = [UpdateVirtualCursor(w, held) EXCEPT !.rest = <<>>, !.updated = FALSE,
                                                           !.gathering = FALSE]
           /\ pump' = w.rest
           /\ inputPanic' = (inputPanic \/ (w.high # "none" /\ win.high # "none"))
    /\ UNCHANGED <<desk, held, plugged, touches, exited>>

-----------------------------------------------------------------------------
(* ui_touch.rs: the touches in progress                                    *)

\* Which of the new touches each view takes: all of them when it has
\* multi-touch enabled, otherwise one, and that only if it has none already.
Assignments(ts, at) ==
    {v \in [DOMAIN at -> Places] :
        /\ \A f \in DOMAIN at : v[f] \in {nowhere, at[f]}
        /\ \A view \in TouchViews :
             LET here == {f \in DOMAIN at : at[f] = view}
                 taken == {f \in here : v[f] = view}
                 busy == \E f \in DOMAIN ts : ts[f] = view
             IN  IF view \in MultiTouch THEN taken = here
                 ELSE Cardinality(taken) = IF here = {} \/ busy THEN 0 ELSE 1}

\* A finger that is down already is taken for a movement of the only touch.
HandleTouchesDown(at) ==
    IF DOMAIN at \cap DOMAIN touches # {}
    THEN /\ inputPanic' = (inputPanic \/ Cardinality(DOMAIN touches) # 1)
         /\ UNCHANGED touches
    ELSE /\ \E v \in Assignments(touches, at) :
              touches' = [f \in DOMAIN at \cup DOMAIN touches |->
                            IF f \in DOMAIN at THEN v[f] ELSE touches[f]]
         /\ UNCHANGED inputPanic

\* Movements change where a touch is, not whose it is; those of a finger
\* without a touch are ignored.
HandleTouchesMove(at) == UNCHANGED <<touches, inputPanic>>

HandleTouchesUp(at) ==
    /\ touches' = [f \in DOMAIN touches \ DOMAIN at |-> touches[f]]
    /\ UNCHANGED inputPanic

\* UIKit's handle_events pops one event: the urgent one first.
HandleEvent ==
    /\ ~exited /\ (win.high # "none" \/ win.queue # <<>>)
    /\ UNCHANGED <<pump, desk, held, plugged>>
    /\ IF win.high # "none"
       THEN /\ win' = [win EXCEPT !.high = "none"]
            /\ exited' = TRUE /\ UNCHANGED <<touches, inputPanic>>
       ELSE LET e == Head(win.queue)
            IN  /\ win' = [win EXCEPT !.queue = Tail(@)]
                /\ exited' = (e.kind = "quit")
                /\ CASE e.kind = "down" -> HandleTouchesDown(e.at)
                     [] e.kind = "move" -> HandleTouchesMove(e.at)
                     [] e.kind = "up" -> HandleTouchesUp(e.at)
                     [] OTHER -> UNCHANGED <<touches, inputPanic>>

TouchesNext ==
    \/ Press \/ Drag \/ Release \/ Plug \/ Unplug \/ SystemEvent
    \/ PollForEvents \/ HandleEvent

TouchesSpec == TouchInit /\ [][TouchesNext]_touchVars

-----------------------------------------------------------------------------
(* Properties                                                              *)

\* Once everything the user did has been handled, the touches in progress are
\* exactly the inputs that are held: however presses, releases and the Shift
\* key fall into batches, no finger is left behind on the screen (stuck) and
\* none is forgotten; and none of the assertions of poll_for_events and
\* handle_touches_down fails on the way.
TouchesMatchInput ==
    /\ ~inputPanic
    /\ pump = <<>> /\ win.queue = <<>> /\ win.polling /\ ~exited =>
         LET mouse == IF "mouse" \notin held THEN {{}}
                      ELSE {{"Mouse"}, {"PinchFinger1", "PinchFinger2"}}
             rest == (held \cap (TouchFingers \cup Keys))
                       \cup (IF held \cap Pads # {} THEN {"DpadToTouch"} ELSE {})
                       \cup (IF "stick" \in held THEN {"StickToTouch"} ELSE {})
                       \cup (IF "cursor" \in held THEN {"VirtualCursor"} ELSE {})
         IN  \E m \in mouse : DOMAIN touches = m \cup rest

\* A view that has not enabled multi-touch never has two touches in progress,
\* whether they begin together or one after the other (handle_touches_down).
OneTouchPerView ==
    \A f, g \in DOMAIN touches :
        touches[f] = touches[g] /\ touches[f] \in TouchViews \ MultiTouch => f = g

\* The app's touches are the user's: none stuck, lost or given to a view that
\* takes one at a time and has one.
TouchesRight == TouchesMatchInput /\ OneTouchPerView
====
