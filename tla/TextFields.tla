---- MODULE TextFields ----
(***************************************************************************)
(* UITextField, the first responder and the keyboard (uikit/ui_view/       *)
(* ui_control/ui_text_field.rs, ui_responder.rs, ui_view.rs endEditing:,   *)
(* uikit.rs text input, window.rs text input).                             *)
(*                                                                         *)
(* becomeFirstResponder and resignFirstResponder call guest code in the    *)
(* middle: the delegate, and the observers of the keyboard notifications.  *)
(* That code may call them again, so that calls nest.                      *)
(***************************************************************************)
EXTENDS Integers, Sequences, SequencesExt

CONSTANTS
    Fields,         \* the text fields of a view
    noField,        \* nil
    MaxCallDepth,   \* bound: calls within calls
    MaxLength,      \* bound: characters of a text
    TextCareful     \* what this guest takes care of:
                    \*   "ends_once"  it ends no field's editing from a callback of its ending
                    \*   "holds"      it frees no field that is in a call

ASSUME TextFieldsAssumption ==
    /\ noField \notin Fields
    /\ MaxCallDepth \in Nat /\ MaxLength \in Nat
    /\ TextCareful \subseteq {"ends_once", "holds"}

VARIABLES
    alive,            \* the fields that are not deallocated
    editing,          \* UITextFieldHostObject.editing
    first_responder,
    text_input,       \* the window's text input, the keyboard
    text,             \* the length of the label's text, nilText when there is none
    calls,            \* the calls under way, the innermost last, each at a callback
    textPanic         \* a field that is gone was sent a message

keyboardVars == <<first_responder, text_input>>
textVars == <<alive, editing, keyboardVars, text, calls, textPanic>>

nilText == -1

TextInit ==
    /\ alive = Fields
    /\ editing = [f \in Fields |-> FALSE]
    /\ first_responder = noField /\ text_input = FALSE
    /\ text = [f \in Fields |-> nilText]
    /\ calls = <<>> /\ textPanic = FALSE

Call(op, f, at) == [op |-> op, field |-> f, at |-> at]
Goes(at) == calls' = [calls EXCEPT ![Len(calls)].at = at]
Returns == calls' = Front(calls)

\* Guest code runs outside, and in every callback; there it may make calls.
GuestMayCall == Len(calls) < MaxCallDepth

InCall(op, f) == \E i \in DOMAIN calls : calls[i].op = op /\ calls[i].field = f

---------------------------------------------------------------------------
(* The guest's calls, and the user's touch of a field.                     *)

\* - becomeFirstResponder, by the guest, or by touchesBegan: of the field,
\* whichever field edits.
becomeFirstResponder(f) ==
    /\ GuestMayCall /\ f \in alive /\ ~editing[f]
    /\ calls' = Append(calls, Call("begin", f, "should"))
    /\ UNCHANGED <<alive, editing, keyboardVars, text>>

\* - resignFirstResponder, by the guest, or by endEditing: of a view.
resignFirstResponder(f) ==
    /\ GuestMayCall /\ f \in alive /\ editing[f]
    /\ "ends_once" \in TextCareful => ~InCall("end", f)
    /\ calls' = Append(calls, Call("end", f, "should"))
    /\ UNCHANGED <<alive, editing, keyboardVars, text>>

\* endEditing: of a view above the field: it asks the first responder only.
endEditing ==
    /\ first_responder \in alive
    /\ resignFirstResponder(first_responder)

\* endEditing: with a first responder that is gone, and so the next key.
MessageToGone ==
    /\ first_responder \notin alive \cup {noField}
    /\ GuestMayCall
    /\ textPanic' = TRUE
    /\ UNCHANGED <<alive, editing, keyboardVars, text, calls>>

At(op, at) == calls # <<>> /\ Last(calls).op = op /\ Last(calls).at = at

\* The delegate's textFieldShouldBeginEditing: or textFieldShouldEndEditing: says no.
Refused ==
    /\ \/ At("begin", "should") \/ At("end", "should")
    /\ Returns
    /\ UNCHANGED <<alive, editing, keyboardVars, text>>

\* It says yes (or there is none): a nil text becomes empty, and
\* UIKeyboardWillShowNotification is posted.
BeginAllowed ==
    /\ At("begin", "should")
    /\ text' = [text EXCEPT ![Last(calls).field] = IF @ = nilText THEN 0 ELSE @]
    /\ Goes("will_show")
    /\ UNCHANGED <<alive, editing, keyboardVars>>

\* The field is the first responder and the keyboard is up; the field that was
\* first responder is not asked to resign, and goes on editing.
\* UIKeyboardDidShowNotification is posted.
ShowKeyboard ==
    /\ At("begin", "will_show")
    /\ first_responder' = Last(calls).field /\ text_input' = TRUE
    /\ Goes("did_show")
    /\ UNCHANGED <<alive, editing, text>>

\* It edits; textFieldDidBeginEditing: is called.
BeginEditing ==
    /\ At("begin", "did_show")
    /\ editing' = [editing EXCEPT ![Last(calls).field] = TRUE]
    /\ Goes("did_begin")
    /\ UNCHANGED <<alive, keyboardVars, text>>

\* A plausible slip: editing ends before the observers are told.
EndAllowedAtOnce ==
    /\ At("end", "should")
    /\ editing' = [editing EXCEPT ![Last(calls).field] = FALSE]
    /\ Goes("will_hide")
    /\ UNCHANGED <<alive, keyboardVars, text>>

\* UIKeyboardWillHideNotification is posted.
EndAllowed ==
    /\ At("end", "should")
    /\ Goes("will_hide")
    /\ UNCHANGED <<alive, editing, keyboardVars, text>>

\* There is no first responder, whichever it was, and the keyboard is down;
\* UIKeyboardDidHideNotification is posted.
HideKeyboard ==
    /\ At("end", "will_hide")
    /\ first_responder' = noField /\ text_input' = FALSE
    /\ Goes("did_hide")
    /\ UNCHANGED <<alive, editing, text>>

\* textFieldDidEndEditing: is called.
EndEditing ==
    /\ At("end", "did_hide")
    /\ editing' = [editing EXCEPT ![Last(calls).field] = FALSE]
    /\ Goes("did_end")
    /\ UNCHANGED <<alive, keyboardVars, text>>

\* The last callback returns.
Returned ==
    /\ At("begin", "did_begin") \/ At("end", "did_end") \/ At("key", "return")
    /\ Returns
    /\ UNCHANGED <<alive, editing, keyboardVars, text>>

\* setText: by the guest, to nil too
setText(f) ==
    /\ GuestMayCall /\ f \in alive
    /\ \E new \in {nilText, 0} : text' = [text EXCEPT ![f] = new]
    /\ UNCHANGED <<alive, editing, keyboardVars, calls>>

\* - dealloc: the first responder is left as it is.
dealloc(f) ==
    /\ GuestMayCall /\ f \in alive
    /\ "holds" \in TextCareful => \A i \in DOMAIN calls : calls[i].field # f
    /\ alive' = alive \ {f}
    /\ editing' = [editing EXCEPT ![f] = FALSE]
    /\ text' = [text EXCEPT ![f] = nilText]
    /\ UNCHANGED <<keyboardVars, calls>>

---------------------------------------------------------------------------
(* The user's keys go to the first responder (uikit.rs handle_events).     *)

KeyGoesTo(f) == calls = <<>> /\ text_input /\ first_responder = f /\ f \in alive

\* handle_text and handle_backspace, which the delegate may refuse
handle_text(f) ==
    /\ KeyGoesTo(f) /\ text[f] < MaxLength
    /\ text' = [text EXCEPT ![f] = (IF @ = nilText THEN 0 ELSE @) + 1]
    /\ UNCHANGED <<alive, editing, keyboardVars, calls>>

handle_backspace(f) ==
    /\ KeyGoesTo(f) /\ text[f] \notin {0, nilText}
    /\ text' = [text EXCEPT ![f] = @ - 1]
    /\ UNCHANGED <<alive, editing, keyboardVars, calls>>

\* handle_return: the delegate's textFieldShouldReturn:.
handle_return(f) ==
    /\ KeyGoesTo(f)
    /\ calls' = <<Call("key", f, "return")>>
    /\ UNCHANGED <<alive, editing, keyboardVars, text>>

TextNext ==
    /\ ~textPanic
    /\ \/ MessageToGone
       \/ /\ UNCHANGED textPanic
          /\ \/ \E f \in Fields :
                   \/ becomeFirstResponder(f) \/ resignFirstResponder(f)
                   \/ setText(f) \/ dealloc(f)
                   \/ handle_text(f) \/ handle_backspace(f) \/ handle_return(f)
             \/ endEditing
             \/ Refused \/ BeginAllowed \/ ShowKeyboard \/ BeginEditing
             \/ EndAllowed \/ HideKeyboard \/ EndEditing \/ Returned

TextSpec == TextInit /\ [][TextNext]_textVars

---------------------------------------------------------------------------

\* Whichever fields the user touches, and whatever delegates and observers begin
\* and end from within each other's callbacks: the keyboard is up exactly when
\* there is a first responder, keys go to a field that edits (between two calls,
\* and inside them but for the moment at which it takes over), and a field that
\* ends has no keyboard left when it says so.  The field may have been freed: the
\* first responder is kept without a reference.  That no other field edits is
\* not so (see ShowKeyboard): one that was replaced edits on without a keyboard.
KeysReachEditor ==
    /\ text_input = (first_responder # noField)
    /\ first_responder \in alive =>
          \/ editing[first_responder]
          \/ \E i \in DOMAIN calls : calls[i].field = first_responder /\ calls[i].at = "did_show"
    /\ \A i \in DOMAIN calls : calls[i].op = "end" /\ calls[i].at = "did_hide" => first_responder # calls[i].field
====
