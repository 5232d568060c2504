----------------------------- MODULE GuestProofs -----------------------------
(***************************************************************************)
(* What TLAPS proves of services that the app calls: text fields and the   *)
(* keyboard (TextFields), the contexts, drawables and frames of OpenGL     *)
(* (Gles), the linking of the functions it imports (Dyld), the             *)
(* notification centre (Notifications), and controls (Controls).           *)
(***************************************************************************)
EXTENDS TextFields, Gles, Dyld, Notifications, Controls, SequenceLemmas

-----------------------------------------------------------------------------
(* Text fields and the keyboard                                            *)

Ops == {"begin", "end", "key"}
BeginStages == {"should", "will_show", "did_show", "did_begin"}
EndStages == {"should", "will_hide", "did_hide", "did_end"}
CallRecord == [op : Ops, field : Fields, at : BeginStages \cup EndStages \cup {"return"}]

TextTypeOK ==
    /\ alive \in SUBSET Fields
    /\ editing \in [Fields -> BOOLEAN]
    /\ first_responder \in Fields \cup {noField} /\ text_input \in BOOLEAN
    /\ calls \in Seq(CallRecord)
    /\ \A i \in 1 .. Len(calls) :
          /\ calls[i].op = "begin" => calls[i].at \in BeginStages
          /\ calls[i].op = "end" => calls[i].at \in EndStages
          /\ calls[i].op = "key" => calls[i].at = "return"

\* The calls under way: a field that is about to end edits, no field is in two
\* calls that end it, and none begins from a callback of its ending.
CallsInv ==
    /\ \A i \in 1 .. Len(calls) :
          calls[i].op = "end" /\ calls[i].at # "did_end" => editing[calls[i].field]
    /\ \A i, j \in 1 .. Len(calls) :
          calls[i].op = "end" /\ calls[j].op = "end" /\ calls[i].field = calls[j].field => i = j
    /\ \A i, j \in 1 .. Len(calls) :
          calls[i].op = "end" /\ calls[i].at # "did_end" /\ calls[j].op = "begin"
             /\ calls[i].field = calls[j].field => j < i

TakesOver(i) == calls[i].field = first_responder /\ calls[i].at = "did_show"

KeyboardInv ==
    /\ text_input = (first_responder # noField)
    /\ first_responder \in alive =>
          editing[first_responder] \/ \E i \in 1 .. Len(calls) : TakesOver(i)
    /\ \A i \in 1 .. Len(calls) :
          calls[i].op = "end" /\ calls[i].at = "did_hide" => first_responder # calls[i].field

TextInv == TextTypeOK /\ CallsInv /\ KeyboardInv

\* A call begins: it is the innermost one.
LEMMA CallBegins ==
  ASSUME TextTypeOK, NEW f \in Fields, NEW op \in Ops,
         NEW stage \in BeginStages \cup EndStages \cup {"return"},
         op = "begin" => stage \in BeginStages, op = "end" => stage \in EndStages, op = "key" => stage = "return",
         calls' = Append(calls, Call(op, f, stage))
  PROVE  /\ calls' \in Seq(CallRecord) /\ calls' # <<>> /\ Len(calls) \in Nat
         /\ Len(calls') = Len(calls) + 1 /\ Last(calls') = calls'[Len(calls')]
         /\ \A i \in 1 .. Len(calls) : calls'[i] = calls[i]
         /\ calls'[Len(calls')] = [op |-> op, field |-> f, at |-> stage]
         /\ \A i \in 1 .. Len(calls') :
               /\ calls'[i].op = "begin" => calls'[i].at \in BeginStages
               /\ calls'[i].op = "end" => calls'[i].at \in EndStages
               /\ calls'[i].op = "key" => calls'[i].at = "return"
<1> DEFINE c == [op |-> op, field |-> f, at |-> stage]
<1>1. c \in CallRecord /\ calls' = Append(calls, c)
  BY DEF CallRecord, Call
<1>2. calls \in Seq(CallRecord)
  BY DEF TextTypeOK
<1>3. /\ calls' \in Seq(CallRecord) /\ calls' # <<>> /\ Len(calls) \in Nat
      /\ Len(calls') = Len(calls) + 1 /\ Last(calls') = c /\ calls'[Len(calls) + 1] = c
      /\ \A i \in 1 .. Len(calls) : calls'[i] = calls[i]
  <2> HIDE DEF c
  <2> QED BY <1>1, <1>2, Pushed
<1>4. \A i \in 1 .. Len(calls') : i \in 1 .. Len(calls) \/ calls'[i] = c
  BY <1>3
<1> QED BY <1>3, <1>4 DEF TextTypeOK

\* The innermost call goes on to its next callback.
LEMMA CallGoesOn ==
  ASSUME TextTypeOK, calls # <<>>, NEW stage \in BeginStages \cup EndStages,
         Last(calls).op = "begin" => stage \in BeginStages, Last(calls).op = "end" => stage \in EndStages,
         Last(calls).op # "key", Goes(stage)
  PROVE  /\ calls' \in Seq(CallRecord) /\ calls' # <<>> /\ Len(calls) \in Nat \ {0}
         /\ Last(calls) = calls[Len(calls)] /\ calls[Len(calls)].field \in Fields
         /\ Len(calls') = Len(calls) /\ Last(calls') = calls'[Len(calls')]
         /\ \A i \in 1 .. Len(calls) - 1 : calls'[i] = calls[i]
         /\ calls'[Len(calls)].op = calls[Len(calls)].op
         /\ calls'[Len(calls)].field = calls[Len(calls)].field
         /\ calls'[Len(calls)].at = stage
         /\ \A i \in 1 .. Len(calls') :
               /\ calls'[i].op = "begin" => calls'[i].at \in BeginStages
               /\ calls'[i].op = "end" => calls'[i].at \in EndStages
               /\ calls'[i].op = "key" => calls'[i].at = "return"
<1> DEFINE c == [calls[Len(calls)] EXCEPT !.at = stage]
<1>1. /\ calls \in Seq(CallRecord) /\ Len(calls) \in Nat \ {0}
      /\ Last(calls) = calls[Len(calls)] /\ calls[Len(calls)] \in CallRecord
  BY FrontLast DEF TextTypeOK
<1>2. c \in CallRecord /\ c.op = calls[Len(calls)].op /\ c.field = calls[Len(calls)].field /\ c.at = stage
  BY <1>1 DEF CallRecord
<1>3. calls' = [calls EXCEPT ![Len(calls)] = c]
  BY DEF Goes
<1>4. /\ calls' \in Seq(CallRecord) /\ calls' # <<>> /\ Len(calls') = Len(calls)
      /\ Last(calls') = c /\ calls'[Len(calls)] = c
      /\ \A i \in 1 .. Len(calls) - 1 : calls'[i] = calls[i]
  <2> DEFINE d == [calls EXCEPT ![Len(calls)] = c]
  <2> HIDE DEF c
  <2>1. /\ d \in Seq(CallRecord) /\ d # <<>> /\ Len(d) = Len(calls)
        /\ Last(d) = c /\ d[Len(calls)] = c
        /\ \A i \in 1 .. Len(calls) - 1 : d[i] = calls[i]
    BY <1>1, <1>2, TopReplaced
  <2> QED BY <2>1, <1>3
<1>5. \A i \in 1 .. Len(calls') : i \in 1 .. Len(calls) - 1 \/ i = Len(calls)
  BY <1>1, <1>4
<1>6. \A i \in 1 .. Len(calls) - 1 : i \in 1 .. Len(calls)
  BY <1>1
<1>7. calls[Len(calls)].field \in Fields
  BY <1>1 DEF CallRecord
<1> HIDE DEF c
<1>8. /\ calls'[Len(calls)].op = "begin" => calls'[Len(calls)].at \in BeginStages
      /\ calls'[Len(calls)].op = "end" => calls'[Len(calls)].at \in EndStages
      /\ calls'[Len(calls)].op # "key"
  BY <1>1, <1>2, <1>4
<1>9. \A i \in 1 .. Len(calls) - 1 :
         /\ calls'[i].op = "begin" => calls'[i].at \in BeginStages
         /\ calls'[i].op = "end" => calls'[i].at \in EndStages
         /\ calls'[i].op = "key" => calls'[i].at = "return"
  BY <1>4, <1>6 DEF TextTypeOK
<1> QED BY <1>1, <1>2, <1>4, <1>5, <1>7, <1>8, <1>9

\* The innermost call returns.
LEMMA CallReturns ==
  ASSUME TextTypeOK, calls # <<>>, Returns
  PROVE  /\ calls' \in Seq(CallRecord) /\ Len(calls) \in Nat \ {0}
         /\ Len(calls') = Len(calls) - 1
         /\ Last(calls) = calls[Len(calls)]
         /\ calls' # <<>> => Len(calls') \in 1 .. Len(calls) - 1 /\ Last(calls') = calls'[Len(calls')]
         /\ \A i \in 1 .. Len(calls') : calls'[i] = calls[i] /\ i \in 1 .. Len(calls) - 1 /\ i \in 1 .. Len(calls)
<1>1. /\ calls' \in Seq(CallRecord) /\ Len(calls) \in Nat \ {0}
      /\ Len(calls') = Len(calls) - 1 /\ Last(calls) = calls[Len(calls)]
      /\ \A i \in 1 .. Len(calls) - 1 : calls'[i] = calls[i]
  BY FrontLast DEF TextTypeOK, Returns
<1>2. calls' # <<>> => Len(calls') \in 1 .. Len(calls) - 1 /\ Last(calls') = calls'[Len(calls')]
  <2> SUFFICES ASSUME calls' # <<>> PROVE Len(calls') \in Nat \ {0} /\ Last(calls') = calls'[Len(calls')]
    BY <1>1
  <2> DEFINE d == calls'
  <2>1. d \in Seq(CallRecord) /\ d # <<>>
    BY <1>1
  <2>2. Len(d) \in Nat \ {0} /\ Last(d) = d[Len(d)]
    <3> HIDE DEF d
    <3> QED BY <2>1, FrontLast
  <2> QED BY <2>2
<1> QED BY <1>1, <1>2

\* Calls made by guest code, and the return key.
LEMMA TextCallInv ==
  ASSUME "ends_once" \in TextCareful, TextInv, NEW f \in Fields,
         becomeFirstResponder(f) \/ resignFirstResponder(f) \/ handle_return(f)
  PROVE  TextInv'
<1> USE DEF TextInv
<1>1. PICK op \in Ops, stage \in {"should", "return"} :
         /\ op = "key" => stage = "return"
         /\ op # "key" => stage = "should"
         /\ calls' = Append(calls, Call(op, f, stage))
         /\ op = "begin" => ~editing[f]
         /\ op = "end" => editing[f] /\ ~InCall("end", f)
  <2>1. CASE becomeFirstResponder(f)
    BY <2>1 DEF becomeFirstResponder, Ops
  <2>2. CASE resignFirstResponder(f)
    BY <2>2 DEF resignFirstResponder, Ops
  <2>3. CASE handle_return(f)
    <3>1. calls = <<>> /\ calls' = <<Call("key", f, "return")>>
      BY <2>3 DEF handle_return, KeyGoesTo
    <3>2. \A c : <<c>> = Append(<<>>, c)
      OBVIOUS
    <3> QED BY <3>1, <3>2 DEF Ops
  <2> QED BY <2>1, <2>2, <2>3
<1>2. UNCHANGED <<alive, editing, keyboardVars, text>>
  BY DEF becomeFirstResponder, resignFirstResponder, handle_return
<1>3. TextTypeOK
  OBVIOUS
<1>4. /\ calls' \in Seq(CallRecord) /\ calls' # <<>> /\ Len(calls) \in Nat
      /\ Len(calls') = Len(calls) + 1 /\ Last(calls') = calls'[Len(calls')]
      /\ \A i \in 1 .. Len(calls) : calls'[i] = calls[i]
      /\ calls'[Len(calls')] = [op |-> op, field |-> f, at |-> stage]
      /\ \A i \in 1 .. Len(calls') :
            /\ calls'[i].op = "begin" => calls'[i].at \in BeginStages
            /\ calls'[i].op = "end" => calls'[i].at \in EndStages
            /\ calls'[i].op = "key" => calls'[i].at = "return"
  <2>1. /\ stage \in BeginStages \cup EndStages \cup {"return"}
        /\ op = "begin" => stage \in BeginStages
        /\ op = "end" => stage \in EndStages
    BY <1>1 DEF BeginStages, EndStages
  <2> QED BY <1>1, <1>3, <2>1, CallBegins
<1>5. TextTypeOK'
  BY <1>2, <1>4 DEF TextTypeOK, keyboardVars
<1>6. DOMAIN calls = 1 .. Len(calls)
  BY LenProperties DEF TextTypeOK
<1>7. /\ \A i \in 1 .. Len(calls') : (i \in 1 .. Len(calls) /\ calls'[i] = calls[i]) \/ i = Len(calls')
      /\ calls'[Len(calls')].op = op /\ calls'[Len(calls')].field = f /\ calls'[Len(calls')].at = stage
      /\ \A i \in 1 .. Len(calls) : i < Len(calls')
  BY <1>4
<1>8. CallsInv'
  <2>1. \A i \in 1 .. Len(calls') :
          calls'[i].op = "end" /\ calls'[i].at # "did_end" => editing'[calls'[i].field]
    BY <1>1, <1>2, <1>7 DEF CallsInv
  <2>2. op = "end" => \A i \in 1 .. Len(calls) : ~(calls[i].op = "end" /\ calls[i].field = f)
    BY <1>1, <1>6 DEF InCall
  <2>3. \A i, j \in 1 .. Len(calls') :
          calls'[i].op = "end" /\ calls'[j].op = "end" /\ calls'[i].field = calls'[j].field => i = j
    BY <1>7, <2>2 DEF CallsInv
  <2>4. op = "begin" =>
          \A i \in 1 .. Len(calls) : ~(calls[i].op = "end" /\ calls[i].at # "did_end" /\ calls[i].field = f)
    BY <1>1 DEF CallsInv
  <2>5. ASSUME NEW i \in 1 .. Len(calls'), NEW j \in 1 .. Len(calls'),
               calls'[i].op = "end", calls'[i].at # "did_end", calls'[j].op = "begin",
               calls'[i].field = calls'[j].field
        PROVE  j < i
    <3>1. CASE i \in 1 .. Len(calls) /\ calls'[i] = calls[i]
      BY <1>7, <2>4, <2>5, <3>1 DEF CallsInv
    <3>2. CASE i = Len(calls')
      BY <1>7, <2>5, <3>2
    <3> QED BY <1>7, <3>1, <3>2
  <2> QED BY <2>1, <2>3, <2>5 DEF CallsInv
<1>9. KeyboardInv'
  <2>1. first_responder' = first_responder /\ text_input' = text_input
    BY <1>2 DEF keyboardVars
  <2>2. \A i \in 1 .. Len(calls) : i \in 1 .. Len(calls') /\ (TakesOver(i) => TakesOver(i)')
    BY <1>4, <2>1 DEF TakesOver
  <2>3. \A i \in 1 .. Len(calls') :
          calls'[i].op = "end" /\ calls'[i].at = "did_hide" => first_responder # calls'[i].field
    BY <1>7, <1>1 DEF KeyboardInv
  <2> QED BY <1>2, <2>1, <2>2, <2>3 DEF KeyboardInv
<1> QED BY <1>5, <1>8, <1>9

\* The pieces of a call between its callbacks.  The field is that of the
\* innermost call.
LEMMA TextStageInv ==
  ASSUME TextFieldsAssumption, TextInv,
         \/ BeginAllowed \/ ShowKeyboard \/ BeginEditing
         \/ EndAllowed \/ HideKeyboard \/ EndEditing
  PROVE  TextInv'
<1> USE DEF TextInv
<1> DEFINE n == Len(calls)
           f == calls[n].field
           op == calls[n].op
           was == calls[n].at
<1>1. TextTypeOK /\ calls # <<>>
  BY DEF BeginAllowed, ShowKeyboard, BeginEditing, EndAllowed, HideKeyboard, EndEditing, At
<1>2. /\ n \in Nat \ {0} /\ Last(calls) = calls[n]
  BY <1>1, FrontLast DEF TextTypeOK
<1>3. PICK stage \in BeginStages \cup EndStages :
        /\ Goes(stage)
        /\ op = "begin" => stage \in BeginStages
        /\ op = "end" => stage \in EndStages
        /\ op # "key"
        /\ op = "end" /\ was = "did_end" => stage = "did_end"
        /\ stage = "did_end" => EndEditing
        /\ stage = "did_hide" => HideKeyboard
        /\ was = "did_show" => BeginEditing
  BY <1>2 DEF BeginAllowed, ShowKeyboard, BeginEditing, EndAllowed, HideKeyboard, EndEditing, At, BeginStages,
              EndStages
<1>4. /\ calls' \in Seq(CallRecord) /\ f \in Fields /\ Len(calls') = n
      /\ \A i \in 1 .. n - 1 : calls'[i] = calls[i]
      /\ calls'[n].op = op /\ calls'[n].field = f /\ calls'[n].at = stage
      /\ \A i \in 1 .. Len(calls') :
            /\ calls'[i].op = "begin" => calls'[i].at \in BeginStages
            /\ calls'[i].op = "end" => calls'[i].at \in EndStages
            /\ calls'[i].op = "key" => calls'[i].at = "return"
  BY <1>1, <1>2, <1>3, CallGoesOn
<1>5. /\ \A i \in 1 .. n : (i \in 1 .. n - 1 /\ i # n /\ i < n /\ calls'[i] = calls[i]) \/ i = n
      /\ n \in 1 .. n
  BY <1>2, <1>4
<1>6. \A i \in 1 .. n : /\ calls'[i].op = calls[i].op /\ calls'[i].field = calls[i].field
                        /\ i # n => calls'[i].at = calls[i].at
  BY <1>4, <1>5
<1>7. alive' = alive
  BY DEF BeginAllowed, ShowKeyboard, BeginEditing, EndAllowed, HideKeyboard, EndEditing
\* How the step changes the field's editing and the first responder.
<1>8. \/ UNCHANGED <<editing, keyboardVars>> /\ ~BeginEditing /\ ~EndEditing /\ ~HideKeyboard
      \/ /\ op = "begin" /\ was = "will_show" /\ stage = "did_show" /\ editing' = editing
         /\ first_responder' = f /\ text_input' = TRUE
      \/ /\ op = "begin" /\ was = "did_show" /\ editing' = [editing EXCEPT ![f] = TRUE]
         /\ UNCHANGED keyboardVars /\ ~EndEditing /\ ~HideKeyboard
      \/ /\ op = "end" /\ was = "will_hide" /\ editing' = editing
         /\ first_responder' = noField /\ text_input' = FALSE /\ ~EndEditing
      \/ /\ op = "end" /\ was = "did_hide" /\ editing' = [editing EXCEPT ![f] = FALSE]
         /\ UNCHANGED keyboardVars /\ stage = "did_end" /\ ~HideKeyboard
  <2>1. CASE BeginAllowed
    BY <1>2, <2>1 DEF BeginAllowed, At, BeginEditing, EndEditing, HideKeyboard
  <2>2. CASE ShowKeyboard
    <3>1. op = "begin" /\ was = "will_show" /\ editing' = editing /\ first_responder' = f /\ text_input' = TRUE
      BY <1>2, <2>2 DEF ShowKeyboard, At
    <3>2. Goes("did_show")
      BY <2>2 DEF ShowKeyboard
    <3>3. stage = "did_show"
      BY <1>1, <1>2, <1>4, <3>1, <3>2, CallGoesOn DEF BeginStages
    <3> QED BY <3>1, <3>3
  <2>3. CASE BeginEditing
    BY <1>2, <2>3 DEF At, BeginEditing, EndEditing, HideKeyboard
  <2>4. CASE EndAllowed
    BY <1>2, <2>4 DEF EndAllowed, At, BeginEditing, EndEditing, HideKeyboard
  <2>5. CASE HideKeyboard
    BY <1>2, <2>5 DEF HideKeyboard, At, EndEditing
  <2>6. CASE EndEditing
    <3>1. /\ op = "end" /\ was = "did_hide" /\ editing' = [editing EXCEPT ![f] = FALSE]
          /\ UNCHANGED keyboardVars /\ ~HideKeyboard
      BY <1>2, <2>6 DEF HideKeyboard, At, EndEditing
    <3>2. Goes("did_end")
      BY <2>6 DEF EndEditing
    <3>3. stage = "did_end"
      BY <1>1, <1>2, <1>4, <3>1, <3>2, CallGoesOn DEF EndStages
    <3> QED BY <3>1, <3>3
  <2> QED BY <2>1, <2>2, <2>3, <2>4, <2>5, <2>6
<1>9. /\ editing' \in [Fields -> BOOLEAN] /\ first_responder' \in Fields \cup {noField} /\ text_input' \in BOOLEAN
      /\ \A g \in Fields \ {f} : editing'[g] = editing[g]
      /\ stage # "did_end" /\ editing[f] => editing'[f]
  BY <1>1, <1>4, <1>8 DEF TextTypeOK, keyboardVars
<1> HIDE DEF n, f, op, was
<1>10. TextTypeOK'
  BY <1>1, <1>4, <1>7, <1>9 DEF TextTypeOK
<1>11. CallsInv'
  <2>1. ASSUME NEW i \in 1 .. n, calls'[i].op = "end", calls'[i].at # "did_end"
        PROVE  editing'[calls'[i].field]
    <3>1. calls[i].op = "end" /\ calls[i].at # "did_end"
      BY <1>3, <1>4, <1>5, <1>6, <2>1 DEF op, was, n
    <3>2. editing[calls[i].field] /\ calls[i].field \in Fields
      <4>1. i \in 1 .. Len(calls)
        BY DEF n
      <4>2. calls[i] \in CallRecord
        BY <1>1, <4>1, ElementOfSeq DEF TextTypeOK
      <4> QED BY <3>1, <4>1, <4>2 DEF CallsInv, CallRecord
    <3>3. CASE stage # "did_end" \/ calls[i].field # f
      BY <1>6, <1>9, <3>2, <3>3
    <3>4. CASE stage = "did_end" /\ calls[i].field = f
      <4>1. i # n
        BY <1>4, <2>1, <3>4
      <4>2. op = "end"
        BY <1>2, <1>3, <3>4 DEF EndEditing, At, op, n
      <4> QED BY <1>5, <3>1, <3>4, <4>1, <4>2 DEF CallsInv, n, f, op
    <3> QED BY <3>3, <3>4
  <2>2. \A i, j \in 1 .. n :
          calls'[i].op = "end" /\ calls'[j].op = "end" /\ calls'[i].field = calls'[j].field => i = j
    BY <1>6 DEF CallsInv, n
  <2>3. ASSUME NEW i \in 1 .. n, NEW j \in 1 .. n,
               calls'[i].op = "end", calls'[i].at # "did_end", calls'[j].op = "begin",
               calls'[i].field = calls'[j].field
        PROVE  j < i
    <3>1. calls[i].op = "end" /\ calls[i].at # "did_end"
      BY <1>3, <1>4, <1>5, <1>6, <2>3 DEF op, was, n
    <3>2. calls[j].op = "begin" /\ calls[i].field = calls[j].field
      BY <1>6, <2>3
    <3> QED BY <3>1, <3>2 DEF CallsInv, n
  <2> QED BY <1>4, <2>1, <2>2, <2>3 DEF CallsInv
<1>12. KeyboardInv'
  <2>1. text_input' = (first_responder' # noField)
    BY <1>4, <1>8 DEF KeyboardInv, keyboardVars, TextFieldsAssumption
  <2>2. ASSUME first_responder' \in alive'
        PROVE  editing'[first_responder'] \/ \E i \in 1 .. Len(calls') : TakesOver(i)'
    <3>1. CASE first_responder' = f /\ stage = "did_show"
      BY <1>4, <1>5, <3>1 DEF TakesOver
    <3>2. CASE first_responder' = first_responder
      <4>1. editing[first_responder] \/ \E i \in 1 .. n : TakesOver(i)
        BY <1>7, <2>2, <3>2 DEF KeyboardInv, n
      <4>2. CASE editing[first_responder]
        <5>1. stage = "did_end" => op = "end" /\ was = "did_hide"
          BY <1>2, <1>3 DEF EndEditing, At, op, was, n
        <5>2. stage = "did_end" => first_responder # f
          BY <1>5, <5>1 DEF KeyboardInv, op, was, f, n
        <5> QED BY <1>1, <1>7, <1>9, <2>2, <3>2, <4>2, <5>2 DEF TextTypeOK
      <4>3. CASE \E i \in 1 .. n : TakesOver(i)
        <5>1. PICK i \in 1 .. n : TakesOver(i)
          BY <4>3
        <5>2. CASE i # n
          <6>1. calls'[i] = calls[i] /\ i \in 1 .. Len(calls')
            BY <1>4, <1>5, <5>2
          <6> QED BY <3>2, <5>1, <6>1 DEF TakesOver
        <5>3. CASE i = n
          <6>1. first_responder = f /\ was = "did_show"
            BY <5>1, <5>3 DEF TakesOver, f, was
          <6>2. BeginEditing
            BY <1>3, <6>1
          <6>3. editing' = [editing EXCEPT ![f] = TRUE]
            BY <1>2, <6>2 DEF BeginEditing, f, n
          <6> QED BY <1>1, <1>4, <3>2, <6>1, <6>3 DEF TextTypeOK
        <5> QED BY <5>2, <5>3
      <4> QED BY <4>1, <4>2, <4>3
    <3>3. CASE first_responder' = noField
      BY <1>1, <1>7, <2>2, <3>3 DEF TextTypeOK, TextFieldsAssumption
    <3> QED BY <1>8, <3>1, <3>2, <3>3 DEF keyboardVars
  <2>3. ASSUME NEW i \in 1 .. n, calls'[i].op = "end", calls'[i].at = "did_hide"
        PROVE  first_responder' # calls'[i].field
    <3>1. calls'[i].field \in Fields
      <4>1. calls'[i] \in CallRecord
        BY <1>4, <2>3, ElementOfSeq
      <4> QED BY <4>1 DEF CallRecord
    <3>2. CASE i = n
      <4>1. HideKeyboard
        BY <1>3, <1>4, <2>3, <3>2
      <4> QED BY <3>1, <4>1 DEF HideKeyboard, TextFieldsAssumption
    <3>3. CASE i # n
      <4>1. calls[i].op = "end" /\ calls[i].at = "did_hide" /\ calls'[i].field = calls[i].field /\ i < n
        BY <1>5, <1>6, <2>3, <3>3
      <4>2. first_responder # calls[i].field
        BY <4>1 DEF KeyboardInv, n
      <4>3. CASE op = "begin"
        <5>1. calls[i].field # f
          BY <1>5, <4>1, <4>3 DEF CallsInv, n, op, f
        <5> QED BY <1>8, <3>1, <4>1, <4>2, <4>3, <5>1 DEF keyboardVars
      <4>4. CASE op # "begin"
        BY <1>8, <3>1, <4>1, <4>2, <4>4 DEF keyboardVars, TextFieldsAssumption
      <4> QED BY <4>3, <4>4
    <3> QED BY <3>2, <3>3
  <2> QED BY <1>4, <2>1, <2>2, <2>3 DEF KeyboardInv
<1> QED BY <1>10, <1>11, <1>12

\* The innermost call returns: it is not one that is taking over.
LEMMA TextReturnInv ==
  ASSUME TextInv, Refused \/ Returned
  PROVE  TextInv'
<1> USE DEF TextInv
<1>1. TextTypeOK /\ calls # <<>> /\ Returns /\ UNCHANGED <<alive, editing, keyboardVars, text>>
  BY DEF Refused, Returned, At
<1>2. /\ calls' \in Seq(CallRecord) /\ Len(calls) \in Nat \ {0}
      /\ Len(calls') = Len(calls) - 1
      /\ Last(calls) = calls[Len(calls)]
      /\ \A i \in 1 .. Len(calls') : calls'[i] = calls[i] /\ i \in 1 .. Len(calls) - 1 /\ i \in 1 .. Len(calls)
  BY <1>1, CallReturns
<1>3. TextTypeOK'
  BY <1>1, <1>2 DEF TextTypeOK, keyboardVars
<1>4. CallsInv'
  BY <1>1, <1>2 DEF CallsInv
<1>5. KeyboardInv'
  <2>1. first_responder' = first_responder /\ text_input' = text_input
    BY <1>1 DEF keyboardVars
  <2>2. calls[Len(calls)].at # "did_show"
    BY <1>2 DEF Refused, Returned, At
  <2>3. \A i \in 1 .. Len(calls) : i # Len(calls) => i \in 1 .. Len(calls')
    BY <1>2
  <2>4. \A i \in 1 .. Len(calls) : TakesOver(i) => i \in 1 .. Len(calls') /\ TakesOver(i)'
    BY <1>2, <2>1, <2>2, <2>3 DEF TakesOver
  <2> QED BY <1>1, <1>2, <2>1, <2>4 DEF KeyboardInv
<1> QED BY <1>3, <1>4, <1>5

\* The text of a field, and its deallocation: a field in no call is freed.
LEMMA TextOtherInv ==
  ASSUME "holds" \in TextCareful, TextInv, NEW f \in Fields,
         setText(f) \/ dealloc(f) \/ handle_text(f) \/ handle_backspace(f)
  PROVE  TextInv'
<1> USE DEF TextInv
<1>1. UNCHANGED <<keyboardVars, calls>>
  BY DEF setText, dealloc, handle_text, handle_backspace
<1>2. CASE dealloc(f)
  <2>1. /\ alive' = alive \ {f} /\ editing' = [editing EXCEPT ![f] = FALSE]
        /\ \A i \in DOMAIN calls : calls[i].field # f
    BY <1>2 DEF dealloc
  <2>2. DOMAIN calls = 1 .. Len(calls)
    BY LenProperties DEF TextTypeOK
  <2>3. \A g \in Fields : g # f => editing'[g] = editing[g]
    BY <2>1 DEF TextTypeOK
  <2>4. \A i \in 1 .. Len(calls) : calls[i].field \in Fields /\ calls[i].field # f
    <3>1. \A i \in 1 .. Len(calls) : calls[i] \in CallRecord
      BY ElementOfSeq DEF TextTypeOK
    <3> QED BY <2>1, <2>2, <3>1 DEF CallRecord
  <2>5. TextTypeOK' /\ CallsInv'
    BY <1>1, <2>1, <2>3, <2>4 DEF TextTypeOK, CallsInv, keyboardVars
  <2>6. KeyboardInv'
    BY <1>1, <2>1, <2>3 DEF KeyboardInv, TakesOver, keyboardVars, TextTypeOK
  <2> QED BY <2>5, <2>6
<1>3. CASE ~dealloc(f)
  <2>1. UNCHANGED <<alive, editing>>
    BY <1>3 DEF setText, handle_text, handle_backspace
  <2> QED BY <1>1, <2>1 DEF TextTypeOK, CallsInv, KeyboardInv, TakesOver, keyboardVars
<1> QED BY <1>2, <1>3

\* The invariant holds at the start
LEMMA TextInvInit == TextFieldsAssumption /\ TextInit => TextInv
<1> SUFFICES ASSUME TextFieldsAssumption, TextInit PROVE TextInv
  OBVIOUS
<1>1. calls = <<>> /\ calls \in Seq(CallRecord) /\ Len(calls) = 0
  BY EmptySeq DEF TextInit
<1>2. TextTypeOK
  <2>1. \A i \in 1 .. Len(calls) : FALSE
    BY <1>1
  <2>2. alive = Fields /\ first_responder = noField /\ text_input = FALSE
    BY DEF TextInit
  <2>3. editing \in [Fields -> BOOLEAN]
    BY DEF TextInit
  <2> QED BY <1>1, <2>1, <2>2, <2>3 DEF TextTypeOK
<1>3. CallsInv
  BY <1>1 DEF CallsInv
<1>4. KeyboardInv
  <2>1. \A i \in 1 .. Len(calls) : FALSE
    BY <1>1
  <2>2. first_responder = noField /\ text_input = FALSE /\ alive = Fields
    BY DEF TextInit
  <2> QED BY <2>1, <2>2 DEF KeyboardInv, TextFieldsAssumption
<1> QED BY <1>2, <1>3, <1>4 DEF TextInv

\* and every step preserves it.
LEMMA TextInvNext ==
  ASSUME TextFieldsAssumption, {"ends_once", "holds"} \subseteq TextCareful, TextInv, [TextNext]_textVars
  PROVE  TextInv'
<1> USE DEF TextInv
<1>1. ASSUME NEW f \in Fields, becomeFirstResponder(f) \/ resignFirstResponder(f) \/ handle_return(f)
      PROVE  TextInv'
  BY <1>1, TextCallInv
<1>2. CASE endEditing
  <2>1. first_responder \in Fields /\ resignFirstResponder(first_responder)
    BY <1>2 DEF endEditing, TextTypeOK
  <2> QED BY <2>1, <1>1
<1>3. CASE BeginAllowed \/ ShowKeyboard \/ BeginEditing \/ EndAllowed \/ HideKeyboard \/ EndEditing
  BY <1>3, TextStageInv
<1>4. CASE Refused \/ Returned
  BY <1>4, TextReturnInv
<1>5. ASSUME NEW f \in Fields, setText(f) \/ dealloc(f) \/ handle_text(f) \/ handle_backspace(f)
      PROVE  TextInv'
  BY <1>5, TextOtherInv
<1>6. CASE UNCHANGED textVars \/ MessageToGone
  <2>1. UNCHANGED <<alive, editing, keyboardVars, calls>>
    BY <1>6 DEF textVars, MessageToGone
  <2> QED BY <2>1 DEF TextTypeOK, CallsInv, KeyboardInv, TakesOver, keyboardVars
<1> QED BY <1>1, <1>2, <1>3, <1>4, <1>5, <1>6 DEF TextNext

\* For any number of fields and any depth of calls within calls, and a guest
\* that ends no field from a callback of its own ending and frees none that is in a
\* call (TextCareful): whichever fields are touched, and whatever begins and ends
\* in callbacks, keys go to a field that edits, as long as it exists
\* (becomeFirstResponder, resignFirstResponder, ui_text_field.rs).
THEOREM KeyboardFollows ==
  ASSUME TextFieldsAssumption, {"ends_once", "holds"} \subseteq TextCareful
  PROVE  TextSpec => []KeysReachEditor
<1>1. TextInit => TextInv
  BY TextInvInit
<1>2. TextInv /\ [TextNext]_textVars => TextInv'
  BY TextInvNext
<1>3. TextInv => KeysReachEditor
  BY LenProperties DEF TextInv, TextTypeOK, KeyboardInv, TakesOver, KeysReachEditor
<1> QED BY <1>1, <1>2, <1>3, PTL DEF TextSpec

-----------------------------------------------------------------------------
(* OpenGL: contexts of threads                                             *)

GlesTypeOK ==
    /\ ctxAlive \in SUBSET Contexts
    /\ ctxOwned \in [Contexts -> Nat]
    /\ ctxOf \in [GlThreads -> Contexts \cup {nobody}]
    /\ group \in [Contexts -> Contexts]
    /\ bindings \in [Contexts -> [Renderbuffers -> Drawables \cup {nobody}]]
    /\ drawRefs \in [Drawables -> Int]

\* Threads that have a context have the same one, and it is the host's as long
\* as the record names a thread and the emulator has not used its own.
ContextInv ==
    /\ \A t, u \in GlThreads : ctxOf[t] # nobody /\ ctxOf[u] # nobody => ctxOf[t] = ctxOf[u]
    /\ ctxThread # nobody /\ ~ctxLost =>
          \A t \in GlThreads : ctxOf[t] # nobody => hostCtx = ctxOf[t]
    /\ CallsReachOwnContext

\* What the guest or a thread refers to is alive.
RefsInv ==
    /\ \A c \in Contexts : ctxOwned[c] > 0 => c \in ctxAlive
    /\ \A t \in GlThreads : ctxOf[t] # nobody => ctxOf[t] \in ctxAlive

\* With the property: every drawable is retained for what it backs.
TableInv == GlesTypeOK /\ RefsInv /\ DrawablesRetained

\* After a present the next frame is due an interval later for every frame since,
\* and the clock is at most an interval behind that.
FramesInv ==
    /\ frames \in Seq(Nat) /\ Len(frames) <= FrameHistory
    /\ clock \in Nat /\ frameDue \in Nat \cup {-1}
    /\ frameDue = -1 => frames = <<>>
    /\ \A i \in 1 .. Len(frames) :
          /\ frameDue >= frames[i] + (Len(frames) - i) * Interval
          /\ clock >= frames[i] + (Len(frames) - i - 1) * Interval
    /\ frames # <<>> => clock >= Last(frames)

\* What every GL call leaves alone; it goes to the context that sync_context
\* finds.
GlCall(t) ==
    /\ ctxOf[t] # nobody /\ sync_context(t)
    /\ UNCHANGED <<ctxAlive, ctxOwned, ctxOf, ctxThread, tableVars, frameVars>>

\* A call that changes the state of a context is one.
LEMMA CallIsGlCall ==
  ASSUME NEW t, NEW s, call(t, s)
  PROVE  GlCall(t)
BY DEF call, with_ctx_and_mem, GlCall

\* Whatever a thread draws with, it does by such calls.
LEMMA DrawingCalls ==
  ASSUME DrawingNext
  PROVE  \E t \in GlThreads : GlCall(t)
<1>1. PICK t \in GlThreads :
        \/ glGeneric(t) \/ glBuffers(t) \/ glFramebuffers(t) \/ glDraw(t)
        \/ glRaster(t, 1) \/ glPoint(t, 1) \/ glFog(t, 1, <<1, 1>>) \/ glLight(t, 1) \/ glMaterial(t, 1)
        \/ glColor(t, 1) \/ glClear(t, 1)
        \/ glMatrices(t, 1) \/ glTextures(t, 1) \/ glTexImages(t, 1) \/ glTexEnv(t, 1)
        \/ \E a \in Arrays, type \in {"FIXED", "FLOAT"} : glPointer(t, a, type)
        \/ \E b \in Buffers : glMapBufferOES(t, b)
        \/ glUnmapBufferOES(t)
        \/ \E c \in Contexts, r \in Renderbuffers :
              \/ \E cursor \in BOOLEAN : presentRenderbuffer(t, c, r, "fast", cursor)
              \/ \E path \in {"skip", "slow"} : presentRenderbuffer(t, c, r, path, FALSE)
  BY DEF DrawingNext
<1>2. CASE glGeneric(t)
  BY <1>2, CallIsGlCall DEF glGeneric
<1>3. CASE glBuffers(t) \/ glFramebuffers(t)
  BY <1>3, CallIsGlCall DEF glBuffers, glFramebuffers
<1>4. CASE glDraw(t)
  BY <1>4 DEF glDraw, with_ctx_and_mem, GlCall
<1>5. CASE glRaster(t, 1) \/ glPoint(t, 1) \/ glFog(t, 1, <<1, 1>>) \/ glLight(t, 1) \/ glMaterial(t, 1)
           \/ glColor(t, 1) \/ glClear(t, 1) \/ glTexEnv(t, 1)
  BY <1>5, CallIsGlCall DEF glRaster, glPoint, glFog, glLight, glMaterial, glColor, glClear, glTexEnv
<1>6. CASE glMatrices(t, 1)
  BY <1>6, CallIsGlCall DEF glMatrices
<1>7. CASE glTextures(t, 1) \/ glTexImages(t, 1)
  BY <1>7, CallIsGlCall DEF glTextures, glTexImages
<1>8. CASE \E a \in Arrays, type \in {"FIXED", "FLOAT"} : glPointer(t, a, type)
  BY <1>8, CallIsGlCall DEF glPointer
<1>9. CASE \E b \in Buffers : glMapBufferOES(t, b)
  BY <1>9 DEF glMapBufferOES, GlCall
<1>10. CASE glUnmapBufferOES(t)
  BY <1>10 DEF glUnmapBufferOES, GlCall
<1>11. CASE \E c \in Contexts, r \in Renderbuffers :
              \/ \E cursor \in BOOLEAN : presentRenderbuffer(t, c, r, "fast", cursor)
              \/ \E path \in {"skip", "slow"} : presentRenderbuffer(t, c, r, path, FALSE)
  <2>1. \A c, r, path, cursor : presentRenderbuffer(t, c, r, path, cursor) => GlCall(t)
    BY DEF presentRenderbuffer, with_ctx_and_mem, GlCall
  <2> QED BY <1>11, <2>1
<1> QED BY <1>1, <1>2, <1>3, <1>4, <1>5, <1>6, <1>7, <1>8, <1>9, <1>10, <1>11

\* A context with one reference is referred to by nobody else.
LEMMA LastReference ==
  ASSUME GlesTypeOK, NEW c \in Contexts, ~(CtxRefs(c) > 1)
  PROVE  /\ ctxOwned[c] > 0 => ctxOwned[c] = 1 /\ \A t \in GlThreads : ctxOf[t] # c
         /\ \A t \in GlThreads : ctxOf[t] = c =>
               ctxOwned[c] = 0 /\ \A u \in GlThreads : ctxOf[u] = c => u = t
<1> DEFINE users == {t \in GlThreads : ctxOf[t] = c}
           n == Cardinality(users)
<1>1. IsFiniteSet(users) /\ n \in Nat /\ ctxOwned[c] \in Nat
  BY GlesNames, FS_Subset, FS_CardinalityType DEF GlesTypeOK
<1>2. ctxOwned[c] + n <= 1
  BY <1>1 DEF CtxRefs
<1>3. n = 0 => users = {}
  BY <1>1, FS_EmptySet
<1>4. ASSUME NEW t \in GlThreads, ctxOf[t] = c
      PROVE  ctxOwned[c] = 0 /\ \A u \in GlThreads : ctxOf[u] = c => u = t
  <2>1. t \in users
    BY <1>4
  <2> HIDE DEF users, n
  <2>2. n = 1 /\ ctxOwned[c] = 0
    BY <1>1, <1>2, <1>3, <2>1
  <2>3. PICK x : users = {x}
    BY <1>1, <2>2, FS_Singleton DEF n
  <2>4. \A u \in users : u = t
    BY <2>1, <2>3
  <2> QED BY <2>2, <2>4 DEF users
<1>5. ctxOwned[c] > 0 => ctxOwned[c] = 1 /\ n = 0
  <2> HIDE DEF n
  <2> QED BY <1>1, <1>2
<1> QED BY <1>3, <1>4, <1>5

\* A call finds its thread's context, whatever the host's was.
LEMMA SyncKeepsContexts ==
  ASSUME ContextInv, NEW t \in GlThreads, ctxOf[t] # nobody, sync_context(t),
         UNCHANGED <<ctxOf, ctxThread>>
  PROVE  ContextInv'
<1>1. hostCtx' = ctxOf[t]
  <2>1. CASE ctxLost \/ ctxThread # t
    BY <2>1 DEF sync_context
  <2>2. CASE ~ctxLost /\ ctxThread = t
    BY <2>2, GlesNames DEF sync_context, ContextInv
  <2> QED BY <2>1, <2>2
<1> QED BY <1>1 DEF sync_context, ContextInv, CallsReachOwnContext

\* The context a thread makes current is the host's, and nobody uses another.
LEMMA SetKeepsContexts ==
  ASSUME GlesTypeOK, ContextInv, {"one_thread", "nil_current"} \subseteq Careful,
         NEW t \in GlThreads, NEW c \in Contexts \cup {nobody}, setCurrentContext(t, c)
  PROVE  ContextInv'
<1>1. /\ \A u \in GlThreads : ctxOf'[u] = IF u = t THEN c ELSE ctxOf[u]
      /\ reached' = reached
  BY DEF setCurrentContext, GlesTypeOK
<1>2. CASE c = nobody
  <2>1. ctxOf[t] # nobody /\ ctxThread' = nobody
    BY <1>2 DEF setCurrentContext
  <2> QED BY <1>1, <1>2, <2>1 DEF ContextInv, CallsReachOwnContext
<1>3. CASE c # nobody
  <2>1. hostCtx' = c /\ ~OthersUse(t, c)
    BY <1>3 DEF setCurrentContext
  <2>2. \A u \in GlThreads : ctxOf'[u] # nobody => ctxOf'[u] = c
    BY <1>1, <2>1 DEF OthersUse
  <2> QED BY <1>1, <2>1, <2>2 DEF ContextInv, CallsReachOwnContext
<1> QED BY <1>2, <1>3

\* Every step keeps what is said of contexts.
LEMMA ContextsKept ==
  ASSUME GlesTypeOK, ContextInv, {"one_thread", "nil_current"} \subseteq Careful,
         [ContextsNext \/ DrawingNext \/ FramesNext]_glesVars
  PROVE  ContextInv'
<1>1. ASSUME NEW c \in Contexts, initWithAPI(c) PROVE ContextInv'
  BY <1>1 DEF initWithAPI, ContextInv, CallsReachOwnContext
<1>2. ASSUME NEW c \in Contexts, NEW g \in Contexts, initWithAPI_sharegroup(c, g) PROVE ContextInv'
  BY <1>2 DEF initWithAPI_sharegroup, ContextInv, CallsReachOwnContext
<1>3. ASSUME NEW c \in Contexts, guest_releases_context(c) PROVE ContextInv'
  BY <1>3 DEF guest_releases_context, ContextInv, CallsReachOwnContext
<1>4. ASSUME NEW t \in GlThreads, NEW c \in Contexts, NEW r, NEW d, renderbufferStorage(t, c, r, d)
      PROVE ContextInv'
  BY <1>4, SyncKeepsContexts DEF renderbufferStorage
<1>5. ASSUME NEW t \in GlThreads, NEW c \in Contexts \cup {nobody}, setCurrentContext(t, c)
      PROVE ContextInv'
  BY <1>5, SetKeepsContexts
<1>6. ASSUME NEW t \in GlThreads, GlCall(t) PROVE ContextInv'
  BY <1>6, SyncKeepsContexts DEF GlCall
<1>7. ASSUME NEW t \in GlThreads, glRaster(t, 1) PROVE ContextInv'
  BY <1>6, <1>7, CallIsGlCall DEF glRaster
<1>8. CASE make_internal_gl_ctx_current
  BY <1>8 DEF make_internal_gl_ctx_current, ContextInv, CallsReachOwnContext
<1>9. CASE DrawingNext
  BY <1>6, <1>9, DrawingCalls
<1>10. CASE FramesNext
  BY <1>10 DEF FramesNext, present_frame_time, tick, ctxVars, ContextInv, CallsReachOwnContext
<1>11. CASE UNCHANGED glesVars
  BY <1>11 DEF glesVars, ctxVars, ContextInv, CallsReachOwnContext
<1> QED BY <1>1, <1>2, <1>3, <1>4, <1>5, <1>7, <1>8, <1>9, <1>10, <1>11 DEF ContextsNext

-----------------------------------------------------------------------------
(* OpenGL: drawables                                                       *)

\* A step that leaves contexts, tables and drawables alone.
LEMMA TablesSame ==
  ASSUME TableInv, UNCHANGED <<ctxAlive, ctxOwned, ctxOf, tableVars>>
  PROVE  TableInv'
BY DEF TableInv, GlesTypeOK, RefsInv, DrawablesRetained, Backed, tableVars

\* Tables are finite.
LEMMA BackedFinite ==
  ASSUME NEW d
  PROVE  IsFiniteSet(Backed(d)) /\ Cardinality(Backed(d)) \in Nat
<1>1. IsFiniteSet(Contexts \X Renderbuffers)
  BY GlesNames, FS_Product
<1> QED BY <1>1, FS_Subset, FS_CardinalityType DEF Backed

\* A new context with a table of its own starts an empty one.
LEMMA NewContext ==
  ASSUME TableInv, NEW c \in Contexts, initWithAPI(c)
  PROVE  TableInv'
<1> USE DEF TableInv
<1>1. /\ c \notin ctxAlive /\ \A x \in ctxAlive : group[x] # c
      /\ ctxAlive' = ctxAlive \cup {c} /\ ctxOwned' = [ctxOwned EXCEPT ![c] = 1]
      /\ group' = [group EXCEPT ![c] = c]
      /\ bindings' = [bindings EXCEPT ![c] = [r \in Renderbuffers |-> nobody]]
      /\ ctxOf' = ctxOf /\ drawRefs' = drawRefs
  BY DEF initWithAPI
<1>2. GlesTypeOK'
  BY <1>1 DEF GlesTypeOK
<1>3. RefsInv'
  BY <1>1 DEF RefsInv, GlesTypeOK
<1>4. ASSUME NEW d \in Drawables PROVE Backed(d)' = Backed(d)
  <2>1. \A x \in ctxAlive : x \in Contexts /\ group'[x] = group[x] /\ group[x] # c
    BY <1>1 DEF GlesTypeOK
  <2>2. group'[c] = c
    BY <1>1 DEF GlesTypeOK
  <2>3. \A g \in Contexts \ {c} :
           (\E x \in ctxAlive' : group'[x] = g) <=> (\E x \in ctxAlive : group[x] = g)
    BY <1>1, <2>1, <2>2
  <2>4. \A g \in Contexts \ {c} : bindings'[g] = bindings[g]
    BY <1>1 DEF GlesTypeOK
  <2>5. \A r \in Renderbuffers : bindings'[c][r] # d
    BY <1>1, GlesNames DEF GlesTypeOK
  <2> QED BY <2>1, <2>3, <2>4, <2>5 DEF Backed
<1>5. DrawablesRetained'
  BY <1>1, <1>4 DEF DrawablesRetained
<1> QED BY <1>2, <1>3, <1>5

\* A new context of a sharegroup shares a table that is in use.
LEMMA NewShare ==
  ASSUME TableInv, NEW c \in Contexts, NEW g \in Contexts, initWithAPI_sharegroup(c, g)
  PROVE  TableInv'
<1> USE DEF TableInv
<1>1. /\ c \notin ctxAlive /\ g \in ctxAlive
      /\ ctxAlive' = ctxAlive \cup {c} /\ ctxOwned' = [ctxOwned EXCEPT ![c] = 1]
      /\ group' = [group EXCEPT ![c] = group[g]]
      /\ bindings' = bindings /\ ctxOf' = ctxOf /\ drawRefs' = drawRefs
  BY DEF initWithAPI_sharegroup
<1>2. GlesTypeOK'
  BY <1>1 DEF GlesTypeOK
<1>3. RefsInv'
  BY <1>1 DEF RefsInv, GlesTypeOK
<1>4. ASSUME NEW d \in Drawables PROVE Backed(d)' = Backed(d)
  <2>1. \A x \in ctxAlive : x \in Contexts /\ group'[x] = group[x]
    BY <1>1 DEF GlesTypeOK
  <2>2. group'[c] = group[g]
    BY <1>1 DEF GlesTypeOK
  <2>3. \A h : (\E x \in ctxAlive' : group'[x] = h) <=> (\E x \in ctxAlive : group[x] = h)
    BY <1>1, <2>1, <2>2
  <2> QED BY <1>1, <2>3 DEF Backed
<1>5. DrawablesRetained'
  BY <1>1, <1>4 DEF DrawablesRetained
<1> QED BY <1>2, <1>3, <1>5

\* The renderbuffers of a table that a drawable backs, counted in that table and
\* in all of them.
LEMMA TableCounted ==
  ASSUME GlesTypeOK, NEW g \in Contexts, NEW d, \E x \in ctxAlive : group[x] = g
  PROVE  LET of == {b \in Backed(d) : b[1] = g}
         IN  /\ IsFiniteSet(of)
             /\ Cardinality({r \in Renderbuffers : bindings[g][r] = d}) = Cardinality(of)
<1> DEFINE of == {b \in Backed(d) : b[1] = g}
           own == {r \in Renderbuffers : bindings[g][r] = d}
           f == [b \in of |-> b[2]]
<1>1. IsFiniteSet(of)
  BY BackedFinite, FS_Subset
<1>2. \A b \in of : b = <<g, b[2]>> /\ b[2] \in own
  BY DEF Backed
<1>3. \A r \in own : <<g, r>> \in of /\ <<g, r>>[2] = r
  BY DEF Backed
<1>4. f \in Injection(of, own)
  <2> HIDE DEF of, own
  <2>1. f \in [of -> own]
    BY <1>2
  <2>2. \A a, b \in of : f[a] = f[b] => a = b
    BY <1>2
  <2> QED BY <2>1, <2>2 DEF Injection, IsInjective
<1>5. f \in Surjection(of, own)
  <2> HIDE DEF of, own
  <2>1. f \in [of -> own]
    BY <1>2
  <2>2. \A r \in own : \E b \in of : f[b] = r
    BY <1>3
  <2> QED BY <2>1, <2>2 DEF Surjection
<1>6. ExistsBijection(of, own)
  BY <1>4, <1>5 DEF ExistsBijection, Bijection
<1> QED BY <1>1, <1>6, FS_Bijection

\* The last context of a table releases what the table owns, and no other does.
LEMMA DeallocKeeps ==
  ASSUME GlesTypeOK, DrawablesRetained, NEW c \in ctxAlive, dealloc_context(c),
         ctxAlive' = ctxAlive \ {c}, group' = group
  PROVE  /\ bindings' \in [Contexts -> [Renderbuffers -> Drawables \cup {nobody}]]
         /\ drawRefs' \in [Drawables -> Int]
         /\ DrawablesRetained'
<1> DEFINE g == group[c]
           own(d) == {r \in Renderbuffers : bindings[g][r] = d}
<1>1. c \in Contexts /\ g \in Contexts /\ \E x \in ctxAlive : group[x] = g
  BY DEF GlesTypeOK
<1>2. CASE \E x \in ctxAlive \ {c} : group[x] = group[c]
  <2>1. UNCHANGED <<bindings, drawRefs>>
    BY <1>2 DEF dealloc_context
  <2>2. \A h : (\E x \in ctxAlive' : group'[x] = h) <=> (\E x \in ctxAlive : group[x] = h)
    BY <1>2
  <2>3. \A d \in Drawables : Backed(d)' = Backed(d)
    BY <2>1, <2>2 DEF Backed
  <2> QED BY <2>1, <2>3 DEF DrawablesRetained, GlesTypeOK
<1>3. CASE ~\E x \in ctxAlive \ {c} : group[x] = group[c]
  <2>1. /\ drawRefs' = [d \in Drawables |-> drawRefs[d] - Cardinality(own(d))]
        /\ bindings' = [bindings EXCEPT ![g] = [r \in Renderbuffers |-> nobody]]
    BY <1>3 DEF dealloc_context
  <2>2. \A h : (\E x \in ctxAlive' : group'[x] = h) <=> h # g /\ \E x \in ctxAlive : group[x] = h
    BY <1>3
  <2>3. \A h \in Contexts \ {g} : bindings'[h] = bindings[h]
    BY <2>1 DEF GlesTypeOK
  <2>4. ASSUME NEW d \in Drawables
        PROVE  /\ drawRefs'[d] = Cardinality(Backed(d)') /\ drawRefs'[d] \in Int
               /\ drawRefs[d] - Cardinality(own(d)) \in Int
    <3> DEFINE of == {b \in Backed(d) : b[1] = g}
    <3>1. Backed(d)' = Backed(d) \ of
      <4>1. \A b \in Contexts \X Renderbuffers : b \in Backed(d)' <=> b \in Backed(d) /\ b[1] # g
        BY <2>2, <2>3 DEF Backed
      <4>2. Backed(d)' \subseteq Contexts \X Renderbuffers /\ Backed(d) \subseteq Contexts \X Renderbuffers
        BY DEF Backed
      <4> QED BY <4>1, <4>2
    <3>2. IsFiniteSet(of) /\ Cardinality(own(d)) = Cardinality(of)
      BY <1>1, TableCounted
    <3>3. of \subseteq Backed(d) /\ Backed(d) \cap of = of
      OBVIOUS
    <3> HIDE DEF of, own
    <3>4. Cardinality(Backed(d) \ of) = Cardinality(Backed(d)) - Cardinality(of)
      BY <3>3, BackedFinite, FS_Difference
    <3>5. Cardinality(of) \in Nat /\ Cardinality(Backed(d)) \in Nat
      BY <3>2, BackedFinite, FS_CardinalityType
    <3>6. drawRefs[d] = Cardinality(Backed(d)) /\ drawRefs'[d] = drawRefs[d] - Cardinality(own(d))
      BY <2>1 DEF DrawablesRetained
    <3> QED BY <3>1, <3>2, <3>4, <3>5, <3>6
  <2>5. bindings' \in [Contexts -> [Renderbuffers -> Drawables \cup {nobody}]]
    BY <2>1 DEF GlesTypeOK
  <2>6. drawRefs' \in [Drawables -> Int]
    <3> HIDE DEF own
    <3> QED BY <2>1, <2>4
  <2> QED BY <2>4, <2>5, <2>6 DEF DrawablesRetained
<1> QED BY <1>2, <1>3

\* A context whose last reference is released is gone, and what it alone had
\* bound is released.
LEMMA ReleaseKeeps ==
  ASSUME GlesTypeOK, DrawablesRetained, NEW c \in ctxAlive, release_context(c), group' = group
  PROVE  /\ bindings' \in [Contexts -> [Renderbuffers -> Drawables \cup {nobody}]]
         /\ drawRefs' \in [Drawables -> Int]
         /\ DrawablesRetained'
         /\ ctxAlive' \in SUBSET ctxAlive
         /\ ctxAlive' = ctxAlive \/ (ctxAlive' = ctxAlive \ {c} /\ ~(CtxRefs(c) > 1))
<1>1. CASE CtxRefs(c) > 1
  <2>1. UNCHANGED <<ctxAlive, bindings, drawRefs>>
    BY <1>1 DEF release_context
  <2>2. \A d : Backed(d)' = Backed(d)
    BY <2>1 DEF Backed
  <2> QED BY <2>1, <2>2 DEF GlesTypeOK, DrawablesRetained
<1>2. CASE ~(CtxRefs(c) > 1)
  <2>1. ctxAlive' = ctxAlive \ {c} /\ dealloc_context(c)
    BY <1>2 DEF release_context
  <2> QED BY <1>2, <2>1, DeallocKeeps
<1> QED BY <1>1, <1>2

\* The guest gives up a reference.
LEMMA GuestReleases ==
  ASSUME TableInv, NEW c \in Contexts, guest_releases_context(c)
  PROVE  TableInv'
<1> USE DEF TableInv
<1>1. /\ ctxOwned[c] > 0 /\ release_context(c)
      /\ ctxOwned' = [ctxOwned EXCEPT ![c] = ctxOwned[c] - 1]
      /\ ctxOf' = ctxOf /\ group' = group
  BY DEF guest_releases_context
<1>2. c \in ctxAlive
  BY <1>1 DEF RefsInv
<1>3. /\ bindings' \in [Contexts -> [Renderbuffers -> Drawables \cup {nobody}]]
      /\ drawRefs' \in [Drawables -> Int]
      /\ DrawablesRetained'
      /\ ctxAlive' \in SUBSET ctxAlive
      /\ ctxAlive' = ctxAlive \/ (ctxAlive' = ctxAlive \ {c} /\ ~(CtxRefs(c) > 1))
  BY <1>1, <1>2, ReleaseKeeps
<1>4. GlesTypeOK'
  <2>1. ctxOwned[c] \in Nat /\ ctxOwned[c] - 1 \in Nat
    BY <1>1 DEF GlesTypeOK
  <2>2. ctxOwned' \in [Contexts -> Nat]
    BY <1>1, <2>1 DEF GlesTypeOK
  <2> QED BY <1>1, <1>3, <2>2 DEF GlesTypeOK
<1>5. RefsInv'
  <2>1. \A x \in Contexts : ctxOwned'[x] > 0 => ctxOwned[x] > 0
    BY <1>1 DEF GlesTypeOK
  <2>2. CASE ctxAlive' = ctxAlive
    BY <1>1, <2>1, <2>2 DEF RefsInv
  <2>3. CASE ctxAlive' = ctxAlive \ {c} /\ ~(CtxRefs(c) > 1)
    <3>1. ctxOwned'[c] = 0 /\ \A t \in GlThreads : ctxOf[t] # c
      BY <1>1, <2>3, LastReference DEF GlesTypeOK
    <3> QED BY <1>1, <2>1, <2>3, <3>1 DEF RefsInv
  <2> QED BY <1>3, <2>2, <2>3
<1> QED BY <1>3, <1>4, <1>5

\* A thread takes another context and gives up the one it had.
LEMMA SetKeepsTables ==
  ASSUME TableInv, NEW t \in GlThreads, NEW c \in Contexts \cup {nobody}, setCurrentContext(t, c)
  PROVE  TableInv'
<1> USE DEF TableInv
<1>1. /\ c \in ctxAlive \/ c = nobody
      /\ ctxOf' = [ctxOf EXCEPT ![t] = c]
      /\ ctxOwned' = ctxOwned /\ group' = group
  BY DEF setCurrentContext
<1>2. ctxOf' \in [GlThreads -> Contexts \cup {nobody}] /\ \A u \in GlThreads : ctxOf'[u] = IF u = t THEN c ELSE ctxOf[u]
  BY <1>1 DEF GlesTypeOK
<1>3. CASE ctxOf[t] \in {nobody, c}
  <2>1. UNCHANGED <<ctxAlive, bindings, drawRefs>>
    BY <1>3 DEF setCurrentContext
  <2>2. \A d : Backed(d)' = Backed(d)
    BY <1>1, <2>1 DEF Backed
  <2>3. GlesTypeOK' /\ DrawablesRetained'
    BY <1>1, <1>2, <2>1, <2>2 DEF GlesTypeOK, DrawablesRetained
  <2>4. RefsInv'
    BY <1>1, <1>2, <2>1 DEF RefsInv
  <2> QED BY <2>3, <2>4
<1>4. CASE ctxOf[t] \notin {nobody, c}
  <2> DEFINE old == ctxOf[t]
  <2>1. old \in ctxAlive /\ old \in Contexts /\ release_context(old)
    BY <1>4 DEF setCurrentContext, RefsInv, GlesTypeOK
  <2>2. /\ bindings' \in [Contexts -> [Renderbuffers -> Drawables \cup {nobody}]]
        /\ drawRefs' \in [Drawables -> Int]
        /\ DrawablesRetained'
        /\ ctxAlive' \in SUBSET ctxAlive
        /\ ctxAlive' = ctxAlive \/ (ctxAlive' = ctxAlive \ {old} /\ ~(CtxRefs(old) > 1))
    BY <1>1, <2>1, ReleaseKeeps
  <2>3. GlesTypeOK'
    BY <1>1, <1>2, <2>2 DEF GlesTypeOK
  <2>4. CASE ctxAlive' = ctxAlive
    <3>1. RefsInv'
      BY <1>1, <1>2, <2>4 DEF RefsInv
    <3> QED BY <2>2, <2>3, <3>1
  <2>5. CASE ctxAlive' = ctxAlive \ {old} /\ ~(CtxRefs(old) > 1)
    <3>1. ctxOwned[old] = 0 /\ \A u \in GlThreads : ctxOf[u] = old => u = t
      BY <2>1, <2>5, LastReference
    <3>2. RefsInv'
      BY <1>1, <1>2, <1>4, <2>5, <3>1 DEF RefsInv, GlesTypeOK
    <3> QED BY <2>2, <2>3, <3>2
  <2> QED BY <2>2, <2>4, <2>5
<1> QED BY <1>3, <1>4

\* A renderbuffer gets a drawable, which is retained, in place of another, which
\* is released.
LEMMA StorageKeeps ==
  ASSUME TableInv, NEW t \in GlThreads, NEW c \in Contexts, NEW r \in Renderbuffers,
         NEW d \in Drawables, renderbufferStorage(t, c, r, d)
  PROVE  TableInv'
<1> USE DEF TableInv
<1> DEFINE g == group[c]
           old == bindings[g][r]
           here == <<g, r>>
<1>1. /\ c \in ctxAlive /\ g \in Contexts /\ old \in Drawables \cup {nobody}
      /\ UNCHANGED <<ctxAlive, ctxOwned, ctxOf, group>>
      /\ bindings' = [bindings EXCEPT ![g] = [bindings[g] EXCEPT ![r] = d]]
  BY DEF renderbufferStorage, GlesTypeOK
<1>2. \A e \in Drawables : drawRefs[e] \in Int
  BY DEF GlesTypeOK
<1>3. /\ drawRefs' \in [Drawables -> Int]
      /\ \A e \in Drawables : drawRefs'[e] = drawRefs[e] + (IF e = d THEN 1 ELSE 0)
                                                         - (IF e = old THEN 1 ELSE 0)
  <2> DEFINE retained == [drawRefs EXCEPT ![d] = drawRefs[d] + 1]
  <2>1. /\ retained \in [Drawables -> Int]
        /\ \A e \in Drawables : retained[e] = drawRefs[e] + (IF e = d THEN 1 ELSE 0)
    BY <1>2 DEF GlesTypeOK
  <2>2. drawRefs' = IF old = nobody THEN retained ELSE [retained EXCEPT ![old] = retained[old] - 1]
    BY DEF renderbufferStorage
  <2> HIDE DEF retained
  <2>3. CASE old = nobody
    BY <1>2, <2>1, <2>2, <2>3, GlesNames
  <2>4. CASE old # nobody
    <3>1. old \in Drawables /\ retained[old] \in Int /\ retained[old] - 1 \in Int
      BY <1>1, <2>1, <2>4
    <3>2. drawRefs' = [retained EXCEPT ![old] = retained[old] - 1]
      BY <2>2, <2>4
    <3> HIDE DEF old
    <3>3. drawRefs' \in [Drawables -> Int]
      BY <2>1, <3>1, <3>2
    <3>4. \A e \in Drawables : drawRefs'[e] = IF e = old THEN retained[e] - 1 ELSE retained[e]
      BY <2>1, <3>2
    <3> QED BY <1>2, <2>1, <3>3, <3>4
  <2> QED BY <2>3, <2>4
<1>4. GlesTypeOK'
  <2>1. bindings' \in [Contexts -> [Renderbuffers -> Drawables \cup {nobody}]]
    BY <1>1 DEF GlesTypeOK
  <2> QED BY <1>1, <1>3, <2>1 DEF GlesTypeOK
<1>5. RefsInv'
  BY <1>1 DEF RefsInv
<1>6. ASSUME NEW e \in Drawables PROVE drawRefs'[e] = Cardinality(Backed(e)')
  <2>1. \A b \in Contexts \X Renderbuffers :
           bindings'[b[1]][b[2]] = IF b = here THEN d ELSE bindings[b[1]][b[2]]
    BY <1>1 DEF GlesTypeOK
  <2>2. here \in Contexts \X Renderbuffers /\ \E x \in ctxAlive : group[x] = here[1]
    BY <1>1
  <2>3. \A b : b \in Backed(e)' <=> /\ b \in Contexts \X Renderbuffers
                                    /\ bindings'[b[1]][b[2]] = e
                                    /\ \E x \in ctxAlive : group[x] = b[1]
    BY <1>1 DEF Backed
  <2>4. \A b : b \in Backed(e) <=> /\ b \in Contexts \X Renderbuffers
                                   /\ bindings[b[1]][b[2]] = e
                                   /\ \E x \in ctxAlive : group[x] = b[1]
    BY DEF Backed
  <2>5. drawRefs[e] = Cardinality(Backed(e)) /\ Cardinality(Backed(e)) \in Nat
    BY BackedFinite DEF DrawablesRetained
  <2>6. bindings[here[1]][here[2]] = old
    OBVIOUS
  <2> HIDE DEF here, old
  <2>7. CASE e = d /\ e # old
    <3>1. Backed(e)' = Backed(e) \cup {here} /\ here \notin Backed(e)
      BY <2>1, <2>2, <2>3, <2>4, <2>6, <2>7
    <3>2. Cardinality(Backed(e)') = Cardinality(Backed(e)) + 1
      BY <3>1, BackedFinite, FS_AddElement
    <3> QED BY <1>3, <2>5, <2>7, <3>2
  <2>8. CASE e # d /\ e = old
    <3>1. Backed(e)' = Backed(e) \ {here} /\ here \in Backed(e)
      BY <2>1, <2>2, <2>3, <2>4, <2>6, <2>8
    <3>2. Cardinality(Backed(e)') = Cardinality(Backed(e)) - 1
      BY <3>1, BackedFinite, FS_RemoveElement
    <3> QED BY <1>3, <2>5, <2>8, <3>2
  <2>9. CASE (e = d) = (e = old)
    <3>1. Backed(e)' = Backed(e)
      BY <2>1, <2>2, <2>3, <2>4, <2>6, <2>9
    <3> QED BY <1>3, <2>5, <2>9, <3>1
  <2> QED BY <2>7, <2>8, <2>9
<1>7. DrawablesRetained'
  BY <1>6 DEF DrawablesRetained
<1> QED BY <1>4, <1>5, <1>7

\* Every step keeps the references.
LEMMA TablesKept ==
  ASSUME TableInv, [ContextsNext \/ DrawingNext \/ FramesNext]_glesVars
  PROVE  TableInv'
<1>1. ASSUME NEW c \in Contexts, initWithAPI(c) PROVE TableInv'
  BY <1>1, NewContext
<1>2. ASSUME NEW c \in Contexts, NEW g \in Contexts, initWithAPI_sharegroup(c, g) PROVE TableInv'
  BY <1>2, NewShare
<1>3. ASSUME NEW c \in Contexts, guest_releases_context(c) PROVE TableInv'
  BY <1>3, GuestReleases
<1>4. ASSUME NEW t \in GlThreads, NEW c \in Contexts, NEW r \in Renderbuffers, NEW d \in Drawables,
             renderbufferStorage(t, c, r, d)
      PROVE TableInv'
  BY <1>4, StorageKeeps
<1>5. ASSUME NEW t \in GlThreads, NEW c \in Contexts \cup {nobody}, setCurrentContext(t, c)
      PROVE TableInv'
  BY <1>5, SetKeepsTables
<1>6. ASSUME NEW t \in GlThreads, GlCall(t) PROVE TableInv'
  BY <1>6, TablesSame DEF GlCall
<1>7. ASSUME NEW t \in GlThreads, glRaster(t, 1) PROVE TableInv'
  BY <1>6, <1>7, CallIsGlCall DEF glRaster
<1>8. CASE make_internal_gl_ctx_current
  BY <1>8, TablesSame DEF make_internal_gl_ctx_current
<1>9. CASE DrawingNext
  BY <1>6, <1>9, DrawingCalls
<1>10. CASE FramesNext
  BY <1>10, TablesSame DEF FramesNext, present_frame_time, tick, ctxVars
<1>11. CASE UNCHANGED glesVars
  BY <1>11, TablesSame DEF glesVars, ctxVars
<1> QED BY <1>1, <1>2, <1>3, <1>4, <1>5, <1>7, <1>8, <1>9, <1>10, <1>11 DEF ContextsNext

-----------------------------------------------------------------------------
(* OpenGL: frames                                                          *)

\* The next frame is due no earlier than now, nor than an interval after this
\* one.
LEMMA NextDue ==
  ASSUME NEW now \in Nat, NEW due \in Nat \cup {-1}
  PROVE  /\ limit_framerate(due, now) \in Nat
         /\ limit_framerate(due, now) >= now
         /\ due # -1 => limit_framerate(due, now) >= due + Interval
<1>1. Interval \in Nat \ {0}
  BY GlesConstants
<1>2. CASE due = -1
  BY <1>1, <1>2 DEF limit_framerate
<1>3. CASE due # -1 /\ ~(now > due + Interval)
  BY <1>1, <1>3 DEF limit_framerate
<1>4. CASE due # -1 /\ now > due + Interval
  <2> DEFINE x == now - due + Interval - 1
             p == Interval * (x \div Interval)
  <2>1. x \in Nat /\ due \in Nat
    BY <1>1, <1>4
  <2>2. p \in Nat /\ x < p + Interval
    <3>1. \A y \in Nat : \A i \in Nat \ {0} : y \div i \in Nat /\ i * (y \div i) \in Nat
                                              /\ y < i * (y \div i) + i
      <4>1. \A y \in Nat : \A i \in Nat \ {0} : y \div i \in Nat
        OBVIOUS
      <4>2. \A y \in Nat : \A i \in Nat \ {0} : y < i * (y \div i) + i
        OBVIOUS
      <4>3. \A i \in Nat : \A k \in Nat : i * k \in Nat
        OBVIOUS
      <4> QED BY <4>1, <4>2, <4>3
    <3> HIDE DEF x
    <3> QED BY <1>1, <2>1, <3>1
  <2>3. limit_framerate(due, now) = due + p
    BY <1>4 DEF limit_framerate
  <2> HIDE DEF p
  <2> QED BY <1>1, <1>4, <2>1, <2>2, <2>3
<1> QED BY <1>2, <1>3, <1>4

\* A present waits until the frame before it was due.
LEMMA PresentKeepsFrames ==
  ASSUME FramesInv, present_frame_time
  PROVE  FramesInv' /\ FrameRateKept'
<1> DEFINE n == Len(frames)
           all == Append(frames, clock)
           shift == IF Len(all) > FrameHistory THEN 1 ELSE 0
<1>1. Interval \in Nat \ {0} /\ clock \in Nat /\ frameDue \in Nat \cup {-1}
  BY GlesConstants DEF FramesInv
<1>2. /\ n \in Nat /\ n <= 5 /\ all \in Seq(Nat) /\ Len(all) = n + 1 /\ all # <<>>
      /\ all[n + 1] = clock /\ \A i \in 1 .. n : all[i] = frames[i] /\ frames[i] \in Nat
  <2>1. frames \in Seq(Nat) /\ n <= 5
    BY DEF FramesInv, FrameHistory
  <2>2. \A i \in 1 .. n : frames[i] \in Nat
    BY <2>1, ElementOfSeq
  <2> QED BY <1>1, <2>1, <2>2, Pushed
<1>3. /\ frameDue' \in Nat /\ frameDue' >= clock
      /\ frameDue # -1 => frameDue' >= frameDue + Interval
      /\ clock' \in Nat /\ clock' >= clock /\ clock' >= frameDue
      /\ frames' = IF Len(all) > FrameHistory THEN Tail(all) ELSE all
  <2>1. frameDue' = limit_framerate(frameDue, clock)
    BY DEF present_frame_time
  <2>2. clock' = IF frameDue > clock THEN frameDue ELSE clock
    BY DEF present_frame_time
  <2>3. frames' = IF Len(all) > FrameHistory THEN Tail(all) ELSE all
    BY DEF present_frame_time
  <2>4. /\ limit_framerate(frameDue, clock) \in Nat
        /\ limit_framerate(frameDue, clock) >= clock
        /\ frameDue # -1 => limit_framerate(frameDue, clock) >= frameDue + Interval
    BY <1>1, NextDue
  <2>5. clock' \in Nat /\ clock' >= clock /\ clock' >= frameDue
    BY <1>1, <2>2
  <2> QED BY <2>1, <2>3, <2>4, <2>5
<1>4. /\ frames' \in Seq(Nat) /\ frames' # <<>> /\ Len(frames') = n + 1 - shift
      /\ shift \in {0, 1} /\ Len(frames') <= 5 /\ (n = 5 <=> shift = 1)
      /\ \A i \in 1 .. n + 1 - shift : frames'[i] = all[i + shift]
  <2> HIDE DEF all, n
  <2>1. CASE n = 5
    <3>1. frames' = Tail(all) /\ shift = 1
      BY <1>2, <1>3, <2>1 DEF FrameHistory
    <3>2. /\ Tail(all) \in Seq(Nat) /\ Len(Tail(all)) = 5
          /\ \A i \in 1 .. 5 : Tail(all)[i] = all[i + 1]
      <4>1. /\ Tail(all) \in Seq(Nat) /\ Len(Tail(all)) = Len(all) - 1
            /\ \A i \in 1 .. Len(all) - 1 : Tail(all)[i] = all[i + 1]
        BY <1>2, HeadRest
      <4>2. Len(all) - 1 = 5
        BY <1>2, <2>1
      <4> QED BY <4>1, <4>2
    <3> DEFINE rest == Tail(all)
    <3> HIDE DEF shift, rest
    <3>3. shift = 1 /\ n + 1 - shift = 5
      BY <2>1, <3>1
    <3>4. rest \in Seq(Nat) /\ Len(rest) = 5 /\ \A i \in 1 .. 5 : rest[i] = all[i + 1]
      BY <3>2 DEF rest
    <3>5. frames' = rest
      BY <3>1 DEF rest
    <3>6. rest # <<>>
      <4>1. Len(<<>>) = 0
        OBVIOUS
      <4>2. Len(rest) # Len(<<>>)
        BY <3>4, <4>1
      <4> QED BY <4>2
    <3>7. \A i \in 1 .. n + 1 - shift : frames'[i] = all[i + shift]
      BY <3>3, <3>4, <3>5
    <3>8. frames' \in Seq(Nat) /\ frames' # <<>> /\ Len(frames') = 5
      BY <3>4, <3>5, <3>6
    <3> QED BY <2>1, <3>3, <3>7, <3>8
  <2>2. CASE n # 5
    <3>1. frames' = all /\ shift = 0
      BY <1>2, <1>3, <2>2 DEF FrameHistory
    <3> HIDE DEF shift
    <3> QED BY <1>2, <2>2, <3>1
  <2> QED BY <2>1, <2>2
<1>5. \A k \in Int : k * Interval \in Int /\ (k + 1) * Interval = k * Interval + Interval
  BY <1>1
<1>6. ASSUME NEW i \in 1 .. n
      PROVE  /\ frameDue >= frames[i] + (n - i) * Interval
             /\ clock >= frames[i] + (n - i - 1) * Interval
             /\ frameDue # -1
  BY <1>2, EmptySeq DEF FramesInv
<1> HIDE DEF n, all, shift
<1>7. ASSUME NEW i \in 1 .. n + 1
      PROVE  /\ frameDue' >= all[i] + (n + 1 - i) * Interval
             /\ clock' >= all[i] + (n + 1 - i - 1) * Interval
  <2>1. CASE i = n + 1
    <3>1. n + 1 - i = 0 /\ n + 1 - i - 1 = -1 /\ all[i] = clock
      BY <1>2, <2>1
    <3>2. 0 * Interval = 0 /\ (-1) * Interval = -Interval
      BY <1>1
    <3> QED BY <1>1, <1>3, <3>1, <3>2
  <2>2. CASE i # n + 1
    <3> DEFINE k == n - i
               p == k * Interval
    <3>1. i \in 1 .. n /\ k \in Nat /\ n + 1 - i = k + 1 /\ n + 1 - i - 1 = k /\ all[i] = frames[i]
          /\ frames[i] \in Nat
      BY <1>2, <2>2
    <3>2. p \in Int /\ (k + 1) * Interval = p + Interval
      BY <1>5, <3>1
    <3>3. frameDue >= frames[i] + p /\ frameDue # -1
      BY <1>6, <3>1
    <3>4. (n + 1 - i) * Interval = p + Interval /\ (n + 1 - i - 1) * Interval = p
      BY <3>1, <3>2
    <3> HIDE DEF k, p
    <3>5. frameDue' >= all[i] + (p + Interval) /\ clock' >= all[i] + p
      BY <1>1, <1>3, <3>1, <3>2, <3>3
    <3> QED BY <3>4, <3>5
  <2> QED BY <2>1, <2>2
<1>8. \A i \in 1 .. Len(frames') :
          /\ frameDue' >= frames'[i] + (Len(frames') - i) * Interval
          /\ clock' >= frames'[i] + (Len(frames') - i - 1) * Interval
  <2> TAKE i \in 1 .. Len(frames')
  <2>1. /\ i + shift \in 1 .. n + 1 /\ frames'[i] = all[i + shift]
        /\ Len(frames') - i = n + 1 - (i + shift)
    BY <1>2, <1>4
  <2> DEFINE j == i + shift
  <2>2. /\ frameDue' >= all[j] + (n + 1 - j) * Interval
        /\ clock' >= all[j] + (n + 1 - j - 1) * Interval
    BY <1>7, <2>1
  <2> HIDE DEF j
  <2>3. frames'[i] = all[j] /\ Len(frames') - i = n + 1 - j /\ Len(frames') - i - 1 = n + 1 - j - 1
    BY <1>2, <1>4, <2>1 DEF j
  <2> QED BY <2>2, <2>3
<1>9. Last(frames') = clock
  <2>1. Len(frames') = n + 1 - shift /\ Len(frames') + shift = n + 1 /\ Len(frames') \in 1 .. n + 1 - shift
    BY <1>2, <1>4
  <2> QED BY <1>2, <1>4, <2>1 DEF Last
<1>10. FramesInv'
  <2>1. frames' \in Seq(Nat) /\ Len(frames') <= FrameHistory
    BY <1>4 DEF FrameHistory
  <2>2. clock' \in Nat /\ frameDue' \in Nat \cup {-1} /\ frameDue' # -1 /\ clock' >= Last(frames')
    BY <1>3, <1>9
  <2> QED BY <1>8, <2>1, <2>2, Zenon DEF FramesInv
<1>11. FrameRateKept'
  <2> SUFFICES ASSUME Len(frames') = 5 PROVE Last(frames') - Head(frames') >= 2 * Interval
    BY DEF FrameRateKept, FrameHistory
  <2>1. Head(frames') = frames'[1] /\ frames'[1] = all[1 + shift] /\ n = 4 + shift
    <3>1. Head(frames') = frames'[1]
      BY <1>4, HeadRest
    <3>2. n = 4 + shift /\ n + 1 - shift = 5
      <4>1. n \in Nat /\ shift \in {0, 1} /\ 5 = n + 1 - shift
        BY <1>2, <1>4
      <4> QED BY <4>1
    <3>3. 1 \in 1 .. n + 1 - shift
      BY <3>2
    <3>4. frames'[1] = all[1 + shift]
      BY <1>4, <3>3
    <3> QED BY <3>1, <3>2, <3>4
  <2>2. 1 + shift \in 1 .. n /\ n - (1 + shift) - 1 = 2 /\ all[1 + shift] = frames[1 + shift]
        /\ frames[1 + shift] \in Nat
    BY <1>2, <1>4, <2>1
  <2>3. clock >= frames[1 + shift] + 2 * Interval
    BY <1>6, <2>2
  <2> QED BY <1>1, <1>9, <2>1, <2>2, <2>3
<1> QED BY <1>10, <1>11

\* Every other step leaves frames alone, or lets time pass.
LEMMA FramesKept ==
  ASSUME FramesInv, FrameRateKept, [ContextsNext \/ DrawingNext \/ FramesNext]_glesVars
  PROVE  FramesInv' /\ FrameRateKept'
<1>1. ASSUME UNCHANGED frameVars PROVE FramesInv' /\ FrameRateKept'
  BY <1>1 DEF frameVars, FramesInv, FrameRateKept
<1>2. CASE present_frame_time
  BY <1>2, PresentKeepsFrames
<1>3. CASE tick
  <2>1. clock' = clock + 1 /\ UNCHANGED <<frameDue, frames>>
    BY <1>3 DEF tick
  <2>2. clock \in Nat /\ \A i \in 1 .. Len(frames) :
           /\ frames[i] + (Len(frames) - i - 1) * Interval \in Int
           /\ clock >= frames[i] + (Len(frames) - i - 1) * Interval
    <3>1. clock \in Nat /\ Len(frames) \in Nat /\ Interval \in Nat
          /\ \A i \in 1 .. Len(frames) : frames[i] \in Nat
      BY GlesConstants, LenProperties, ElementOfSeq DEF FramesInv
    <3>2. \A i \in 1 .. Len(frames) : clock >= frames[i] + (Len(frames) - i - 1) * Interval
      BY DEF FramesInv
    <3>3. \A i \in 1 .. Len(frames) : (Len(frames) - i - 1) * Interval \in Int
      BY <3>1
    <3> QED BY <3>1, <3>2, <3>3
  <2>3. \A i \in 1 .. Len(frames) : clock + 1 >= frames[i] + (Len(frames) - i - 1) * Interval
    <3> TAKE i \in 1 .. Len(frames)
    <3> DEFINE p == frames[i] + (Len(frames) - i - 1) * Interval
    <3>1. p \in Int /\ clock >= p /\ clock \in Nat
      BY <2>2
    <3> HIDE DEF p
    <3>2. clock + 1 >= p
      BY <3>1
    <3> QED BY <3>2 DEF p
  <2>4. frames # <<>> => clock + 1 >= Last(frames)
    <3>1. ASSUME frames # <<>> PROVE Last(frames) \in Nat /\ clock >= Last(frames)
      BY <3>1, FrontLast DEF FramesInv
    <3> QED BY <2>2, <3>1
  <2>5. /\ frames \in Seq(Nat) /\ Len(frames) <= FrameHistory /\ frameDue \in Nat \cup {-1}
        /\ (frameDue = -1 => frames = <<>>) /\ clock + 1 \in Nat
        /\ \A i \in 1 .. Len(frames) : frameDue >= frames[i] + (Len(frames) - i) * Interval
    BY <2>2 DEF FramesInv
  <2>6. FramesInv'
    BY <2>1, <2>3, <2>4, <2>5, Zenon DEF FramesInv
  <2> QED BY <2>1, <2>6 DEF FrameRateKept
<1>4. ASSUME NEW t, glRaster(t, 1) PROVE UNCHANGED frameVars
  BY <1>4, CallIsGlCall DEF glRaster, GlCall
<1>5. ContextsNext => UNCHANGED frameVars
  BY <1>4 DEF ContextsNext, initWithAPI, initWithAPI_sharegroup, guest_releases_context,
              renderbufferStorage, setCurrentContext, make_internal_gl_ctx_current
<1>6. DrawingNext => UNCHANGED frameVars
  BY DrawingCalls DEF GlCall
<1>7. UNCHANGED glesVars => UNCHANGED frameVars
  BY DEF glesVars
<1> QED BY <1>1, <1>2, <1>3, <1>5, <1>6, <1>7 DEF FramesNext

-----------------------------------------------------------------------------
(* OpenGL: the theorems                                                    *)

\* What is true of the initial state.
LEMMA GlesStarts == GlesInit => ContextInv /\ TableInv /\ FramesInv /\ FrameRateKept
<1> SUFFICES ASSUME GlesInit PROVE ContextInv /\ TableInv /\ FramesInv /\ FrameRateKept
  OBVIOUS
<1>1. ContextInv
  BY DEF GlesInit, ContextInv, CallsReachOwnContext
<1>2. GlesTypeOK /\ RefsInv
  BY DEF GlesInit, GlesTypeOK, RefsInv
<1>3. \A d : Backed(d) = {}
  BY DEF GlesInit, Backed
<1>4. DrawablesRetained
  BY <1>3, FS_EmptySet DEF DrawablesRetained, GlesInit
<1>5. frames = <<>> /\ Len(frames) = 0 /\ clock = 0 /\ frameDue = -1
  BY DEF GlesInit
<1>6. FramesInv /\ FrameRateKept
  BY <1>5, EmptySeq DEF FramesInv, FrameRateKept, FrameHistory
<1> QED BY <1>1, <1>2, <1>4, <1>6 DEF TableInv

\* sync_context (gles_guest.rs, eagl.rs) finds the right context for every GL
\* call of any thread, whichever contexts the emulator and initWithAPI: made
\* current meanwhile, as long as threads that draw share a context ("one_thread")
\* and a thread without a context does not set none ("nil_current").
THEOREM OwnContextReached ==
  ASSUME {"one_thread", "nil_current"} \subseteq Careful
  PROVE  GlesSpec => []CallsReachOwnContext
<1>1. GlesInit => ContextInv /\ TableInv
  BY GlesStarts
<1>2. ContextInv /\ TableInv /\ [ContextsNext \/ DrawingNext \/ FramesNext]_glesVars
        => ContextInv' /\ TableInv'
  BY ContextsKept, TablesKept DEF TableInv
<1>3. ContextInv => CallsReachOwnContext
  BY DEF ContextInv
<1> QED BY <1>1, <1>2, <1>3, PTL DEF GlesSpec

\* presentRenderbuffer: keeps to the frame rate however long frames take, and
\* renderbufferStorage:fromDrawable: and dealloc keep every drawable retained as
\* often as renderbuffers of living contexts are backed by it.
THEOREM PresentsForEver == GlesSpec => []PresentedRight
<1>1. GlesInit => TableInv /\ FramesInv /\ FrameRateKept
  BY GlesStarts
<1>2. TableInv /\ FramesInv /\ FrameRateKept /\ [ContextsNext \/ DrawingNext \/ FramesNext]_glesVars
        => TableInv' /\ FramesInv' /\ FrameRateKept'
  BY TablesKept, FramesKept
<1>3. TableInv /\ FrameRateKept => PresentedRight
  BY DEF TableInv, PresentedRight
<1> QED BY <1>1, <1>2, <1>3, PTL DEF GlesSpec

-----------------------------------------------------------------------------
(* The linker                                                              *)

\* A function is the one a symbol stands for: a trampoline to the host's, or a
\* binary's.
Reaches(f, s) ==
    \/ \E n \in 1 .. Len(linkedFns) : f = traps(n) /\ linkedFns[n] = s /\ s \in hostExports
    \/ f = bin(s) /\ s \in binExports

Target(s) == IF s \in hostExports THEN host(s) ELSE bin(s)

\* A stub traps to be linked, or traps to its function, or jumps to it.
StubSound(k) ==
    \/ code[k] = <<"lazy">>
    \/ \E n \in 1 .. Len(linkedFns) : code[k] = <<"svc", n>> /\ linkedFns[n] = StubSymbol[k]
                                      /\ StubSymbol[k] \in hostExports
    \/ code[k] = <<"jump", SlotOf(k)>> /\ Reaches(slot[SlotOf(k)], StubSymbol[k])

Instructions == {<<"original">>, <<"lazy">>} \cup ({"svc", "jump"} \X Nat)

\* Translations are of the code as it is, and whatever has been linked, by
\* trampoline, stub or pointer, is linked to what its symbol stands for.
DyldInv ==
    /\ hostExports \subseteq Symbols /\ hostExports \cap binExports = {}
    /\ linkedFns \in Seq(Symbols)
    /\ trampolines \in [Symbols -> Nat]
    /\ \A s \in Symbols : trampolines[s] # 0 =>
          /\ trampolines[s] \in 1 .. Len(linkedFns) /\ linkedFns[trampolines[s]] = s
          /\ s \in hostExports
    /\ code \in [Stubs -> Instructions] /\ translated \in [Stubs -> Instructions \cup {<<>>}]
    /\ \A k \in Stubs : translated[k] = <<>> \/ translated[k] = code[k]
    /\ at = -1 => \A k \in Stubs : translated[k] = <<>>
    /\ at # -1 => \A k \in Stubs : StubSound(k)
    /\ at \in {-1, 0} \cup Stubs
    /\ DOMAIN slot = 1 .. Len(StubSymbol) + 2
    /\ \A s \in Pointed : pointer[s] = unset \/ Reaches(pointer[s], s)
    /\ DOMAIN called = Symbols
    /\ \A s \in Symbols : called[s] \subseteq {Target(s)}

\* The symbols of stubs, and their slots.
LEMMA StubFacts ==
  /\ Stubs = 1 .. Len(StubSymbol) /\ Len(StubSymbol) \in Nat
  /\ \A k \in Stubs : StubSymbol[k] \in Symbols /\ SlotOf(k) \in 1 .. Len(StubSymbol) + 2
  /\ \A k, j \in Stubs : SlotOf(k) = SlotOf(j) => k = j
<1>1. Stubs = 1 .. Len(StubSymbol) /\ Len(StubSymbol) \in Nat /\ \A k \in Stubs : StubSymbol[k] \in Symbols
  BY DyldAssumption, LenProperties, ElementOfSeq DEF Stubs
<1> QED BY <1>1 DEF SlotOf

\* A function that a symbol stands for ends in the one function.
LEMMA ReachesTarget ==
  ASSUME DyldInv, NEW s \in Symbols, NEW f, Reaches(f, s)
  PROVE  Ends(f) = Target(s)
<1>1. CASE \E n \in 1 .. Len(linkedFns) : f = traps(n) /\ linkedFns[n] = s /\ s \in hostExports
  BY <1>1 DEF Ends, Target, traps
<1>2. CASE f = bin(s) /\ s \in binExports
  BY <1>2 DEF Ends, Target, bin, DyldInv
<1> QED BY <1>1, <1>2 DEF Reaches

\* What was linked stays linked when another host function gets a number.
LEMMA NumbersStay ==
  ASSUME DyldInv, NEW s \in Symbols, s \in hostExports, linkedFns' = Append(linkedFns, s),
         UNCHANGED <<hostExports, binExports>>
  PROVE  /\ linkedFns' \in Seq(Symbols) /\ Len(linkedFns) \in Nat
         /\ Len(linkedFns') = Len(linkedFns) + 1
         /\ Len(linkedFns) + 1 \in 1 .. Len(linkedFns') /\ linkedFns'[Len(linkedFns) + 1] = s
         /\ \A n \in 1 .. Len(linkedFns) : n \in 1 .. Len(linkedFns') /\ linkedFns'[n] = linkedFns[n]
         /\ \A f, x : Reaches(f, x) => Reaches(f, x)'
<1>1. /\ linkedFns' \in Seq(Symbols) /\ Len(linkedFns) \in Nat
      /\ Len(linkedFns') = Len(linkedFns) + 1 /\ linkedFns'[Len(linkedFns) + 1] = s
      /\ \A n \in 1 .. Len(linkedFns) : linkedFns'[n] = linkedFns[n]
  BY Pushed DEF DyldInv
<1>2. /\ Len(linkedFns) + 1 \in 1 .. Len(linkedFns')
      /\ \A n \in 1 .. Len(linkedFns) : n \in 1 .. Len(linkedFns')
  BY <1>1
<1>3. ASSUME NEW f, NEW x, Reaches(f, x) PROVE Reaches(f, x)'
  <2>1. CASE \E n \in 1 .. Len(linkedFns) : f = traps(n) /\ linkedFns[n] = x /\ x \in hostExports
    BY <1>1, <1>2, <2>1 DEF Reaches, traps
  <2>2. CASE f = bin(x) /\ x \in binExports
    BY <2>2 DEF Reaches, bin
  <2> QED BY <1>3, <2>1, <2>2 DEF Reaches
<1> QED BY <1>1, <1>2, <1>3

\* Initial linking.
LEMMA LinkingKeeps ==
  ASSUME DyldInv, DoInitialLinking
  PROVE  DyldInv'
<1> DEFINE new == NonLazyHost
<1>1. PICK fns \in Surjection(1 .. Cardinality(new), new) :
        /\ at = -1 /\ at' = 0
        /\ code' = [k \in Stubs |-> <<"lazy">>]
        /\ linkedFns' = fns
        /\ trampolines' = [s \in Symbols |-> IF s \in new THEN CHOOSE n \in DOMAIN fns : fns[n] = s ELSE 0]
        /\ pointer' = [s \in Pointed |-> NonLazyTarget(trampolines', s)]
        /\ UNCHANGED <<hostExports, binExports, entrySize, translated, slot, called, linkPanic>>
  BY DEF DoInitialLinking
<1>2. new \subseteq Symbols /\ new \subseteq hostExports /\ new \subseteq Pointed
  BY DyldAssumption DEF NonLazyHost
<1> HIDE DEF new
<1>3. /\ fns \in [1 .. Cardinality(new) -> new]
      /\ DOMAIN fns = 1 .. Cardinality(new)
      /\ \A s \in new : \E n \in DOMAIN fns : fns[n] = s
  BY <1>1 DEF Surjection
<1>4. fns \in Seq(Symbols) /\ Len(fns) = Cardinality(new) /\ Cardinality(new) \in Nat
  <2>1. Cardinality(new) \in Nat
    BY <1>2, DyldAssumption, FS_Subset, FS_CardinalityType
  <2>2. fns \in [1 .. Cardinality(new) -> Symbols]
    BY <1>2, <1>3
  <2>3. fns \in Seq(Symbols)
    BY <2>1, <2>2, SeqDef
  <2> QED BY <1>3, <2>1, <2>3, LenProperties
<1>5. ASSUME NEW s \in Symbols
      PROVE  /\ trampolines'[s] \in Nat
             /\ trampolines'[s] # 0 <=> s \in new
             /\ s \in new => trampolines'[s] \in 1 .. Len(fns) /\ fns[trampolines'[s]] = s
  <2>1. CASE s \in new
    <3> DEFINE n == CHOOSE m \in DOMAIN fns : fns[m] = s
    <3>1. n \in DOMAIN fns /\ fns[n] = s
      BY <1>3, <2>1
    <3>2. trampolines'[s] = n
      BY <1>1, <2>1
    <3> HIDE DEF n
    <3> QED BY <1>3, <1>4, <2>1, <3>1, <3>2
  <2>2. CASE s \notin new
    BY <1>1, <2>2
  <2> QED BY <2>1, <2>2
<1>6. trampolines' \in [Symbols -> Nat]
  BY <1>1, <1>5
<1>7. ASSUME NEW s \in Pointed PROVE pointer'[s] = unset \/ Reaches(pointer[s], s)'
  <2>1. pointer'[s] = NonLazyTarget(trampolines', s) /\ s \in Symbols
    BY <1>1, DyldAssumption
  <2>2. CASE s \in binExports
    BY <1>1, <2>1, <2>2 DEF NonLazyTarget, Reaches
  <2>3. CASE s \notin binExports /\ s \in hostExports
    <3>1. s \in new
      BY <2>3 DEF new, NonLazyHost
    <3> QED BY <1>1, <1>5, <2>1, <2>3, <3>1 DEF NonLazyTarget, Reaches
  <2>4. CASE s \notin binExports /\ s \notin hostExports
    BY <2>1, <2>4 DEF NonLazyTarget
  <2> QED BY <2>2, <2>3, <2>4
<1>8. /\ code' \in [Stubs -> Instructions] /\ \A k \in Stubs : translated'[k] = <<>>
      /\ \A k \in Stubs : StubSound(k)'
  <2>1. \A k \in Stubs : code'[k] = <<"lazy">>
    BY <1>1
  <2> QED BY <1>1, <2>1 DEF DyldInv, Instructions, StubSound
<1>9. \A s \in Symbols : Target(s)' = Target(s)
  BY <1>1 DEF Target
<1> QED BY <1>1, <1>2, <1>4, <1>5, <1>6, <1>7, <1>8, <1>9 DEF DyldInv

\* A stub is restored, with its slot: no other stub jumps through it.
LEMMA RestoringKeeps ==
  ASSUME DyldInv, NEW k \in Stubs, at # -1, NEW f, Reaches(f, StubSymbol[k]),
         LinkByRestoringStub(k, f), at' = k,
         UNCHANGED <<hostExports, binExports, entrySize, trampolines, pointer, called>>
  PROVE  DyldInv'
<1>1. /\ code' = [code EXCEPT ![k] = <<"jump", SlotOf(k)>>]
      /\ translated' = [translated EXCEPT ![k] = <<>>]
      /\ slot' = [slot EXCEPT ![SlotOf(k)] = f]
      /\ linkedFns' = linkedFns
  BY DEF LinkByRestoringStub
<1>2. SlotOf(k) \in 1 .. Len(StubSymbol) + 2 /\ SlotOf(k) \in Nat /\ k # -1
  BY StubFacts
<1>3. /\ code' \in [Stubs -> Instructions] /\ translated' \in [Stubs -> Instructions \cup {<<>>}]
      /\ \A j \in Stubs : code'[j] = IF j = k THEN <<"jump", SlotOf(k)>> ELSE code[j]
      /\ \A j \in Stubs : translated'[j] = IF j = k THEN <<>> ELSE translated[j]
  BY <1>1, <1>2 DEF DyldInv, Instructions
<1>4. DOMAIN slot' = DOMAIN slot /\ slot'[SlotOf(k)] = f
      /\ \A i \in DOMAIN slot : i # SlotOf(k) => slot'[i] = slot[i]
  BY <1>1, <1>2 DEF DyldInv
<1>5. \A g, s : Reaches(g, s)' <=> Reaches(g, s)
  BY <1>1 DEF Reaches
<1>6. \A j : SlotOf(j)' = SlotOf(j)
  BY DEF SlotOf
<1>7. ASSUME NEW j \in Stubs PROVE StubSound(j)'
  <2>1. CASE j = k
    BY <1>3, <1>4, <1>5, <1>6, <2>1 DEF StubSound
  <2>2. CASE j # k
    <3>1. SlotOf(j) \in DOMAIN slot /\ SlotOf(j) # SlotOf(k)
      BY <2>2, StubFacts DEF DyldInv
    <3>2. code'[j] = code[j] /\ slot'[SlotOf(j)] = slot[SlotOf(j)]
      BY <1>3, <1>4, <2>2, <3>1
    <3>3. StubSound(j)
      BY DEF DyldInv
    <3> QED BY <1>1, <1>5, <1>6, <3>2, <3>3 DEF StubSound
  <2> QED BY <2>1, <2>2
<1>8. \A s \in Symbols : Target(s)' = Target(s)
  BY DEF Target
<1> QED BY <1>1, <1>2, <1>3, <1>4, <1>5, <1>7, <1>8 DEF DyldInv

\* A symbol's function is called, and nothing changes that linking depends on.
LEMMA ReachKeeps ==
  ASSUME DyldInv, NEW s \in Symbols, Reach(s, Target(s))
  PROVE  DOMAIN called' = Symbols /\ \A x \in Symbols : called'[x] \subseteq {Target(x)}
BY DEF Reach, DyldInv

\* A stub becomes a trap of its own to the host's function, which is called.
LEMMA LinkToHostKeeps ==
  ASSUME DyldInv, NEW k \in Stubs, at # -1, StubSymbol[k] \in hostExports,
         LinkToHost(k, StubSymbol[k]), at' = 0, Reach(StubSymbol[k], host(StubSymbol[k])),
         UNCHANGED <<hostExports, binExports, entrySize, trampolines, pointer>>
  PROVE  DyldInv'
<1> DEFINE s == StubSymbol[k]
           new == Len(linkedFns) + 1
<1>1. /\ code' = [code EXCEPT ![k] = <<"svc", new>>]
      /\ translated' = [translated EXCEPT ![k] = <<>>]
      /\ linkedFns' = Append(linkedFns, s) /\ slot' = slot
  BY DEF LinkToHost
<1>2. s \in Symbols
  BY StubFacts
<1>3. /\ linkedFns' \in Seq(Symbols) /\ Len(linkedFns) \in Nat
      /\ new \in 1 .. Len(linkedFns') /\ linkedFns'[new] = s
      /\ \A n \in 1 .. Len(linkedFns) : n \in 1 .. Len(linkedFns') /\ linkedFns'[n] = linkedFns[n]
      /\ \A f, x : Reaches(f, x) => Reaches(f, x)'
  BY <1>1, <1>2, NumbersStay
<1>4. new \in Nat
  BY <1>3
<1> HIDE DEF new
<1>5. /\ code' \in [Stubs -> Instructions] /\ translated' \in [Stubs -> Instructions \cup {<<>>}]
      /\ \A j \in Stubs : code'[j] = IF j = k THEN <<"svc", new>> ELSE code[j]
      /\ \A j \in Stubs : translated'[j] = IF j = k THEN <<>> ELSE translated[j]
  BY <1>1, <1>4 DEF DyldInv, Instructions
<1>6. ASSUME NEW j \in Stubs PROVE StubSound(j)'
  <2>1. CASE j = k
    BY <1>3, <1>5, <2>1 DEF StubSound
  <2>2. CASE j # k
    <3>1. StubSound(j) /\ code'[j] = code[j]
      BY <1>5, <2>2 DEF DyldInv
    <3>2. SlotOf(j)' = SlotOf(j)
      BY DEF SlotOf
    <3> QED BY <1>1, <1>3, <3>1, <3>2 DEF StubSound
  <2> QED BY <2>1, <2>2
<1>7. host(s) = Target(s)
  BY DEF Target
<1>8. DOMAIN called' = Symbols /\ \A x \in Symbols : called'[x] \subseteq {Target(x)}
  BY <1>2, <1>7, ReachKeeps
<1>9. \A x \in Symbols : Target(x)' = Target(x)
  BY DEF Target
<1> QED BY <1>1, <1>3, <1>5, <1>6, <1>8, <1>9 DEF DyldInv

\* A translation is of the code as it is.
LEMMA TranslationKept ==
  ASSUME DyldInv, NEW k \in Stubs, translated' = [translated EXCEPT ![k] = code[k]]
  PROVE  /\ translated' \in [Stubs -> Instructions \cup {<<>>}]
         /\ \A j \in Stubs : translated'[j] = <<>> \/ translated'[j] = code[j]
<1>1. /\ code \in [Stubs -> Instructions] /\ translated \in [Stubs -> Instructions \cup {<<>>}]
      /\ \A j \in Stubs : translated[j] = <<>> \/ translated[j] = code[j]
  BY DEF DyldInv
<1>2. code[k] \in Instructions
  BY <1>1
<1>3. \A j \in Stubs : translated'[j] = IF j = k THEN code[k] ELSE translated[j]
  BY <1>1
<1> QED BY <1>1, <1>2, <1>3

\* A function is called through what has been linked, which stays as it is, but
\* for a translation of the code.
LEMMA CallKeeps ==
  ASSUME DyldInv, NEW s \in Symbols, Reach(s, Target(s)), at # -1, at' = 0,
         \/ translated' = translated
         \/ \E k \in Stubs : translated' = [translated EXCEPT ![k] = code[k]],
         UNCHANGED <<hostExports, binExports, entrySize, code, slot, linkedFns, trampolines, pointer>>
  PROVE  DyldInv'
<1>1. DOMAIN called' = Symbols /\ \A x \in Symbols : called'[x] \subseteq {Target(x)}
  BY ReachKeeps
<1>2. /\ translated' \in [Stubs -> Instructions \cup {<<>>}]
      /\ \A j \in Stubs : translated'[j] = <<>> \/ translated'[j] = code[j]
  BY TranslationKept DEF DyldInv
<1>3. \A g, x : Reaches(g, x)' <=> Reaches(g, x)
  BY DEF Reaches
<1>4. \A j \in Stubs : StubSound(j)' <=> StubSound(j)
  BY <1>3 DEF StubSound, SlotOf
<1>5. \A x \in Symbols : Target(x)' = Target(x)
  BY DEF Target
<1> QED BY <1>1, <1>2, <1>3, <1>4, <1>5 DEF DyldInv

\* The guest enters a stub.
LEMMA EnterKeeps ==
  ASSUME DyldInv, EnterStub
  PROVE  DyldInv'
<1>1. PICK k \in Stubs : at = 0 /\ at' = k
  BY DEF EnterStub
<1>2. UNCHANGED <<hostExports, binExports, entrySize, code, translated, slot, linkedFns,
                  trampolines, pointer, called>>
  BY DEF EnterStub
<1>3. k # -1
  BY StubFacts
<1>4. \A g, x : Reaches(g, x)' <=> Reaches(g, x)
  BY <1>2 DEF Reaches
<1>5. \A j \in Stubs : StubSound(j)' <=> StubSound(j)
  BY <1>2, <1>4 DEF StubSound, SlotOf
<1>6. \A x \in Symbols : Target(x)' = Target(x)
  BY <1>2 DEF Target
<1> QED BY <1>1, <1>2, <1>3, <1>4, <1>5, <1>6 DEF DyldInv

\* The CPU translates ahead.
LEMMA AheadKeeps ==
  ASSUME DyldInv, TranslateAhead
  PROVE  DyldInv'
<1>1. PICK k \in Stubs : at = 0 /\ translated' = [translated EXCEPT ![k] = code[k]]
  BY DEF TranslateAhead
<1>2. UNCHANGED <<hostExports, binExports, entrySize, code, slot, linkedFns,
                  trampolines, pointer, at, called>>
  BY DEF TranslateAhead
<1>3. /\ translated' \in [Stubs -> Instructions \cup {<<>>}]
      /\ \A j \in Stubs : translated'[j] = <<>> \/ translated'[j] = code[j]
  BY <1>1, TranslationKept
<1>4. \A g, x : Reaches(g, x)' <=> Reaches(g, x)
  BY <1>2 DEF Reaches
<1>5. \A j \in Stubs : StubSound(j)' <=> StubSound(j)
  BY <1>2, <1>4 DEF StubSound, SlotOf
<1>6. \A x \in Symbols : Target(x)' = Target(x)
  BY <1>2 DEF Target
<1> QED BY <1>1, <1>2, <1>3, <1>4, <1>5, <1>6 DEF DyldInv

\* do_lazy_link.
LEMMA LazyLinkKeeps ==
  ASSUME DyldInv, NEW k \in Stubs, at # -1, DoLazyLink(k),
         UNCHANGED <<hostExports, binExports, entrySize, trampolines, pointer>>
  PROVE  DyldInv'
<1> DEFINE s == StubSymbol[k]
<1>1. s \in Symbols
  BY StubFacts
<1>2. CASE /\ trampolines[s] # 0
           /\ LinkByRestoringStub(k, traps(trampolines[s])) /\ at' = k /\ UNCHANGED <<called, linkPanic>>
  <2>1. Reaches(traps(trampolines[s]), s)
    BY <1>1, <1>2 DEF DyldInv, Reaches
  <2> QED BY <1>2, <2>1, RestoringKeeps
<1>3. CASE /\ trampolines[s] = 0 /\ s \in hostExports
           /\ LinkToHost(k, s) /\ at' = 0 /\ Reach(s, host(s)) /\ UNCHANGED linkPanic
  BY <1>3, LinkToHostKeeps
<1>4. CASE /\ trampolines[s] = 0 /\ s \notin hostExports /\ s \in binExports
           /\ LinkByRestoringStub(k, bin(s)) /\ at' = k /\ UNCHANGED <<called, linkPanic>>
  <2>1. Reaches(bin(s), s)
    BY <1>4 DEF Reaches
  <2> QED BY <1>4, <2>1, RestoringKeeps
<1>5. CASE /\ trampolines[s] = 0 /\ s \notin hostExports \cup binExports
           /\ linkPanic' = TRUE /\ at' = 0 /\ UNCHANGED <<code, translated, slot, linkedFns, called>>
  <2>1. \A g, x : Reaches(g, x)' <=> Reaches(g, x)
    BY <1>5 DEF Reaches
  <2>2. \A j \in Stubs : StubSound(j)' <=> StubSound(j)
    BY <1>5, <2>1 DEF StubSound, SlotOf
  <2>3. \A x \in Symbols : Target(x)' = Target(x)
    BY DEF Target
  <2> QED BY <1>5, <2>1, <2>2, <2>3 DEF DyldInv
<1> QED BY <1>2, <1>3, <1>4, <1>5 DEF DoLazyLink

\* A stub runs as it is, whether the CPU had translated it or not: an
\* instruction to link is linked, and any other reaches the stub's function.
LEMMA RunKeeps ==
  ASSUME DyldInv, RunStub
  PROVE  DyldInv'
<1> DEFINE s == StubSymbol[at]
           instr == IF translated[at] # <<>> THEN translated[at] ELSE code[at]
<1>1. at > 0 /\ UNCHANGED <<hostExports, binExports, entrySize, trampolines, pointer>>
  BY DEF RunStub
<1>2. at \in Stubs /\ at # -1
  BY <1>1 DEF DyldInv
<1>3. instr = code[at] /\ StubSound(at) /\ s \in Symbols
  BY <1>2, StubFacts DEF DyldInv
<1>4. CASE instr[1] = "lazy"
  <2>1. DoLazyLink(at)
    BY <1>4 DEF RunStub
  <2> QED BY <1>1, <1>2, <2>1, LazyLinkKeeps
<1>5. CASE instr[1] # "lazy"
  <2> DEFINE f == IF instr[1] = "svc" THEN host(linkedFns[instr[2]]) ELSE Ends(slot[instr[2]])
  <2>1. /\ translated' = [translated EXCEPT ![at] = instr] /\ at' = 0 /\ Reach(s, f)
        /\ UNCHANGED <<code, slot, linkedFns>>
    BY <1>5 DEF RunStub
  <2>2. code[at][1] # "lazy" /\ code[at] # <<"lazy">>
    BY <1>3, <1>5
  <2>3. f = Target(s)
    <3>1. CASE \E n \in 1 .. Len(linkedFns) : code[at] = <<"svc", n>> /\ linkedFns[n] = s
                                              /\ s \in hostExports
      BY <1>3, <3>1 DEF Target
    <3>2. CASE code[at] = <<"jump", SlotOf(at)>> /\ Reaches(slot[SlotOf(at)], s)
      <4>1. f = Ends(slot[SlotOf(at)])
        BY <1>3, <3>2
      <4> HIDE DEF f
      <4> QED BY <1>3, <3>2, <4>1, ReachesTarget
    <3> QED BY <1>3, <2>2, <3>1, <3>2 DEF StubSound
  <2> HIDE DEF f
  <2>4. Reach(s, Target(s)) /\ translated' = [translated EXCEPT ![at] = code[at]]
    BY <1>3, <2>1, <2>3
  <2> HIDE DEF s
  <2> QED BY <1>1, <1>2, <1>3, <2>1, <2>4, CallKeeps
<1> QED BY <1>4, <1>5

\* A linked pointer is called.
LEMMA PointerKeeps ==
  ASSUME DyldInv, CallPointer
  PROVE  DyldInv'
<1>1. PICK s \in Pointed : at = 0 /\ pointer[s] # unset /\ Reach(s, Ends(pointer[s]))
  BY DEF CallPointer
<1>2. UNCHANGED <<hostExports, binExports, entrySize, code, translated, slot, linkedFns,
                  trampolines, pointer, at>>
  BY DEF CallPointer
<1>3. s \in Symbols /\ Reaches(pointer[s], s)
  BY <1>1, DyldAssumption DEF DyldInv
<1>4. Reach(s, Target(s))
  BY <1>1, <1>3, ReachesTarget
<1> QED BY <1>1, <1>2, <1>3, <1>4, CallKeeps

\* create_proc_address: the trampoline there is, or one more.
LEMMA DlsymKeeps ==
  ASSUME DyldInv, Dlsym
  PROVE  DyldInv'
<1> DEFINE new(s) == WithTrampoline([fns |-> linkedFns, tramp |-> trampolines], s)
<1>1. PICK s \in hostExports :
        /\ at = 0 /\ linkedFns' = new(s).fns /\ trampolines' = new(s).tramp
        /\ Reach(s, host(new(s).fns[new(s).tramp[s]]))
  BY DEF Dlsym
<1>2. UNCHANGED <<hostExports, binExports, entrySize, code, translated, slot, pointer, at>>
  BY DEF Dlsym
<1>3. s \in Symbols
  BY <1>1 DEF DyldInv
<1>4. CASE trampolines[s] # 0
  <2>1. linkedFns' = linkedFns /\ trampolines' = trampolines
    BY <1>1, <1>4 DEF WithTrampoline
  <2>2. new(s).fns = linkedFns /\ new(s).tramp = trampolines
    BY <1>4 DEF WithTrampoline
  <2>3. linkedFns[trampolines[s]] = s
    BY <1>3, <1>4 DEF DyldInv
  <2>4. Reach(s, Target(s))
    BY <1>1, <2>2, <2>3 DEF Target
  <2> QED BY <1>1, <1>2, <1>3, <2>1, <2>4, CallKeeps
<1>5. CASE trampolines[s] = 0
  <2> DEFINE n == Len(linkedFns) + 1
  <2>1. linkedFns' = Append(linkedFns, s) /\ trampolines' = [trampolines EXCEPT ![s] = n]
    BY <1>1, <1>5 DEF WithTrampoline
  <2>2. new(s).fns = Append(linkedFns, s) /\ new(s).tramp = [trampolines EXCEPT ![s] = n]
    BY <1>5 DEF WithTrampoline
  <2>3. /\ linkedFns' \in Seq(Symbols) /\ Len(linkedFns) \in Nat
        /\ n \in 1 .. Len(linkedFns') /\ linkedFns'[n] = s
        /\ \A m \in 1 .. Len(linkedFns) : m \in 1 .. Len(linkedFns') /\ linkedFns'[m] = linkedFns[m]
        /\ \A f, x : Reaches(f, x) => Reaches(f, x)'
    BY <1>1, <1>2, <1>3, <2>1, NumbersStay
  <2>4. n \in Nat
    BY <2>3
  <2> HIDE DEF n
  <2>5. /\ trampolines' \in [Symbols -> Nat]
        /\ \A x \in Symbols : trampolines'[x] = IF x = s THEN n ELSE trampolines[x]
    BY <2>1, <2>4 DEF DyldInv
  <2>6. \A x \in Symbols : trampolines'[x] # 0 =>
          /\ trampolines'[x] \in 1 .. Len(linkedFns') /\ linkedFns'[trampolines'[x]] = x
          /\ x \in hostExports
    <3>1. ASSUME NEW x \in Symbols, x # s, trampolines[x] # 0
          PROVE  trampolines[x] \in 1 .. Len(linkedFns) /\ linkedFns[trampolines[x]] = x /\ x \in hostExports
      BY <3>1 DEF DyldInv
    <3> QED BY <1>1, <2>3, <2>5, <3>1
  <2>7. Reach(s, Target(s))
    <3>1. new(s).fns[new(s).tramp[s]] = s
      BY <2>1, <2>2, <2>3, <2>5, <1>3
    <3> QED BY <1>1, <3>1 DEF Target
  <2>8. DOMAIN called' = Symbols /\ \A x \in Symbols : called'[x] \subseteq {Target(x)}
    BY <1>3, <2>7, ReachKeeps
  <2>9. \A j \in Stubs : StubSound(j) => StubSound(j)'
    BY <1>2, <2>3 DEF StubSound, SlotOf
  <2>10. \A x \in Symbols : Target(x)' = Target(x)
    BY <1>2 DEF Target
  <2> QED BY <1>1, <1>2, <2>3, <2>5, <2>6, <2>8, <2>9, <2>10 DEF DyldInv
<1> QED BY <1>4, <1>5

\* setup_lazy_linking, do_non_lazy_linking, do_lazy_link and create_proc_address:
\* as long as no binary defines a symbol that the host's libraries export too, a
\* symbol reaches one function, its own, by every way there is to call it.
THEOREM SameFunctionForEver ==
  ASSUME "clash" \in DyldCareful
  PROVE  DyldSpec => []SameFunction
<1>1. DyldInit => DyldInv
  <2> SUFFICES ASSUME DyldInit PROVE DyldInv
    OBVIOUS
  <2>1. /\ hostExports \subseteq Symbols /\ hostExports \cap binExports = {}
        /\ linkedFns = <<>> /\ at = -1
        /\ trampolines = [s \in Symbols |-> 0] /\ called = [s \in Symbols |-> {}]
        /\ pointer = [s \in Pointed |-> unset]
    BY DEF DyldInit
  <2>2. linkedFns \in Seq(Symbols)
    BY <2>1
  <2>3. /\ code \in [Stubs -> Instructions] /\ translated \in [Stubs -> Instructions \cup {<<>>}]
        /\ \A k \in Stubs : translated[k] = <<>>
    BY DEF DyldInit, Instructions
  <2>4. DOMAIN slot = 1 .. Len(StubSymbol) + 2
    BY DEF DyldInit
  <2> QED BY <2>1, <2>2, <2>3, <2>4 DEF DyldInv
<1>2. DyldInv /\ [DyldNext]_dyldVars => DyldInv'
  <2> SUFFICES ASSUME DyldInv, [DyldNext]_dyldVars PROVE DyldInv'
    OBVIOUS
  <2>1. CASE DoInitialLinking
    BY <2>1, LinkingKeeps
  <2>2. CASE EnterStub
    BY <2>2, EnterKeeps
  <2>3. CASE RunStub
    BY <2>3, RunKeeps
  <2>4. CASE TranslateAhead
    BY <2>4, AheadKeeps
  <2>5. CASE CallPointer
    BY <2>5, PointerKeeps
  <2>6. CASE Dlsym
    BY <2>6, DlsymKeeps
  <2>7. CASE UNCHANGED dyldVars
    BY <2>7 DEF dyldVars, DyldInv, StubSound, Reaches, Target, SlotOf
  <2> QED BY <2>1, <2>2, <2>3, <2>4, <2>5, <2>6, <2>7 DEF DyldNext
<1>3. DyldInv => SameFunction
  <2> SUFFICES ASSUME DyldInv, NEW s \in Symbols
               PROVE  Cardinality(called[s]) <= 1 /\ \A f \in called[s] : f.name = s
    BY DEF SameFunction
  <2>1. called[s] \subseteq {Target(s)}
    BY DEF DyldInv
  <2>2. Cardinality(called[s]) <= 1
    <3>1. called[s] = {} \/ called[s] = {Target(s)}
      BY <2>1
    <3> QED BY <3>1, FS_EmptySet, FS_Singleton
  <2>3. Target(s).name = s
    BY DEF Target, host, bin
  <2> QED BY <2>1, <2>2, <2>3
<1> QED BY <1>1, <1>2, <1>3, PTL DEF DyldSpec

-----------------------------------------------------------------------------
(* The notification centre                                                 *)

Registration == [observer : Observers, object : Posters \cup {anyObject}]
PostFrame == [rest : Seq(Registration), poster : Posters, current : Observers \cup {anyObject}]
NotifTypeOK ==
    /\ observers \in [Names -> Seq(Registration)] /\ \A n \in Names : Len(observers[n]) <= MaxRegistered
    /\ obsRefs \in [Observers -> Int] /\ obsOwned \in [Observers -> Nat]
    /\ posts \in Seq(PostFrame)

\* The registrations of an observer, and the posts that are calling it.
Of(o) == {r \in Registration : r.observer = o}
Calls(o) == {f \in PostFrame : f.current = o}
RegisteredCount(o) == Cardinality(ItemsIn(observers, Names, MaxRegistered, Of(o)))
RunningCount(o) == Cardinality(ItemsOf(posts, Calls(o)))

\* The observers' counts are exact.
NotifInv ==
    /\ NotifTypeOK
    /\ \A o \in Observers : obsRefs[o] = obsOwned[o] + RegisteredCount(o) + RunningCount(o)

\* What remove_observers_internal does with the list so far: s.left remains,
\* and s.i is looked at next.
StepOver(s, o, obj) ==
    IF s.i > Len(s.left) THEN s
    ELSE IF ~Matches(s.left[s.i], o, obj) THEN [s EXCEPT !.i = @ + 1]
    ELSE [s EXCEPT !.left = [j \in 1..(Len(s.left) - 1) |->
                                IF j = s.i THEN Last(s.left) ELSE s.left[j]]]
RemovalLoop(list, o, obj) ==
    CHOOSE f : f = [k \in 0..Len(list) |->
                     IF k = 0 THEN [left |-> list, i |-> 1] ELSE StepOver(f[k - 1], o, obj)]

\* The loop of the function is this one.
LEMMA RemovalIsLoop ==
  ASSUME NEW list, NEW o, NEW obj
  PROVE  remove_observers_internal(list, o, obj) = RemovalLoop(list, o, obj)[Len(list)].left
BY DEF remove_observers_internal, RemovalLoop, StepOver

\* What remains of a list from which only registrations of o were removed.
Kept(list, o, left) ==
    /\ left \in Seq(Registration) /\ Len(left) <= Len(list)
    /\ \A x \in Observers :
         Cardinality(ItemsOf(list, Of(x))) =
           Cardinality(ItemsOf(left, Of(x))) + IF x = o THEN Len(list) - Len(left) ELSE 0
LoopState == [left : Seq(Registration), i : Nat \ {0}]
KeptState(list, o) == {s \in LoopState : Kept(list, o, s.left)}

\* A step of the loop.
LEMMA StepOverKeeps ==
  ASSUME NEW list \in Seq(Registration), NEW o \in Observers, NEW obj, NEW s \in KeptState(list, o)
  PROVE  StepOver(s, o, obj) \in KeptState(list, o)
<1>1. s \in LoopState /\ Kept(list, o, s.left)
  BY DEF KeptState
<1>2. s.left \in Seq(Registration) /\ s.i \in Nat \ {0} /\ Len(s.left) \in Nat
  BY <1>1 DEF LoopState
<1>3. CASE s.i > Len(s.left)
  BY <1>3 DEF StepOver
<1>4. CASE ~(s.i > Len(s.left)) /\ ~Matches(s.left[s.i], o, obj)
  <2>1. StepOver(s, o, obj) = [s EXCEPT !.i = @ + 1]
    BY <1>4 DEF StepOver
  <2>2. s.i + 1 \in Nat \ {0}
    BY <1>2
  <2>3. [s EXCEPT !.i = @ + 1] \in LoopState /\ [s EXCEPT !.i = @ + 1].left = s.left
    BY <1>1, <2>2 DEF LoopState
  <2> QED BY <1>1, <2>1, <2>3 DEF KeptState
<1>5. CASE ~(s.i > Len(s.left)) /\ Matches(s.left[s.i], o, obj)
  <2>0. PICK t : t = SwapRemoved(s.left, s.i)
    OBVIOUS
  <2>1. StepOver(s, o, obj) = [s EXCEPT !.left = t]
    BY <1>5, <2>0 DEF StepOver, SwapRemoved
  <2>2. s.i \in 1 .. Len(s.left)
    BY <1>2, <1>5
  <2>3. s.left[s.i] \in Registration /\ s.left[s.i].observer = o
    BY <1>2, <1>5, <2>2, ElementOfSeq DEF Matches
  <2>4. t \in Seq(Registration) /\ Len(t) = Len(s.left) - 1
    BY <1>2, <2>0, <2>2, ItemsSwapRemove, Zenon
  <2>5. ASSUME NEW x \in Observers
        PROVE  Cardinality(ItemsOf(t, Of(x))) = Cardinality(ItemsOf(s.left, Of(x))) - IF x = o THEN 1 ELSE 0
    <3>1. OneLess(s.left, s.i, t, Of(x))
      BY <1>2, <2>0, <2>2, ItemsSwapRemove, Zenon
    <3>2. s.left[s.i] \in Of(x) <=> x = o
      BY <2>3 DEF Of
    <3> QED BY <3>1, <3>2 DEF OneLess
  <2>6. Kept(list, o, t)
    <3>1. Len(t) <= Len(list) /\ Len(list) \in Nat /\ Len(s.left) \in Nat
      BY <1>1, <1>2, <2>4 DEF Kept
    <3>2. ASSUME NEW x \in Observers
          PROVE  Cardinality(ItemsOf(list, Of(x))) =
                   Cardinality(ItemsOf(t, Of(x))) + IF x = o THEN Len(list) - Len(t) ELSE 0
      <4>1. Cardinality(ItemsOf(s.left, Of(x))) \in Nat
        BY <1>2, ItemsFinite
      <4>2. Cardinality(ItemsOf(list, Of(x))) =
              Cardinality(ItemsOf(s.left, Of(x))) + IF x = o THEN Len(list) - Len(s.left) ELSE 0
        BY <1>1 DEF Kept
      <4>3. CASE x = o
        <5>1. Cardinality(ItemsOf(t, Of(x))) = Cardinality(ItemsOf(s.left, Of(x))) - 1
          BY <2>5, <4>3
        <5>2. Cardinality(ItemsOf(list, Of(x))) =
                Cardinality(ItemsOf(s.left, Of(x))) + (Len(list) - Len(s.left))
          BY <4>2, <4>3
        <5>3. Len(t) = Len(s.left) - 1
          BY <2>4
        <5>4. Cardinality(ItemsOf(list, Of(x))) = Cardinality(ItemsOf(t, Of(x))) + (Len(list) - Len(t))
          <6>1. /\ Cardinality(ItemsOf(list, Of(x))) \in Int /\ Cardinality(ItemsOf(t, Of(x))) \in Int
                /\ Cardinality(ItemsOf(s.left, Of(x))) \in Int
                /\ Len(list) \in Int /\ Len(s.left) \in Int /\ Len(t) \in Int
            BY <1>2, <2>4, ItemsFinite, LenProperties
          <6>2. PICK a, b, c, all, before, now \in Int :
                  /\ a = Cardinality(ItemsOf(list, Of(x))) /\ b = Cardinality(ItemsOf(t, Of(x)))
                  /\ c = Cardinality(ItemsOf(s.left, Of(x)))
                  /\ all = Len(list) /\ before = Len(s.left) /\ now = Len(t)
            BY <6>1, Zenon
          <6>3. b = c - 1 /\ a = c + (all - before) /\ now = before - 1
            BY <5>1, <5>2, <5>3, <6>2
          <6>4. a = b + (all - now)
            BY <6>3
          <6> QED BY <6>2, <6>4
        <5> QED BY <4>3, <5>4
      <4>4. CASE x # o
        <5>1. Cardinality(ItemsOf(t, Of(x))) = Cardinality(ItemsOf(s.left, Of(x))) - 0
          BY <2>5, <4>4
        <5> QED BY <4>1, <4>2, <4>4, <5>1
      <4> QED BY <4>3, <4>4
    <3> QED BY <2>4, <3>1, <3>2 DEF Kept
  <2>7. [s EXCEPT !.left = t] \in LoopState /\ [s EXCEPT !.left = t].left = t
    BY <1>1, <2>4 DEF LoopState
  <2> QED BY <2>1, <2>6, <2>7 DEF KeptState
<1> QED BY <1>3, <1>4, <1>5

\* The whole loop.
LEMMA RemovalKeeps ==
  ASSUME NEW list \in Seq(Registration), NEW o \in Observers, NEW obj
  PROVE  Kept(list, o, remove_observers_internal(list, o, obj))
<1> DEFINE V == KeptState(list, o)
           base == [left |-> list, i |-> 1]
           n == Len(list)
           H == [s \in V |-> StepOver(s, o, obj)]
           loop == RemovalLoop(list, o, obj)
<1>1. base \in V
  <2>1. base \in LoopState /\ base.left = list
    BY DEF LoopState
  <2>2. ASSUME NEW x \in Observers
        PROVE  Cardinality(ItemsOf(list, Of(x))) = Cardinality(ItemsOf(list, Of(x))) + IF x = o THEN n - n ELSE 0
    <3>1. n \in Nat /\ Cardinality(ItemsOf(list, Of(x))) \in Nat
      BY LenProperties, ItemsFinite
    <3> QED BY <3>1
  <2>3. n <= n
    BY LenProperties
  <2> QED BY <2>1, <2>2, <2>3 DEF KeptState, Kept
<1>2. n \in Nat
  BY LenProperties
<1>3. H \in [V -> V]
  BY StepOverKeeps
<1> HIDE DEF V, H
<1>0. PICK g : Iterates(g, n, V, base, H)
  BY <1>1, <1>2, <1>3, Iteration, Zenon
<1>4. /\ g \in [0 .. n -> V] /\ g[0] = base /\ \A k \in 1 .. n : g[k] = H[g[k - 1]]
      /\ \A h : h[0] = base /\ (\A k \in 1 .. n : h[k - 1] \in V => h[k] = H[h[k - 1]]) =>
           \A k \in 0 .. n : h[k] = g[k]
  BY <1>0 DEF Iterates
<1>5. \A s \in V : H[s] = StepOver(s, o, obj)
  BY DEF H
<1>6. g = [k \in 0 .. n |-> IF k = 0 THEN base ELSE StepOver(g[k - 1], o, obj)]
  <2>1. ASSUME NEW k \in 0 .. n PROVE g[k] = IF k = 0 THEN base ELSE StepOver(g[k - 1], o, obj)
    <3>1. CASE k = 0
      BY <1>4, <3>1
    <3>2. CASE k # 0
      <4>1. k \in 1 .. n /\ k - 1 \in 0 .. n
        BY <1>2, <3>2
      <4>2. g[k - 1] \in V
        BY <1>4, <4>1
      <4> QED BY <1>4, <1>5, <3>2, <4>1, <4>2
    <3> QED BY <3>1, <3>2
  <2> QED BY <1>4, <2>1
<1>7. loop = [k \in 0 .. n |-> IF k = 0 THEN base ELSE StepOver(loop[k - 1], o, obj)]
  BY <1>6, Zenon DEF RemovalLoop
<1> HIDE DEF loop
<1>8. loop[0] = base /\ \A k \in 1 .. n : loop[k - 1] \in V => loop[k] = H[loop[k - 1]]
  <2>1. loop[0] = base
    BY <1>2, <1>7
  <2>2. \A k \in 1 .. n : k \in 0 .. n /\ k # 0
    BY <1>2
  <2>3. \A k \in 1 .. n : loop[k] = StepOver(loop[k - 1], o, obj)
    BY <1>7, <2>2
  <2> QED BY <1>5, <2>1, <2>3
<1>9. loop[n] = g[n] /\ g[n] \in V
  BY <1>2, <1>4, <1>8
<1> QED BY <1>9, RemovalIsLoop DEF V, KeptState, loop

\* The counts are natural numbers, and not 0 of what there is.
LEMMA NotifCounts ==
  ASSUME NotifTypeOK, NEW o \in Observers
  PROVE  /\ RegisteredCount(o) \in Nat /\ RunningCount(o) \in Nat
         /\ \A n \in Names : \A i \in DOMAIN observers[n] : observers[n][i].observer = o => RegisteredCount(o) > 0
         /\ \A i \in DOMAIN posts : posts[i].current = o => RunningCount(o) > 0
<1>1. /\ observers \in [Names -> Seq(Registration)] /\ \A n \in Names : Len(observers[n]) <= MaxRegistered
      /\ posts \in Seq(PostFrame) /\ IsFiniteSet(Names) /\ MaxRegistered \in Nat
  BY NotificationsConstants DEF NotifTypeOK
<1>2. Names \in SUBSET Names
  OBVIOUS
<1>3. IsFiniteSet(ItemsIn(observers, Names, MaxRegistered, Of(o))) /\ RegisteredCount(o) \in Nat
  BY <1>1, <1>2, ItemsInOne DEF RegisteredCount
<1>4. IsFiniteSet(ItemsOf(posts, Calls(o))) /\ RunningCount(o) \in Nat
  BY <1>1, ItemsFinite DEF RunningCount
<1>5. ASSUME NEW n \in Names, NEW i \in DOMAIN observers[n], observers[n][i].observer = o
      PROVE  RegisteredCount(o) > 0
  <2>1. observers[n] \in Seq(Registration) /\ DOMAIN observers[n] = 1 .. Len(observers[n])
    BY <1>1, LenProperties
  <2>2. i \in 1 .. MaxRegistered /\ observers[n][i] \in Registration
    <3>1. Len(observers[n]) \in Nat /\ Len(observers[n]) <= MaxRegistered
      BY <1>1, <2>1, LenProperties
    <3> QED BY <1>1, <2>1, <3>1, ElementOfSeq
  <2>3. <<n, i>> \in ItemsIn(observers, Names, MaxRegistered, Of(o))
    BY <1>5, <2>2 DEF ItemsIn, Of
  <2>4. RegisteredCount(o) # 0
    BY <1>3, <2>3, FS_EmptySet DEF RegisteredCount
  <2> QED BY <1>3, <2>4
<1>6. ASSUME NEW i \in DOMAIN posts, posts[i].current = o PROVE RunningCount(o) > 0
  <2>1. posts[i] \in PostFrame
    BY <1>1
  <2>2. i \in ItemsOf(posts, Calls(o))
    BY <1>6, <2>1 DEF ItemsOf, Calls
  <2>3. RunningCount(o) # 0
    BY <1>4, <2>2, FS_EmptySet DEF RunningCount
  <2> QED BY <1>4, <2>3
<1> QED BY <1>3, <1>4, <1>5, <1>6

\* A registration is added.
LEMMA AddObserverKeeps ==
  ASSUME NotifInv, NEW o \in Observers, NEW n \in Names, NEW obj \in Posters \cup {anyObject},
         addObserver(o, n, obj)
  PROVE  NotifInv'
<1>1. /\ observers \in [Names -> Seq(Registration)] /\ \A m \in Names : Len(observers[m]) <= MaxRegistered
      /\ obsRefs \in [Observers -> Int] /\ obsOwned \in [Observers -> Nat]
      /\ posts \in Seq(PostFrame) /\ IsFiniteSet(Names) /\ MaxRegistered \in Nat /\ NotifTypeOK
  BY NotificationsConstants DEF NotifInv, NotifTypeOK
<1> DEFINE r == [observer |-> o, object |-> obj]
           list == Append(observers[n], r)
<1>2. /\ Len(observers[n]) < MaxRegistered
      /\ obsRefs' = [obsRefs EXCEPT ![o] = @ + 1]
      /\ observers' = [observers EXCEPT ![n] = list]
      /\ obsOwned' = obsOwned /\ posts' = posts
  BY DEF addObserver
<1>3. r \in Registration /\ \A x \in Observers : r \in Of(x) <=> x = o
  BY DEF Registration, Of
<1> HIDE DEF r
<1>4. /\ list \in Seq(Registration) /\ Len(list) <= MaxRegistered
  <2>1. observers[n] \in Seq(Registration) /\ Len(observers[n]) \in Nat
    BY <1>1, LenProperties
  <2>2. list \in Seq(Registration) /\ Len(list) = Len(observers[n]) + 1
    BY <1>3, <2>1, AppendProperties
  <2> HIDE DEF list
  <2> QED BY <1>1, <1>2, <2>1, <2>2
<1> HIDE DEF list
<1>5. /\ observers' \in [Names -> Seq(Registration)] /\ \A m \in Names : Len(observers'[m]) <= MaxRegistered
      /\ observers'[n] = list /\ \A m \in Names : m # n => observers'[m] = observers[m]
  BY <1>1, <1>2, <1>4
<1>6. obsRefs' \in [Observers -> Int] /\ \A x \in Observers : obsRefs'[x] = obsRefs[x] + IF x = o THEN 1 ELSE 0
  BY <1>1, <1>2
<1>7. NotifTypeOK'
  BY <1>1, <1>2, <1>5, <1>6 DEF NotifTypeOK
<1>8. ASSUME NEW x \in Observers
      PROVE  RegisteredCount(x)' = RegisteredCount(x) + IF x = o THEN 1 ELSE 0
  <2> DEFINE A == Cardinality(ItemsIn(observers, Names \ {n}, MaxRegistered, Of(x)))
  <2>1. Names \in SUBSET Names
    OBVIOUS
  <2>2. AddUp(observers, Names, MaxRegistered, Of(x))
    BY <1>1, <2>1, ItemsInOne, Zenon
  <2>3. AddUp(observers', Names, MaxRegistered, Of(x))
    BY <1>1, <1>5, <2>1, ItemsInOne, Zenon
  <2>4. ItemsIn(observers', Names \ {n}, MaxRegistered, Of(x)) = ItemsIn(observers, Names \ {n}, MaxRegistered, Of(x))
    <3>1. \A p \in (Names \ {n}) \X (1 .. MaxRegistered) : observers'[p[1]] = observers[p[1]]
      BY <1>5
    <3> QED BY <3>1 DEF ItemsIn
  <2>5. OneMore(observers[n], list, r, Of(x))
    BY <1>1, <1>3, ItemsAppend DEF list
  <2>6. RegisteredCount(x) = A + Cardinality(ItemsOf(observers[n], Of(x)))
    BY <2>2 DEF AddUp, RegisteredCount
  <2>7. RegisteredCount(x)' = A + Cardinality(ItemsOf(list, Of(x)))
    BY <1>5, <2>3, <2>4 DEF AddUp, RegisteredCount
  <2>8. Cardinality(ItemsOf(list, Of(x))) = Cardinality(ItemsOf(observers[n], Of(x))) + IF x = o THEN 1 ELSE 0
    BY <1>3, <2>5 DEF OneMore
  <2>9. A \in Nat /\ Cardinality(ItemsOf(observers[n], Of(x))) \in Nat
    <3>1. Names \ {n} \in SUBSET Names /\ IsFiniteSet(Names \ {n})
      BY <1>1, FS_Subset
    <3>2. observers[n] \in Seq(Registration)
      BY <1>1
    <3> QED BY <1>1, <3>1, <3>2, ItemsInOne, ItemsFinite
  <2> HIDE DEF A
  <2> QED BY <2>6, <2>7, <2>8, <2>9
<1>9. ASSUME NEW x \in Observers
      PROVE  obsRefs'[x] = obsOwned'[x] + RegisteredCount(x)' + RunningCount(x)'
  <2>1. RunningCount(x)' = RunningCount(x)
    BY <1>2 DEF RunningCount
  <2>2. obsRefs[x] = obsOwned[x] + RegisteredCount(x) + RunningCount(x)
    BY DEF NotifInv
  <2>3. RegisteredCount(x) \in Nat /\ RunningCount(x) \in Nat /\ obsOwned[x] \in Nat
    BY <1>1, NotifCounts
  <2> QED BY <1>2, <1>6, <1>8, <2>1, <2>2, <2>3
<1> QED BY <1>7, <1>9 DEF NotifInv

\* The registrations of an observer are removed, from one list or from all, and
\* it is released once for each.
LEMMA RemoveObserverKeeps ==
  ASSUME NotifInv, NEW o \in Observers, NEW ns, NEW obj, removeObserver(o, ns, obj)
  PROVE  NotifInv'
<1>1. /\ observers \in [Names -> Seq(Registration)] /\ \A m \in Names : Len(observers[m]) <= MaxRegistered
      /\ obsRefs \in [Observers -> Int] /\ obsOwned \in [Observers -> Nat]
      /\ posts \in Seq(PostFrame) /\ IsFiniteSet(Names) /\ MaxRegistered \in Nat /\ NotifTypeOK
  BY NotificationsConstants DEF NotifInv, NotifTypeOK
<1> DEFINE left == [n \in Names |-> IF n \in ns THEN remove_observers_internal(observers[n], o, obj)
                                    ELSE observers[n]]
           gone == [n \in Names |-> Len(observers[n]) - Len(left[n])]
<1>2. /\ observers' = left
      /\ obsRefs' = [obsRefs EXCEPT ![o] = @ - Total(gone, Names)]
      /\ obsOwned' = obsOwned /\ posts' = posts
  BY DEF removeObserver, Total
<1>3. ASSUME NEW n \in Names PROVE Kept(observers[n], o, left[n])
  <2>1. observers[n] \in Seq(Registration) /\ Len(observers[n]) \in Nat
    BY <1>1, LenProperties
  <2>2. CASE n \in ns
    BY <2>1, <2>2, RemovalKeeps
  <2>3. CASE n \notin ns
    <3>1. left[n] = observers[n]
      BY <2>3
    <3> HIDE DEF left
    <3>2. ASSUME NEW x \in Observers
          PROVE  Cardinality(ItemsOf(observers[n], Of(x))) =
                   Cardinality(ItemsOf(observers[n], Of(x)))
                     + IF x = o THEN Len(observers[n]) - Len(observers[n]) ELSE 0
      BY <2>1, ItemsFinite
    <3> QED BY <2>1, <3>1, <3>2 DEF Kept
  <2> QED BY <2>2, <2>3
<1>4. \A n \in Names : gone[n] = Len(observers[n]) - Len(left[n])
  OBVIOUS
<1>5. /\ left \in [Names -> Seq(Registration)]
      /\ \A n \in Names : Len(left[n]) <= MaxRegistered /\ Len(observers[n]) <= MaxRegistered
      /\ \A n \in Names : Len(observers[n]) \in Nat /\ Len(left[n]) \in Nat
  <2>1. \A n \in Names : left[n] \in Seq(Registration) /\ Len(left[n]) <= Len(observers[n])
    BY <1>3 DEF Kept
  <2>2. left \in [Names -> Seq(Registration)]
    BY <2>1
  <2>3. \A n \in Names : Len(observers[n]) \in Nat /\ Len(left[n]) \in Nat
    BY <1>1, <2>2, LenProperties
  <2> HIDE DEF left
  <2> QED BY <1>1, <2>1, <2>2, <2>3
<1> HIDE DEF left, gone
<1>6. \A n \in Names : gone[n] \in Int
  BY <1>4, <1>5
<1>7. Total(gone, Names) \in Int
  <2>1. Ints(gone, Names)
    BY <1>6 DEF Ints
  <2> QED BY <1>1, <2>1, TotalChosen
<1>8. RegisteredCount(o) = RegisteredCount(o)' + Total(gone, Names)
  <2>1. \A n \in Names : gone[n] \in Int /\ LosesOf(observers, left, n, Of(o), gone[n])
    <3>1. ASSUME NEW n \in Names PROVE LosesOf(observers, left, n, Of(o), gone[n])
      BY <1>3, <1>4 DEF Kept, LosesOf
    <3> QED BY <1>6, <3>1
  <2>2. \A n \in Names : Len(observers[n]) <= MaxRegistered /\ Len(left[n]) <= MaxRegistered
    BY <1>5
  <2>3. LosesAll(observers, left, Names, MaxRegistered, Of(o), gone)
    BY <1>1, <1>5, <2>1, <2>2, ItemsLost, Zenon
  <2> QED BY <1>2, <2>3 DEF LosesAll, RegisteredCount
<1>9. ASSUME NEW x \in Observers, x # o PROVE RegisteredCount(x)' = RegisteredCount(x)
  <2>1. ASSUME NEW n \in Names
        PROVE  Cardinality(ItemsOf(observers[n], Of(x))) = Cardinality(ItemsOf(left[n], Of(x)))
    <3>1. Cardinality(ItemsOf(observers[n], Of(x))) = Cardinality(ItemsOf(left[n], Of(x))) + 0
      BY <1>3, <1>9 DEF Kept
    <3>2. left[n] \in Seq(Registration)
      BY <1>5
    <3>3. Cardinality(ItemsOf(left[n], Of(x))) \in Nat
      BY <3>2, ItemsFinite
    <3> QED BY <3>1, <3>3
  <2>2. \A n \in Names : Len(observers[n]) <= MaxRegistered /\ Len(left[n]) <= MaxRegistered
    BY <1>5
  <2>3. AsMany(observers, left, Names, MaxRegistered, Of(x))
    BY <1>1, <1>5, <2>1, <2>2, ItemsKept, Zenon
  <2> QED BY <1>2, <2>3 DEF AsMany, RegisteredCount
<1>10. NotifTypeOK'
  <2>1. obsRefs' \in [Observers -> Int]
    BY <1>1, <1>2, <1>7
  <2> QED BY <1>1, <1>2, <1>5, <2>1 DEF NotifTypeOK
<1>11. ASSUME NEW x \in Observers
       PROVE  obsRefs'[x] = obsOwned'[x] + RegisteredCount(x)' + RunningCount(x)'
  <2>1. RunningCount(x)' = RunningCount(x)
    BY <1>2 DEF RunningCount
  <2>2. obsRefs[x] = obsOwned[x] + RegisteredCount(x) + RunningCount(x)
    BY DEF NotifInv
  <2>3. /\ RegisteredCount(x) \in Nat /\ RunningCount(x) \in Nat /\ obsOwned[x] \in Nat
        /\ RegisteredCount(x)' \in Nat
    <3>1. Names \in SUBSET Names /\ \A n \in Names : Len(left[n]) <= MaxRegistered
      BY <1>5
    <3>2. Cardinality(ItemsIn(left, Names, MaxRegistered, Of(x))) \in Nat
      BY <1>1, <1>5, <3>1, ItemsInOne, Zenon
    <3> QED BY <1>1, <1>2, <3>2, NotifCounts DEF RegisteredCount
  <2>4. CASE x = o
    <3>1. obsRefs'[x] = obsRefs[x] - Total(gone, Names)
      BY <1>1, <1>2, <2>4
    <3>2. RegisteredCount(x) = RegisteredCount(x)' + Total(gone, Names)
      BY <1>8, <2>4
    <3> QED BY <1>2, <1>7, <2>1, <2>2, <2>3, <2>4, <3>1, <3>2
  <2>5. CASE x # o
    <3>1. obsRefs'[x] = obsRefs[x]
      BY <1>1, <1>2, <2>5
    <3> QED BY <1>2, <1>9, <2>1, <2>2, <2>5, <3>1
  <2> QED BY <2>4, <2>5
<1> QED BY <1>10, <1>11 DEF NotifInv

\* The guest gives up a reference.
LEMMA GuestReleasesKeeps ==
  ASSUME NotifInv, NEW o \in Observers, guest_releases(o)
  PROVE  NotifInv'
<1>1. /\ obsRefs \in [Observers -> Int] /\ obsOwned \in [Observers -> Nat] /\ NotifTypeOK
  BY DEF NotifInv, NotifTypeOK
<1>2. /\ obsOwned[o] > 0
      /\ obsOwned' = [obsOwned EXCEPT ![o] = @ - 1]
      /\ obsRefs' = [obsRefs EXCEPT ![o] = @ - 1]
      /\ observers' = observers /\ posts' = posts
  BY DEF guest_releases
<1>3. obsRefs' \in [Observers -> Int] /\ obsOwned' \in [Observers -> Nat]
  BY <1>1, <1>2
<1>4. NotifTypeOK'
  BY <1>1, <1>2, <1>3 DEF NotifTypeOK
<1>5. ASSUME NEW x \in Observers
      PROVE  obsRefs'[x] = obsOwned'[x] + RegisteredCount(x)' + RunningCount(x)'
  <2>1. /\ RunningCount(x)' = RunningCount(x) /\ RegisteredCount(x)' = RegisteredCount(x)
    BY <1>2 DEF RunningCount, RegisteredCount
  <2>2. obsRefs[x] = obsOwned[x] + RegisteredCount(x) + RunningCount(x)
    BY DEF NotifInv
  <2>3. RegisteredCount(x) \in Nat /\ RunningCount(x) \in Nat /\ obsOwned[x] \in Nat
    BY <1>1, NotifCounts
  <2> QED BY <1>1, <1>2, <2>1, <2>2, <2>3
<1> QED BY <1>4, <1>5 DEF NotifInv

\* A post begins, with a copy of the list: whoever is in it is registered.
LEMMA PostKeeps ==
  ASSUME NotifInv, NEW n \in Names, NEW who \in Posters, postNotification(n, who)
  PROVE  NotifInv'
<1>1. /\ observers \in [Names -> Seq(Registration)] /\ posts \in Seq(PostFrame) /\ NotifTypeOK
      /\ obsOwned \in [Observers -> Nat]
  BY DEF NotifInv, NotifTypeOK
<1> DEFINE f == Frame(observers[n], who)
<1>2. posts' = Append(posts, f) /\ observers' = observers /\ obsRefs' = obsRefs /\ obsOwned' = obsOwned
  BY DEF postNotification
<1>3. f \in PostFrame /\ f.rest = observers[n] /\ f.current = anyObject
  BY <1>1 DEF Frame, PostFrame
<1> HIDE DEF f
<1>4. /\ posts' \in Seq(PostFrame) /\ Len(posts) \in Nat
      /\ DOMAIN posts' = 1 .. Len(posts) + 1 /\ DOMAIN posts = 1 .. Len(posts)
      /\ posts'[Len(posts) + 1] = f /\ \A i \in 1 .. Len(posts) : posts'[i] = posts[i]
  BY <1>1, <1>2, <1>3, Pushed
<1>5. NotifTypeOK'
  BY <1>1, <1>2, <1>4 DEF NotifTypeOK
<1>6. ASSUME NEW x \in Observers
      PROVE  obsRefs'[x] = obsOwned'[x] + RegisteredCount(x)' + RunningCount(x)'
  <2>1. RunningCount(x)' = RunningCount(x)
    <3>1. OneMore(posts, posts', f, Calls(x))
      BY <1>1, <1>2, <1>3, ItemsAppend
    <3>2. f \notin Calls(x)
      BY <1>3, NotificationsConstants DEF Calls
    <3>3. Cardinality(ItemsOf(posts', Calls(x))) = Cardinality(ItemsOf(posts, Calls(x))) + 0
      BY <3>1, <3>2 DEF OneMore
    <3>4. Cardinality(ItemsOf(posts, Calls(x))) \in Nat
      BY <1>1, ItemsFinite
    <3>5. Cardinality(ItemsOf(posts', Calls(x))) = Cardinality(ItemsOf(posts, Calls(x)))
      BY <3>3, <3>4
    <3> QED BY <3>5 DEF RunningCount
  <2>2. RegisteredCount(x)' = RegisteredCount(x)
    BY <1>2 DEF RegisteredCount
  <2> QED BY <1>2, <2>1, <2>2 DEF NotifInv
<1> QED BY <1>5, <1>6 DEF NotifInv

\* The innermost post changes, with no more left to do; who it calls counts.
LEMMA TopChanges ==
  ASSUME NotifTypeOK, posts # <<>>, NEW e \in PostFrame, posts' = [posts EXCEPT ![Len(posts)] = e],
         \A j \in DOMAIN e.rest : \E k \in DOMAIN Last(posts).rest : e.rest[j] = Last(posts).rest[k]
  PROVE  /\ posts' \in Seq(PostFrame)
         /\ \A x \in Observers :
              RunningCount(x)' = RunningCount(x) - (IF Last(posts).current = x THEN 1 ELSE 0)
                                   + IF e.current = x THEN 1 ELSE 0
<1>1. posts \in Seq(PostFrame)
  BY DEF NotifTypeOK
<1>2. /\ Len(posts) \in Nat \ {0} /\ DOMAIN posts = 1 .. Len(posts)
      /\ Last(posts) = posts[Len(posts)] /\ Last(posts) \in PostFrame
  BY <1>1, FrontLast
<1>3. /\ posts' \in Seq(PostFrame) /\ DOMAIN posts' = 1 .. Len(posts)
      /\ posts'[Len(posts)] = e /\ \A i \in 1 .. Len(posts) - 1 : posts'[i] = posts[i]
  BY <1>1, TopReplaced
<1>5. ASSUME NEW x \in Observers
      PROVE  RunningCount(x)' = RunningCount(x) - (IF Last(posts).current = x THEN 1 ELSE 0)
                                   + IF e.current = x THEN 1 ELSE 0
  <2> DEFINE a == Cardinality(ItemsOf(Front(posts), Calls(x)))
  <2>1. /\ Front(posts) \in Seq(PostFrame)
        /\ OneMore(Front(posts), posts, Last(posts), Calls(x))
        /\ OneMore(Front(posts), posts', e, Calls(x))
    BY <1>1, ItemsTop
  <2>2. a \in Nat
    BY <2>1, ItemsFinite
  <2>3. (Last(posts) \in Calls(x) <=> Last(posts).current = x) /\ (e \in Calls(x) <=> e.current = x)
    BY <1>2 DEF Calls
  <2>4. RunningCount(x) = a + IF Last(posts).current = x THEN 1 ELSE 0
    BY <2>1, <2>3 DEF OneMore, RunningCount
  <2>5. RunningCount(x)' = a + IF e.current = x THEN 1 ELSE 0
    BY <2>1, <2>3 DEF OneMore, RunningCount
  <2> HIDE DEF a
  <2> QED BY <2>2, <2>4, <2>5
<1> QED BY <1>3, <1>5

\* The next registration of the innermost post's list, and what is left of it.
LEMMA NextOfTop ==
  ASSUME NotifTypeOK, posts # <<>>, Last(posts).rest # <<>>
  PROVE  /\ Last(posts) \in PostFrame /\ Len(posts) \in Nat \ {0} /\ Last(posts) = posts[Len(posts)]
         /\ Len(posts) \in DOMAIN posts /\ 1 \in DOMAIN Last(posts).rest
         /\ Head(Last(posts).rest) = Last(posts).rest[1] /\ Head(Last(posts).rest) \in Registration
         /\ Tail(Last(posts).rest) \in Seq(Registration)
         /\ \A j \in DOMAIN Tail(Last(posts).rest) :
              \E k \in DOMAIN Last(posts).rest : Tail(Last(posts).rest)[j] = Last(posts).rest[k]
<1>1. posts \in Seq(PostFrame)
  BY DEF NotifTypeOK
<1>2. /\ Len(posts) \in Nat \ {0} /\ DOMAIN posts = 1 .. Len(posts)
      /\ Last(posts) = posts[Len(posts)] /\ Last(posts) \in PostFrame
  BY <1>1, FrontLast
<1>3. PICK s \in Seq(Registration) : s = Last(posts).rest
  BY <1>2 DEF PostFrame
<1>4. s \in Seq(Registration) /\ s # <<>>
  BY <1>3
<1>5. /\ Len(s) \in Nat \ {0} /\ DOMAIN s = 1 .. Len(s)
      /\ Head(s) = s[1] /\ Tail(s) \in Seq(Registration) /\ Len(Tail(s)) = Len(s) - 1
      /\ DOMAIN Tail(s) = 1 .. Len(Tail(s)) /\ \A j \in 1 .. Len(s) - 1 : Tail(s)[j] = s[j + 1]
  BY <1>4
<1>6. 1 \in DOMAIN s /\ Head(s) \in Registration
  BY <1>4, <1>5
<1>7. \A j \in DOMAIN Tail(s) : \E k \in DOMAIN s : Tail(s)[j] = s[k]
  <2>1. ASSUME NEW j \in DOMAIN Tail(s) PROVE \E k \in DOMAIN s : Tail(s)[j] = s[k]
    <3>1. j \in 1 .. Len(s) - 1 /\ j + 1 \in DOMAIN s
      BY <1>5, <2>1
    <3> QED BY <1>5, <3>1
  <2> QED BY <2>1
<1>8. Len(posts) \in DOMAIN posts
  BY <1>2
<1> QED BY <1>2, <1>3, <1>5, <1>6, <1>7, <1>8

\* A registration for another poster is passed over.
LEMMA SkipKeeps ==
  ASSUME NotifInv, skip_observer
  PROVE  NotifInv'
<1>1. /\ posts \in Seq(PostFrame) /\ NotifTypeOK /\ posts # <<>> /\ Last(posts).rest # <<>>
      /\ obsOwned \in [Observers -> Nat] /\ obsRefs \in [Observers -> Int]
  BY DEF NotifInv, NotifTypeOK, skip_observer
<1>2. PICK b \in PostFrame : b = Last(posts) /\ b = posts[Len(posts)]
  BY <1>1, NextOfTop
<1>3. PICK t \in Seq(Registration) : t = Tail(b.rest)
  BY <1>1, <1>2, NextOfTop
<1> DEFINE e == [b EXCEPT !.rest = t]
<1>4. e \in PostFrame /\ e.rest = t /\ e.current = b.current
  BY <1>2, <1>3 DEF PostFrame
<1>5. posts' = [posts EXCEPT ![Len(posts)] = e]
  BY <1>2, <1>3 DEF skip_observer, Top
<1> HIDE DEF e
<1>6. \A j \in DOMAIN e.rest : \E k \in DOMAIN Last(posts).rest : e.rest[j] = Last(posts).rest[k]
  BY <1>1, <1>2, <1>3, <1>4, NextOfTop
<1>7. /\ posts' \in Seq(PostFrame)
      /\ \A x \in Observers :
           RunningCount(x)' = RunningCount(x) - (IF Last(posts).current = x THEN 1 ELSE 0)
                                + IF e.current = x THEN 1 ELSE 0
  BY <1>1, <1>4, <1>5, <1>6, TopChanges
<1>8. observers' = observers /\ obsRefs' = obsRefs /\ obsOwned' = obsOwned
  BY DEF skip_observer
<1>9. NotifTypeOK'
  BY <1>1, <1>7, <1>8 DEF NotifTypeOK
<1>10. ASSUME NEW x \in Observers
       PROVE  obsRefs'[x] = obsOwned'[x] + RegisteredCount(x)' + RunningCount(x)'
  <2>1. RegisteredCount(x)' = RegisteredCount(x)
    BY <1>8 DEF RegisteredCount
  <2>2. RunningCount(x) \in Nat
    BY <1>1, NotifCounts
  <2>3. RunningCount(x)' = RunningCount(x)
    BY <1>2, <1>4, <1>7, <2>2
  <2> QED BY <1>7, <1>8, <2>1, <2>3 DEF NotifInv
<1> QED BY <1>9, <1>10 DEF NotifInv

\* The next observer is retained and called.
LEMMA CallObserverKeeps ==
  ASSUME NotifInv, call_observer
  PROVE  NotifInv'
<1>1. /\ posts \in Seq(PostFrame) /\ NotifTypeOK /\ posts # <<>> /\ Last(posts).rest # <<>>
      /\ obsOwned \in [Observers -> Nat] /\ obsRefs \in [Observers -> Int]
      /\ Last(posts).current = anyObject
  BY DEF NotifInv, NotifTypeOK, call_observer
<1>2. PICK b \in PostFrame : b = Last(posts) /\ b = posts[Len(posts)]
  BY <1>1, NextOfTop
<1>3. PICK t \in Seq(Registration) : t = Tail(b.rest)
  BY <1>1, <1>2, NextOfTop
<1>0. PICK r \in Registration : r = Head(b.rest)
  BY <1>1, <1>2, NextOfTop
<1> DEFINE e == [b EXCEPT !.rest = t, !.current = r.observer]
<1>4. r.observer \in Observers /\ r.observer # anyObject
  BY <1>0, NotificationsConstants DEF Registration
<1>41. e \in PostFrame /\ e.rest = t /\ e.current = r.observer
  BY <1>2, <1>3, <1>4 DEF PostFrame
<1>5. posts' = [posts EXCEPT ![Len(posts)] = e]
  <2>1. posts' = [posts EXCEPT ![Len(posts)].rest = Tail(@), ![Len(posts)].current = r.observer]
    BY <1>0, <1>2 DEF call_observer, Top
  <2>2. Len(posts) \in DOMAIN posts
    BY <1>1, NextOfTop
  <2> QED BY <1>2, <1>3, <2>1, <2>2
<1> HIDE DEF e
<1>6. \A j \in DOMAIN e.rest : \E k \in DOMAIN Last(posts).rest : e.rest[j] = Last(posts).rest[k]
  BY <1>1, <1>2, <1>3, <1>41, NextOfTop
<1>7. /\ posts' \in Seq(PostFrame)
      /\ \A x \in Observers :
           RunningCount(x)' = RunningCount(x) - (IF Last(posts).current = x THEN 1 ELSE 0)
                                + IF e.current = x THEN 1 ELSE 0
  BY <1>1, <1>41, <1>5, <1>6, TopChanges
<1>8. observers' = observers /\ obsOwned' = obsOwned /\ obsRefs' = [obsRefs EXCEPT ![r.observer] = @ + 1]
  BY <1>0, <1>2 DEF call_observer
<1>81. /\ obsRefs' \in [Observers -> Int]
       /\ \A x \in Observers : obsRefs'[x] = obsRefs[x] + IF x = r.observer THEN 1 ELSE 0
  BY <1>1, <1>4, <1>8
<1>9. NotifTypeOK'
  BY <1>1, <1>7, <1>8, <1>81 DEF NotifTypeOK
<1>10. ASSUME NEW x \in Observers
       PROVE  obsRefs'[x] = obsOwned'[x] + RegisteredCount(x)' + RunningCount(x)'
  <2>1. RegisteredCount(x)' = RegisteredCount(x)
    BY <1>8 DEF RegisteredCount
  <2>2. RunningCount(x) \in Nat /\ RegisteredCount(x) \in Nat /\ obsOwned[x] \in Nat
    BY <1>1, NotifCounts
  <2>3. Last(posts).current # x
    BY <1>1, NotificationsConstants
  <2>4. RunningCount(x)' = RunningCount(x) + IF x = r.observer THEN 1 ELSE 0
    BY <1>41, <1>7, <2>2, <2>3
  <2>5. obsRefs[x] = obsOwned[x] + RegisteredCount(x) + RunningCount(x)
    BY DEF NotifInv
  <2>6. obsOwned'[x] = obsOwned[x]
    BY <1>8
  <2>7. CASE x = r.observer
    <3>1. obsRefs'[x] = obsRefs[x] + 1 /\ RunningCount(x)' = RunningCount(x) + 1
      BY <1>81, <2>4, <2>7
    <3> QED BY <2>1, <2>2, <2>5, <2>6, <3>1
  <2>8. CASE x # r.observer
    <3>1. obsRefs'[x] = obsRefs[x] + 0 /\ RunningCount(x)' = RunningCount(x) + 0 /\ obsRefs[x] \in Int
      BY <1>1, <1>81, <2>4, <2>8
    <3> QED BY <2>1, <2>2, <2>5, <2>6, <3>1
  <2> QED BY <2>7, <2>8
<1> QED BY <1>9, <1>10 DEF NotifInv

\* The method of an observer returns.
LEMMA ReturnKeeps ==
  ASSUME NotifInv, observer_returns
  PROVE  NotifInv'
<1>1. /\ posts \in Seq(PostFrame) /\ NotifTypeOK /\ posts # <<>>
      /\ obsOwned \in [Observers -> Nat] /\ obsRefs \in [Observers -> Int]
      /\ Last(posts).current # anyObject
  BY DEF NotifInv, NotifTypeOK, observer_returns
<1>2. PICK b \in PostFrame : b = Last(posts) /\ b = posts[Len(posts)]
  BY <1>1, FrontLast
<1>3. PICK q \in Observers : q = b.current
  BY <1>1, <1>2 DEF PostFrame
<1> DEFINE e == [b EXCEPT !.current = anyObject]
<1>4. e \in PostFrame /\ e.rest = b.rest /\ e.current = anyObject
  BY <1>2 DEF PostFrame
<1>5. posts' = [posts EXCEPT ![Len(posts)] = e]
  BY <1>2 DEF observer_returns, Top
<1> HIDE DEF e
<1>6. \A j \in DOMAIN e.rest : \E k \in DOMAIN Last(posts).rest : e.rest[j] = Last(posts).rest[k]
  BY <1>2, <1>4
<1>7. /\ posts' \in Seq(PostFrame)
      /\ \A x \in Observers :
           RunningCount(x)' = RunningCount(x) - (IF Last(posts).current = x THEN 1 ELSE 0)
                                + IF e.current = x THEN 1 ELSE 0
  BY <1>1, <1>4, <1>5, <1>6, TopChanges
<1>8. observers' = observers /\ obsOwned' = obsOwned /\ obsRefs' = [obsRefs EXCEPT ![q] = @ - 1]
  BY <1>2, <1>3 DEF observer_returns
<1>81. /\ obsRefs' \in [Observers -> Int]
       /\ \A x \in Observers : obsRefs'[x] = obsRefs[x] - IF x = q THEN 1 ELSE 0
  BY <1>1, <1>3, <1>8
<1>9. NotifTypeOK'
  BY <1>1, <1>7, <1>8, <1>81 DEF NotifTypeOK
<1>10. ASSUME NEW x \in Observers
       PROVE  obsRefs'[x] = obsOwned'[x] + RegisteredCount(x)' + RunningCount(x)'
  <2>1. RegisteredCount(x)' = RegisteredCount(x)
    BY <1>8 DEF RegisteredCount
  <2>2. RunningCount(x) \in Nat /\ RegisteredCount(x) \in Nat /\ obsOwned[x] \in Nat
    BY <1>1, NotifCounts
  <2>3. e.current # x
    BY <1>4, NotificationsConstants
  <2>4. RunningCount(x)' = RunningCount(x) - IF x = q THEN 1 ELSE 0
    BY <1>2, <1>3, <1>7, <2>2, <2>3
  <2>5. obsRefs[x] = obsOwned[x] + RegisteredCount(x) + RunningCount(x)
    BY DEF NotifInv
  <2> QED BY <1>7, <1>8, <1>81, <2>1, <2>2, <2>4, <2>5
<1> QED BY <1>9, <1>10 DEF NotifInv

\* The innermost post ends.
LEMMA PostEndsKeeps ==
  ASSUME NotifInv, post_ends
  PROVE  NotifInv'
<1>1. /\ posts \in Seq(PostFrame) /\ NotifTypeOK /\ posts # <<>>
      /\ obsOwned \in [Observers -> Nat] /\ obsRefs \in [Observers -> Int]
      /\ Last(posts).current = anyObject /\ posts' = Front(posts)
      /\ observers' = observers /\ obsRefs' = obsRefs /\ obsOwned' = obsOwned
  BY DEF NotifInv, NotifTypeOK, post_ends
<1>2. /\ Len(posts) \in Nat \ {0} /\ DOMAIN posts = 1 .. Len(posts)
      /\ Front(posts) \in Seq(PostFrame) /\ Len(Front(posts)) = Len(posts) - 1
      /\ \A i \in 1 .. Len(posts) - 1 : Front(posts)[i] = posts[i]
  BY <1>1, FrontLast
<1>3. DOMAIN posts' = 1 .. Len(posts) - 1
  <2>1. DOMAIN Front(posts) = 1 .. Len(Front(posts))
    BY <1>2, LenProperties
  <2> QED BY <1>1, <1>2, <2>1
<1>4. NotifTypeOK'
  BY <1>1, <1>2 DEF NotifTypeOK
<1>5. ASSUME NEW x \in Observers
      PROVE  obsRefs'[x] = obsOwned'[x] + RegisteredCount(x)' + RunningCount(x)'
  <2>1. RegisteredCount(x)' = RegisteredCount(x)
    BY <1>1 DEF RegisteredCount
  <2>3. RunningCount(x)' = RunningCount(x)
    <3>1. OneMore(Front(posts), posts, Last(posts), Calls(x))
      BY <1>1, ItemsTop
    <3>2. Last(posts) \notin Calls(x)
      BY <1>1, NotificationsConstants DEF Calls
    <3>3. Cardinality(ItemsOf(posts, Calls(x))) = Cardinality(ItemsOf(posts', Calls(x))) + 0
      BY <1>1, <3>1, <3>2 DEF OneMore
    <3>4. Cardinality(ItemsOf(posts', Calls(x))) \in Nat
      BY <1>1, <1>2, ItemsFinite
    <3>5. Cardinality(ItemsOf(posts', Calls(x))) = Cardinality(ItemsOf(posts, Calls(x)))
      BY <3>3, <3>4
    <3> QED BY <3>5 DEF RunningCount
  <2> QED BY <1>1, <2>1, <2>3 DEF NotifInv
<1> QED BY <1>4, <1>5 DEF NotifInv

\* The centre begins empty.
LEMMA NotifStarts ==
  ASSUME NotificationsInit
  PROVE  NotifInv
<1>1. /\ observers = [n \in Names |-> <<>>] /\ obsRefs = [o \in Observers |-> 1]
      /\ obsOwned = [o \in Observers |-> 1] /\ posts = <<>> /\ MaxRegistered \in Nat
  BY NotificationsConstants DEF NotificationsInit
<1>2. NotifTypeOK
  <2>1. \A n \in Names : Len(observers[n]) <= MaxRegistered
    BY <1>1
  <2> QED BY <1>1, <2>1 DEF NotifTypeOK
<1>3. ASSUME NEW o \in Observers
      PROVE  RegisteredCount(o) = 0 /\ RunningCount(o) = 0
  <2>1. ItemsIn(observers, Names, MaxRegistered, Of(o)) = {}
    BY <1>1 DEF ItemsIn
  <2>2. ItemsOf(posts, Calls(o)) = {}
    BY <1>1 DEF ItemsOf
  <2> QED BY <2>1, <2>2, FS_EmptySet DEF RegisteredCount, RunningCount
<1> QED BY <1>1, <1>2, <1>3 DEF NotifInv

\* Every step of the centre and of its guest keeps the counts exact.
LEMMA NotifNext ==
  ASSUME NotifInv, [NotificationsNext]_notifVars
  PROVE  NotifInv'
<1>1. CASE NotificationsNext
  <2>1. ASSUME NEW o \in Observers, guest_releases(o) PROVE NotifInv'
    BY <2>1, GuestReleasesKeeps
  <2>2. ASSUME NEW o \in Observers, NEW n \in Names, NEW obj \in Posters \cup {anyObject},
               addObserver(o, n, obj) \/ removeObserver(o, {n}, obj)
        PROVE  NotifInv'
    BY <2>2, AddObserverKeeps, RemoveObserverKeeps
  <2>3. ASSUME NEW o \in Observers, removeObserver(o, Names, anyObject) PROVE NotifInv'
    BY <2>3, RemoveObserverKeeps
  <2>4. ASSUME NEW n \in Names, NEW who \in Posters, postNotification(n, who) PROVE NotifInv'
    BY <2>4, PostKeeps
  <2>5. CASE skip_observer \/ call_observer \/ observer_returns \/ post_ends
    BY <2>5, SkipKeeps, CallObserverKeeps, ReturnKeeps, PostEndsKeeps
  <2>6. CASE call_gone_observer
    BY <2>6 DEF call_gone_observer, NotifInv, NotifTypeOK, RegisteredCount, RunningCount
  <2> QED BY <1>1, <2>1, <2>2, <2>3, <2>4, <2>5, <2>6 DEF NotificationsNext
<1>2. CASE UNCHANGED notifVars
  BY <1>2 DEF NotifInv, NotifTypeOK, RegisteredCount, RunningCount, notifVars
<1> QED BY <1>1, <1>2

\* Exact counts, and an owner for whoever is awaited, keep the receivers alive.
LEMMA NotifSafe ==
  ASSUME NotifInv
  PROVE  ReceiverAlive
<1>1. /\ observers \in [Names -> Seq(Registration)] /\ \A n \in Names : Len(observers[n]) <= MaxRegistered
      /\ obsOwned \in [Observers -> Nat] /\ posts \in Seq(PostFrame) /\ MaxRegistered \in Nat /\ NotifTypeOK
  BY NotificationsConstants DEF NotifInv, NotifTypeOK
<1>2. ASSUME NEW o \in Observers
      PROVE  /\ Registered(o) = ItemsIn(observers, Names, MaxRegistered, Of(o))
             /\ {i \in DOMAIN posts : posts[i].current = o} = ItemsOf(posts, Calls(o))
  <2>1. ASSUME NEW n \in Names, NEW i \in DOMAIN observers[n] PROVE observers[n][i] \in Registration
    BY <1>1, ElementOfSeq, LenProperties
  <2>2. \A i \in DOMAIN posts : posts[i] \in PostFrame
    BY <1>1
  <2>3. Registered(o) = ItemsIn(observers, Names, MaxRegistered, Of(o))
    BY <2>1 DEF Registered, ItemsIn, Of
  <2> QED BY <2>2, <2>3 DEF ItemsOf, Calls
<1>3. ASSUME NEW o \in Observers
      PROVE  /\ obsRefs[o] = obsOwned[o] + Cardinality(Registered(o))
                             + Cardinality({i \in DOMAIN posts : posts[i].current = o})
             /\ (\E i \in DOMAIN posts : posts[i].current = o) => obsRefs[o] > 0
  <2>1. obsRefs[o] = obsOwned[o] + RegisteredCount(o) + RunningCount(o)
    BY DEF NotifInv
  <2>2. /\ RegisteredCount(o) \in Nat /\ RunningCount(o) \in Nat /\ obsOwned[o] \in Nat
        /\ \A i \in DOMAIN posts : posts[i].current = o => RunningCount(o) > 0
    BY <1>1, NotifCounts
  <2>3. /\ RegisteredCount(o) = Cardinality(Registered(o))
        /\ RunningCount(o) = Cardinality({i \in DOMAIN posts : posts[i].current = o})
    BY <1>2 DEF RegisteredCount, RunningCount
  <2>4. (\E i \in DOMAIN posts : posts[i].current = o) => obsRefs[o] > 0
    BY <2>1, <2>2
  <2> QED BY <2>1, <2>3, <2>4
<1> QED BY <1>3 DEF ReceiverAlive

\* The count of an observer is that of its owners, registrations and running
\* methods, and whoever a post is calling exists until its method returns,
\* whatever the guest registers, removes, releases and posts in that method: also
\* when a method removes its own observer, and when posts are nested in posts.
THEOREM ReceiversAlive == NotificationsSpec => []ReceiverAlive
<1>1. NotificationsInit => NotifInv
  BY NotifStarts
<1>2. NotifInv /\ [NotificationsNext]_notifVars => NotifInv'
  BY NotifNext
<1>3. NotifInv => ReceiverAlive
  BY NotifSafe
<1> QED BY <1>1, <1>2, <1>3, PTL DEF NotificationsSpec

-----------------------------------------------------------------------------
(* Controls                                                                *)

ControlEvents ==
    {"down", "drag_inside", "drag_outside", "drag_enter", "drag_exit", "up_inside", "up_outside", "value"}
Told == {"guest", "flip"}
ActionTarget == [who : Told, events : SUBSET ControlEvents]
Sent == [who : Told, event : ControlEvents]
ControlRecord ==
    [enabled : BOOLEAN, selected : BOOLEAN, highlighted : BOOLEAN, tracking : BOOLEAN, tracked_touch : Nat]

ControlTypeOK ==
    /\ control \in ControlRecord
    /\ targets \in Seq(ActionTarget) /\ sending \in Seq(Sent)
    /\ touch \in [n : Nat, was : BOOLEAN, is : BOOLEAN] /\ touched \in Nat
    /\ is_on \in BOOLEAN

\* What ControlsFollowTouches says of the touch, of what is shown, and of what
\* the guest knows: it knows the switch's value, has not asked for it, or is
\* about to be told.
Follows_touch(c, n) ==
    /\ c.tracking = (c.tracked_touch # 0)
    /\ c.highlighted = c.tracking
    /\ c.tracked_touch \in {0, n}
Shows(k, c, tables, looks) ==
    k = "button" => \A x \in Contents : looks[x] = ForState(tables[x], StateOf(c))
Wants(ts) == \E i \in DOMAIN ts : "value" \in ts[i].events
Tells(s) == \E i \in DOMAIN s : s[i].event = "value"

ControlInv ==
    /\ ControlTypeOK
    /\ Follows_touch(control, touch.n)
    /\ Shows(kind, control, for_states, shown)
    /\ thumb_on = is_on
    /\ Wants(targets) => Tells(sending) \/ believed = is_on

\* The invariant has the parts of the property.
LEMMA ControlInvFollows == ControlInv => ControlsFollowTouches
BY DEF ControlInv, ControlsFollowTouches, Follows_touch, Shows, Wants, Tells

\* The actions sent for an event are for that event, and there is one when a
\* target wants it: along the list (Iteration).
ForEvent(event) == [who : Told, event : {event}]
WantedBy(ts, event) == \E i \in DOMAIN ts : event \in ts[i].events
RightActions(s, ts, event) ==
    /\ s \in Seq(ForEvent(event))
    /\ WantedBy(ts, event) => s # <<>>

TakenLoop(event) ==
    LET Taken[n \in 0 .. Len(targets)] ==
            IF n = 0 THEN <<>>
            ELSE IF event \in targets[n].events
            THEN Append(Taken[n - 1], [who |-> targets[n].who, event |-> event])
            ELSE Taken[n - 1]
    IN  Taken

TakenNext(event, n, s) ==
    IF event \in targets[n].events
    THEN Append(s, [who |-> targets[n].who, event |-> event])
    ELSE s

\* What is sent for an event is what its loop has at the end of the list.
LEMMA ActionsAreTaken ==
  ASSUME NEW event
  PROVE  Actions(event) = TakenLoop(event)[Len(targets)]
BY Zenon DEF Actions, TakenLoop

\* The actions of an event: induction along the list of targets (StepIteration).
LEMMA ActionsRight ==
  ASSUME NEW event, targets \in Seq(ActionTarget)
  PROVE  RightActions(Actions(event), targets, event)
<1> DEFINE V == Seq(ForEvent(event))
           n == Len(targets)
           H == [e \in (1 .. n) \X V |-> TakenNext(event, e[1], e[2])]
           loop == TakenLoop(event)
<1>1. <<>> \in V
  OBVIOUS
<1>2. n \in Nat /\ DOMAIN targets = 1 .. n /\ \A k \in 1 .. n : targets[k] \in ActionTarget
  BY LenProperties, ElementOfSeq
<1>3. \A k \in 1 .. n : \A s \in V : TakenNext(event, k, s) \in V
  <2>1. SUFFICES ASSUME NEW k \in 1 .. n, NEW s \in V PROVE TakenNext(event, k, s) \in V
    OBVIOUS
  <2>2. [who |-> targets[k].who, event |-> event] \in ForEvent(event)
    BY <1>2 DEF ForEvent, ActionTarget
  <2>3. Append(s, [who |-> targets[k].who, event |-> event]) \in V
    BY <2>2, AppendProperties
  <2> QED BY <2>3 DEF TakenNext
<1>4. H \in [(1 .. n) \X V -> V] /\ \A k \in 1 .. n : \A s \in V : H[<<k, s>>] = TakenNext(event, k, s)
  <2> HIDE DEF V
  <2> QED BY <1>3
<1> HIDE DEF V, H
<1>5. PICK g : StepIterates(g, n, V, <<>>, H)
  BY <1>1, <1>2, <1>4, StepIteration, Zenon
<1>6. /\ g \in [0 .. n -> V] /\ g[0] = <<>> /\ \A k \in 1 .. n : g[k] = H[<<k, g[k - 1]>>]
      /\ \A h : h[0] = <<>> /\ (\A k \in 1 .. n : h[k - 1] \in V => h[k] = H[<<k, h[k - 1]>>]) =>
           \A k \in 0 .. n : h[k] = g[k]
  BY <1>5 DEF StepIterates
<1>7. \A k \in 1 .. n : k \in 0 .. n /\ k - 1 \in 0 .. n /\ k # 0 /\ g[k - 1] \in V
  BY <1>2, <1>6
<1>8. \A k \in 1 .. n : g[k] = TakenNext(event, k, g[k - 1])
  BY <1>4, <1>6, <1>7
<1>9. g = [k \in 0 .. n |-> IF k = 0 THEN <<>> ELSE TakenNext(event, k, g[k - 1])]
  <2>1. ASSUME NEW k \in 0 .. n PROVE g[k] = IF k = 0 THEN <<>> ELSE TakenNext(event, k, g[k - 1])
    <3>1. k # 0 => k \in 1 .. n
      BY <1>2
    <3> QED BY <1>6, <1>8, <3>1
  <2> QED BY <1>6, <2>1
<1>10. loop = [k \in 0 .. n |-> IF k = 0 THEN <<>> ELSE TakenNext(event, k, loop[k - 1])]
  BY <1>9, Zenon DEF TakenLoop, TakenNext
<1> HIDE DEF loop
<1>11. loop[0] = <<>> /\ \A k \in 1 .. n : loop[k - 1] \in V => loop[k] = H[<<k, loop[k - 1]>>]
  <2>1. loop[0] = <<>>
    BY <1>2, <1>10
  <2>2. \A k \in 1 .. n : loop[k] = TakenNext(event, k, loop[k - 1])
    BY <1>7, <1>10
  <2> QED BY <1>4, <2>1, <2>2
<1>12. loop[n] = g[n] /\ g[n] \in V
  BY <1>2, <1>6, <1>11
<1>13. ASSUME NEW i \in 1 .. n, event \in targets[i].events PROVE g[n] # <<>>
  <2> DEFINE Off == {k \in Nat : i <= k /\ k <= n /\ g[k] = <<>>}
  <2>1. SUFFICES ASSUME Off # {} PROVE FALSE
    BY <1>2
  <2>2. PICK m \in Off : \A k \in Off : m <= k
    BY <2>1, LeastNatural
  <2>3. m \in 1 .. n /\ i <= m /\ g[m] = <<>>
    BY <1>2, <2>2
  <2>4. g[m] = TakenNext(event, m, g[m - 1]) /\ g[m - 1] \in V
    BY <1>7, <1>8, <2>3
  <2>5. ASSUME event \in targets[m].events PROVE FALSE
    <3>1. g[m] = Append(g[m - 1], [who |-> targets[m].who, event |-> event])
      BY <2>4, <2>5 DEF TakenNext
    <3>2. g[m - 1] \in Seq(ForEvent(event)) /\ [who |-> targets[m].who, event |-> event] \in ForEvent(event)
      BY <1>2, <2>3, <2>4 DEF V, ForEvent, ActionTarget
    <3>3. g[m] # <<>>
      BY <3>1, <3>2, AppendProperties
    <3> QED BY <2>3, <3>3
  <2>6. ASSUME event \notin targets[m].events PROVE FALSE
    <3>1. g[m - 1] = <<>>
      BY <2>3, <2>4, <2>6 DEF TakenNext
    <3>2. m # i
      BY <1>13, <2>6
    <3>3. m - 1 \in Nat /\ i <= m - 1 /\ m - 1 <= n /\ ~(m <= m - 1)
      BY <1>2, <2>3, <3>2
    <3>4. m - 1 \in Off
      BY <3>1, <3>3
    <3> QED BY <2>2, <3>3, <3>4
  <2> QED BY <2>5, <2>6
<1>14. WantedBy(targets, event) => g[n] # <<>>
  BY <1>2, <1>13 DEF WantedBy
<1>15. Actions(event) = g[n]
  BY <1>12, ActionsAreTaken DEF loop
<1> QED BY <1>12, <1>14, <1>15 DEF RightActions, V

\* Their type.
LEMMA ActionsSent ==
  ASSUME NEW event \in ControlEvents, targets \in Seq(ActionTarget)
  PROVE  Actions(event) \in Seq(Sent)
<1>1. Actions(event) \in Seq(ForEvent(event))
  BY ActionsRight DEF RightActions
<1>2. ForEvent(event) \subseteq Sent
  BY DEF ForEvent, Sent
<1> QED BY <1>1, <1>2, SeqMonotonic

---------------------------------------------------------------------------
\* Every operation keeps the invariant: each in a lemma of its own.

\* What SetControl shows is right, whatever the control becomes.
LEMMA SetControlShows ==
  ASSUME NEW c, SetControl(c), thumb_on = is_on
  PROVE  /\ control' = c /\ UNCHANGED <<for_states, is_on>> /\ thumb_on' = is_on
         /\ kind' = kind => Shows(kind', control', for_states', shown')
<1>1. control' = c /\ UNCHANGED <<for_states, is_on>> /\ thumb_on' = is_on
  BY DEF SetControl
<1>2. ASSUME kind = "button" PROVE \A x \in Contents : shown'[x] = ForState(for_states[x], StateOf(c))
  BY <1>2 DEF SetControl, UpdateButton
<1>3. ASSUME kind' = kind PROVE Shows(kind', control', for_states', shown')
  BY <1>1, <1>2, <1>3 DEF Shows
<1> QED BY <1>1, <1>3

\* A control given up, one given a touch, and one with a setting changed.
LEMMA ControlGivenUp ==
  ASSUME ControlTypeOK, NEW n
  PROVE  LET c == [control EXCEPT !.tracking = FALSE, !.tracked_touch = 0, !.highlighted = FALSE]
         IN  c \in ControlRecord /\ Follows_touch(c, n)
BY DEF ControlTypeOK, ControlRecord, Follows_touch

\* A control that takes a touch follows it.
LEMMA ControlGivenTouch ==
  ASSUME ControlTypeOK, NEW n \in Nat \ {0}
  PROVE  LET c == [control EXCEPT !.tracking = TRUE, !.tracked_touch = n, !.highlighted = TRUE]
         IN  c \in ControlRecord /\ Follows_touch(c, n)
BY DEF ControlTypeOK, ControlRecord, Follows_touch

\* Enabling and selecting leave a control with its touch.
LEMMA ControlSet ==
  ASSUME ControlTypeOK, NEW n, Follows_touch(control, n), NEW yes \in BOOLEAN
  PROVE  /\ LET c == [control EXCEPT !.enabled = yes] IN c \in ControlRecord /\ Follows_touch(c, n)
         /\ LET c == [control EXCEPT !.selected = yes] IN c \in ControlRecord /\ Follows_touch(c, n)
BY DEF ControlTypeOK, ControlRecord, Follows_touch

\* What is sent in answer to a touch does not matter to what the guest knows:
\* nothing was under way.
LEMMA KnowsWhenIdle ==
  ASSUME ControlInv, sending = <<>>
  PROVE  Wants(targets) => believed = is_on
BY DEF ControlInv, Tells

\* touchesBegan:withEvent:
LEMMA BegunKeeps ==
  ASSUME ControlInv, touchesBegan
  PROVE  ControlInv'
<1>1. /\ sending = <<>> /\ touch.n = 0 /\ touched' = touched + 1
      /\ touch' = [n |-> touched + 1, was |-> TRUE, is |-> TRUE]
      /\ UNCHANGED <<kind, targets, believed>>
  BY DEF touchesBegan, Idle
<1>2. /\ ControlTypeOK /\ thumb_on = is_on /\ Follows_touch(control, touch.n)
      /\ Shows(kind, control, for_states, shown) /\ touched + 1 \in Nat \ {0}
  BY DEF ControlInv, ControlTypeOK
<1>3. Wants(targets') => believed' = is_on
  BY <1>1, KnowsWhenIdle
<1>4. CASE UNCHANGED <<control, lookVars, switchVars, sending>>
  <2>1. Follows_touch(control', touch'.n)
    BY <1>1, <1>2, <1>4 DEF Follows_touch
  <2>2. ControlTypeOK'
    BY <1>1, <1>2, <1>4 DEF ControlTypeOK, switchVars
  <2> QED BY <1>1, <1>2, <1>3, <1>4, <2>1, <2>2 DEF ControlInv, lookVars, switchVars
<1>5. CASE /\ SetControl([control EXCEPT !.tracking = TRUE, !.tracked_touch = touched + 1,
                                          !.highlighted = TRUE])
           /\ sending' = Actions("down")
  <2> DEFINE c == [control EXCEPT !.tracking = TRUE, !.tracked_touch = touched + 1, !.highlighted = TRUE]
  <2>1. c \in ControlRecord /\ Follows_touch(c, touched + 1)
    BY <1>2, ControlGivenTouch
  <2> HIDE DEF c
  <2>2. SetControl(c)
    BY <1>5 DEF c
  <2>3. /\ control' = c /\ UNCHANGED <<for_states, is_on>> /\ thumb_on' = is_on
        /\ Shows(kind', control', for_states', shown')
    BY <1>1, <1>2, <2>2, SetControlShows
  <2>4. sending' \in Seq(Sent)
    <3>1. "down" \in ControlEvents
      BY DEF ControlEvents
    <3> QED BY <1>2, <1>5, <3>1, ActionsSent DEF ControlTypeOK
  <2>5. ControlTypeOK'
    BY <1>1, <1>2, <2>1, <2>3, <2>4 DEF ControlTypeOK
  <2> QED BY <1>1, <1>3, <2>1, <2>3, <2>5 DEF ControlInv
<1> QED BY <1>4, <1>5 DEF touchesBegan

\* touchesMoved:withEvent:
LEMMA MovedKeeps ==
  ASSUME ControlInv, touchesMoved
  PROVE  ControlInv'
<1>1. PICK in \in BOOLEAN :
        /\ touch' = [touch EXCEPT !.was = touch.is, !.is = in]
        /\ IF control.enabled /\ control.tracked_touch = touch.n
           THEN /\ \/ UNCHANGED <<control, lookVars, switchVars>>
                   \/ SetControl([control EXCEPT !.tracked_touch = 0, !.tracking = FALSE,
                                                 !.highlighted = FALSE])
                /\ sending' = Actions(Drag(touch.is, in))
           ELSE UNCHANGED <<control, lookVars, switchVars, sending>>
  BY DEF touchesMoved
<1>2. /\ ControlTypeOK /\ thumb_on = is_on /\ Follows_touch(control, touch.n)
      /\ Shows(kind, control, for_states, shown)
  BY DEF ControlInv
<1>3. sending = <<>> /\ UNCHANGED <<kind, targets, touched, believed>>
  BY DEF touchesMoved, Idle
<1>4. touch' \in [n : Nat, was : BOOLEAN, is : BOOLEAN] /\ touch'.n = touch.n
  BY <1>1, <1>2 DEF ControlTypeOK
<1>5. Wants(targets') => believed' = is_on
  BY <1>3, KnowsWhenIdle
<1>6. sending' \in Seq(Sent)
  <2>1. touch.is \in BOOLEAN
    BY <1>2 DEF ControlTypeOK
  <2>2. Drag(touch.is, in) \in ControlEvents
    BY <2>1 DEF Drag, ControlEvents
  <2>3. Actions(Drag(touch.is, in)) \in Seq(Sent)
    BY <1>2, <2>2, ActionsSent DEF ControlTypeOK
  <2> QED BY <1>1, <1>2, <2>3 DEF ControlTypeOK
<1>7. CASE UNCHANGED <<control, lookVars, switchVars>>
  <2>1. ControlTypeOK'
    BY <1>2, <1>3, <1>4, <1>6, <1>7 DEF ControlTypeOK, switchVars
  <2> QED BY <1>2, <1>3, <1>4, <1>5, <1>7, <2>1 DEF ControlInv, lookVars, switchVars
<1>8. CASE SetControl([control EXCEPT !.tracked_touch = 0, !.tracking = FALSE, !.highlighted = FALSE])
  <2> DEFINE c == [control EXCEPT !.tracked_touch = 0, !.tracking = FALSE, !.highlighted = FALSE]
  <2>1. c \in ControlRecord /\ Follows_touch(c, touch.n)
    <3>1. c = [control EXCEPT !.tracking = FALSE, !.tracked_touch = 0, !.highlighted = FALSE]
      BY <1>2 DEF ControlTypeOK, ControlRecord
    <3> QED BY <1>2, <3>1, ControlGivenUp
  <2> HIDE DEF c
  <2>2. SetControl(c)
    BY <1>8 DEF c
  <2>3. /\ control' = c /\ UNCHANGED <<for_states, is_on>> /\ thumb_on' = is_on
        /\ Shows(kind', control', for_states', shown')
    BY <1>2, <1>3, <2>2, SetControlShows
  <2>4. ControlTypeOK'
    BY <1>2, <1>3, <1>4, <1>6, <2>1, <2>3 DEF ControlTypeOK
  <2> QED BY <1>3, <1>4, <1>5, <2>1, <2>3, <2>4 DEF ControlInv
<1> QED BY <1>1, <1>7, <1>8

\* touchesEnded:withEvent:
LEMMA EndedKeeps ==
  ASSUME ControlInv, touchesEnded
  PROVE  ControlInv'
<1>1. /\ sending = <<>> /\ touch.n # 0 /\ touch' = NoTouch
      /\ UNCHANGED <<kind, targets, touched, believed>>
      /\ IF control.tracked_touch = touch.n
         THEN /\ SetControl([control EXCEPT !.tracking = FALSE, !.tracked_touch = 0,
                                            !.highlighted = FALSE])
              /\ sending' = Actions(IF touch.is THEN "up_inside" ELSE "up_outside")
         ELSE UNCHANGED <<control, lookVars, switchVars, sending>>
  BY DEF touchesEnded, Idle
<1>2. /\ ControlTypeOK /\ thumb_on = is_on /\ Follows_touch(control, touch.n)
      /\ Shows(kind, control, for_states, shown)
  BY DEF ControlInv
<1>3. Wants(targets') => believed' = is_on
  BY <1>1, KnowsWhenIdle
<1>4. touch' \in [n : Nat, was : BOOLEAN, is : BOOLEAN] /\ touch'.n = 0
  BY <1>1 DEF NoTouch
<1>5. CASE control.tracked_touch # touch.n
  <2>1. UNCHANGED <<control, lookVars, switchVars, sending>>
    BY <1>1, <1>5
  <2>2. Follows_touch(control, 0)
    BY <1>2, <1>5 DEF Follows_touch
  <2>3. ControlTypeOK'
    BY <1>1, <1>2, <1>4, <2>1 DEF ControlTypeOK, switchVars
  <2> QED BY <1>1, <1>2, <1>3, <1>4, <2>1, <2>2, <2>3 DEF ControlInv, lookVars, switchVars
<1>6. CASE control.tracked_touch = touch.n
  <2> DEFINE c == [control EXCEPT !.tracking = FALSE, !.tracked_touch = 0, !.highlighted = FALSE]
             up == IF touch.is THEN "up_inside" ELSE "up_outside"
  <2>1. c \in ControlRecord /\ Follows_touch(c, 0)
    BY <1>2, ControlGivenUp
  <2> HIDE DEF c
  <2>2. SetControl(c) /\ sending' = Actions(up)
    BY <1>1, <1>6 DEF c
  <2>3. /\ control' = c /\ UNCHANGED <<for_states, is_on>> /\ thumb_on' = is_on
        /\ Shows(kind', control', for_states', shown')
    BY <1>1, <1>2, <2>2, SetControlShows
  <2>4. up \in ControlEvents
    BY DEF ControlEvents
  <2>5. Actions(up) \in Seq(Sent)
    BY <1>2, <2>4, ActionsSent DEF ControlTypeOK
  <2>6. ControlTypeOK'
    BY <1>1, <1>2, <1>4, <2>1, <2>2, <2>3, <2>5 DEF ControlTypeOK
  <2> QED BY <1>1, <1>3, <1>4, <2>1, <2>3, <2>6 DEF ControlInv
<1> QED BY <1>5, <1>6

\* An action of the guest's is sent.
LEMMA SendToGuestKeeps ==
  ASSUME ControlInv, SendToGuest
  PROVE  ControlInv'
<1>1. /\ sending # <<>> /\ sending' = Tail(sending)
      /\ believed' = IF Head(sending).event = "value" THEN is_on ELSE believed
      /\ UNCHANGED <<kind, control, targets, lookVars, switchVars, touch, touched>>
  BY DEF SendToGuest
<1>2. /\ ControlTypeOK /\ thumb_on = is_on /\ Follows_touch(control, touch.n)
      /\ Shows(kind, control, for_states, shown)
      /\ Wants(targets) => Tells(sending) \/ believed = is_on
  BY DEF ControlInv
<1>3. sending \in Seq(Sent)
  BY <1>2 DEF ControlTypeOK
<1>4. sending' \in Seq(Sent)
  BY <1>1, <1>3
<1>5. ASSUME Tells(sending), Head(sending).event # "value" PROVE Tells(sending')
  <2>1. PICK i \in DOMAIN sending : sending[i].event = "value"
    BY <1>5 DEF Tells
  <2>2. /\ Len(sending) \in Nat /\ DOMAIN sending = 1 .. Len(sending) /\ Head(sending) = sending[1]
        /\ Len(sending') = Len(sending) - 1 /\ DOMAIN sending' = 1 .. Len(sending')
    BY <1>1, <1>3, <1>4, LenProperties
  <2>3. \A j \in 1 .. Len(sending') : sending'[j] = sending[j + 1]
    BY <1>1, <1>3
  <2>4. i - 1 \in 1 .. Len(sending')
    BY <1>5, <2>1, <2>2
  <2>5. sending'[i - 1] = sending[i]
    BY <2>1, <2>2, <2>3, <2>4
  <2> QED BY <2>1, <2>2, <2>4, <2>5 DEF Tells
<1>6. Wants(targets') => Tells(sending') \/ believed' = is_on
  BY <1>1, <1>2, <1>5
<1>7. ControlTypeOK'
  BY <1>1, <1>2, <1>4 DEF ControlTypeOK, switchVars
<1> QED BY <1>1, <1>2, <1>6, <1>7 DEF ControlInv, lookVars, switchVars

\* A switch's own action, which flips it and sends for the new value.
LEMMA FlipKeeps ==
  ASSUME ControlInv, Flip
  PROVE  ControlInv'
<1>1. /\ sending # <<>> /\ sending' = Actions("value") \o Tail(sending)
      /\ is_on' = ~is_on /\ thumb_on' = ~is_on
      /\ UNCHANGED <<kind, control, targets, lookVars, touch, touched, believed>>
  BY DEF Flip
<1>2. /\ ControlTypeOK /\ Follows_touch(control, touch.n)
      /\ Shows(kind, control, for_states, shown)
  BY DEF ControlInv
<1>3. sending \in Seq(Sent) /\ targets \in Seq(ActionTarget)
  BY <1>2 DEF ControlTypeOK
<1>4. Tail(sending) \in Seq(Sent)
  BY <1>1, <1>3
<1>5. Actions("value") \in Seq(Sent)
  <2>1. "value" \in ControlEvents
    BY DEF ControlEvents
  <2> QED BY <1>3, <2>1, ActionsSent
<1>6. sending' \in Seq(Sent)
  BY <1>1, <1>4, <1>5
<1>7. ASSUME Wants(targets) PROVE Tells(sending')
  <2>1. Actions("value") \in Seq(ForEvent("value")) /\ Actions("value") # <<>>
    BY <1>3, <1>7, ActionsRight DEF RightActions, Wants, WantedBy
  <2>2. Len(Actions("value")) \in Nat /\ 1 <= Len(Actions("value"))
    BY <2>1, LenProperties, EmptySeq
  <2>3. Actions("value")[1].event = "value"
    <3>1. Actions("value")[1] \in ForEvent("value")
      BY <2>1, <2>2, ElementOfSeq
    <3> QED BY <3>1 DEF ForEvent
  <2>4. sending'[1] = Actions("value")[1] /\ 1 \in DOMAIN sending'
    BY <1>1, <1>4, <1>5, <2>2, ConcatProperties
  <2> QED BY <2>3, <2>4 DEF Tells
<1>8. ControlTypeOK'
  BY <1>1, <1>2, <1>6 DEF ControlTypeOK
<1> QED BY <1>1, <1>2, <1>7, <1>8 DEF ControlInv, lookVars

\* addTarget:action:forControlEvents:
LEMMA AddTargetKeeps ==
  ASSUME ControlInv, NEW events \in SUBSET ControlEvents, addTarget(events)
  PROVE  ControlInv'
<1> DEFINE e == [who |-> "guest", events |-> events]
<1>1. /\ targets' = Append(targets, e)
      /\ believed' = IF "value" \in events THEN is_on ELSE believed
      /\ UNCHANGED <<kind, control, sending, lookVars, switchVars, touch, touched>>
  BY DEF addTarget
<1>2. /\ ControlTypeOK /\ thumb_on = is_on /\ Follows_touch(control, touch.n)
      /\ Shows(kind, control, for_states, shown)
      /\ Wants(targets) => Tells(sending) \/ believed = is_on
  BY DEF ControlInv
<1>3. e \in ActionTarget /\ e.events = events /\ targets \in Seq(ActionTarget)
  BY <1>2 DEF ActionTarget, Told, ControlTypeOK
<1> HIDE DEF e
<1>4. targets' \in Seq(ActionTarget)
  BY <1>1, <1>3, AppendProperties
<1>5. ASSUME Wants(targets') PROVE Tells(sending') \/ believed' = is_on
  <2>1. CASE "value" \in events
    BY <1>1, <2>1
  <2>2. CASE "value" \notin events
    <3>1. PICK i \in DOMAIN targets' : "value" \in targets'[i].events
      BY <1>5 DEF Wants
    <3>2. /\ Len(targets) \in Nat /\ DOMAIN targets = 1 .. Len(targets)
          /\ DOMAIN targets' = 1 .. (Len(targets) + 1)
          /\ targets'[Len(targets) + 1] = e
      BY <1>1, <1>3, <1>4, LenProperties, AppendProperties
    <3>3. i # Len(targets) + 1
      BY <1>3, <2>2, <3>1, <3>2
    <3>4. i \in 1 .. Len(targets)
      BY <3>1, <3>2, <3>3
    <3>5. targets'[i] = targets[i]
      BY <1>1, <1>3, <3>4, AppendProperties
    <3>6. Wants(targets)
      BY <3>1, <3>2, <3>4, <3>5 DEF Wants
    <3> QED BY <1>1, <1>2, <2>2, <3>6
  <2> QED BY <2>1, <2>2
<1>6. ControlTypeOK'
  BY <1>1, <1>2, <1>4 DEF ControlTypeOK, switchVars
<1> QED BY <1>1, <1>2, <1>5, <1>6 DEF ControlInv, lookVars, switchVars

\* setEnabled: and setSelected:
LEMMA SettingsKeep ==
  ASSUME ControlInv, NEW yes \in BOOLEAN, setEnabled(yes) \/ setSelected(yes)
  PROVE  ControlInv'
<1>1. /\ ControlTypeOK /\ thumb_on = is_on /\ Follows_touch(control, touch.n)
      /\ Wants(targets) => Tells(sending) \/ believed = is_on
  BY DEF ControlInv
<1>2. UNCHANGED <<kind, targets, sending, touch, touched, believed>>
  BY DEF setEnabled, setSelected
<1>3. \E c \in ControlRecord : Follows_touch(c, touch.n) /\ SetControl(c)
  BY <1>1, ControlSet DEF setEnabled, setSelected
<1>4. PICK c \in ControlRecord : Follows_touch(c, touch.n) /\ SetControl(c)
  BY <1>3
<1>5. /\ control' = c /\ UNCHANGED <<for_states, is_on>> /\ thumb_on' = is_on
      /\ Shows(kind', control', for_states', shown')
  BY <1>1, <1>2, <1>4, SetControlShows
<1>6. ControlTypeOK'
  BY <1>1, <1>2, <1>4, <1>5 DEF ControlTypeOK
<1> QED BY <1>1, <1>2, <1>4, <1>5, <1>6 DEF ControlInv

\* A button's title, colour or image for a state.
LEMMA SetForStateKeeps ==
  ASSUME ControlInv, NEW x, NEW look, NEW state, SetForState(x, look, state)
  PROVE  ControlInv'
<1>1. /\ ControlTypeOK /\ thumb_on = is_on /\ Follows_touch(control, touch.n)
      /\ Wants(targets) => Tells(sending) \/ believed = is_on
  BY DEF ControlInv
<1>2. /\ shown' = UpdateButton(control, for_states')
      /\ UNCHANGED <<kind, control, targets, sending, switchVars, touch, touched, believed>>
  BY DEF SetForState
<1>3. Shows(kind', control', for_states', shown')
  BY <1>2 DEF Shows, UpdateButton
<1>4. ControlTypeOK'
  BY <1>1, <1>2 DEF ControlTypeOK, switchVars
<1> QED BY <1>1, <1>2, <1>3, <1>4 DEF ControlInv, switchVars

\* A switch's setOn:
LEMMA SetOnKeeps ==
  ASSUME ControlInv, NEW yes \in BOOLEAN, setOn(yes)
  PROVE  ControlInv'
<1>1. /\ ControlTypeOK /\ Follows_touch(control, touch.n) /\ Shows(kind, control, for_states, shown)
  BY DEF ControlInv
<1>2. /\ is_on' = yes /\ thumb_on' = yes /\ believed' = yes
      /\ UNCHANGED <<kind, control, targets, sending, lookVars, touch, touched>>
  BY DEF setOn
<1>3. ControlTypeOK'
  BY <1>1, <1>2 DEF ControlTypeOK
<1> QED BY <1>1, <1>2, <1>3 DEF ControlInv, lookVars

\* A new control has no touch and nothing to send.
LEMMA ControlStarts == ControlInit => ControlInv
<1> SUFFICES ASSUME ControlInit PROVE ControlInv
  OBVIOUS
<1>1. /\ control = [enabled |-> TRUE, selected |-> FALSE, highlighted |-> FALSE,
                    tracking |-> FALSE, tracked_touch |-> 0]
      /\ sending = <<>> /\ touch = NoTouch /\ touched = 0
      /\ is_on = FALSE /\ thumb_on = FALSE /\ believed = FALSE
      /\ shown = UpdateButton(control, for_states)
  BY DEF ControlInit
<1>2. targets \in Seq(ActionTarget)
  <2>1. PICK e \in ActionTarget : e = [who |-> "flip", events |-> {"up_inside"}]
    BY DEF ActionTarget, Told, ControlEvents
  <2>2. targets = <<e>> \/ targets = <<>>
    BY <2>1 DEF ControlInit
  <2>3. <<e>> \in Seq(ActionTarget)
    OBVIOUS
  <2>4. <<>> \in Seq(ActionTarget)
    OBVIOUS
  <2> QED BY <2>2, <2>3, <2>4
<1>3. control \in ControlRecord /\ Follows_touch(control, touch.n)
  BY <1>1 DEF ControlRecord, Follows_touch, NoTouch
<1>4. touch \in [n : Nat, was : BOOLEAN, is : BOOLEAN] /\ sending \in Seq(Sent)
  BY <1>1 DEF NoTouch
<1>5. Shows(kind, control, for_states, shown)
  BY <1>1 DEF Shows, UpdateButton
<1> QED BY <1>1, <1>2, <1>3, <1>4, <1>5 DEF ControlInv, ControlTypeOK

\* Every step of a control.
LEMMA ControlStepKeeps == ControlInv /\ [ControlNext]_controlVars => ControlInv'
<1> SUFFICES ASSUME ControlInv, [ControlNext]_controlVars PROVE ControlInv'
  OBVIOUS
<1>1. CASE touchesBegan
  BY <1>1, BegunKeeps
<1>2. CASE touchesMoved
  BY <1>2, MovedKeeps
<1>3. CASE touchesEnded
  BY <1>3, EndedKeeps
<1>4. CASE SendToGuest
  BY <1>4, SendToGuestKeeps
<1>5. CASE Flip
  BY <1>5, FlipKeeps
<1>6. CASE \E events \in {{"up_inside"}, {"down", "drag_exit"}, {"value"}} : addTarget(events)
  <2>1. {{"up_inside"}, {"down", "drag_exit"}, {"value"}} \subseteq SUBSET ControlEvents
    BY DEF ControlEvents
  <2> QED BY <1>6, <2>1, AddTargetKeeps
<1>7. CASE \E yes \in BOOLEAN : setEnabled(yes) \/ setSelected(yes) \/ setOn(yes)
  BY <1>7, SettingsKeep, SetOnKeeps
<1>8. CASE \E x \in Contents, look \in Looks, state \in {{}, {"highlighted"}, {"disabled"}} :
             SetForState(x, look, state)
  BY <1>8, SetForStateKeeps
<1>9. CASE UNCHANGED controlVars
  BY <1>9 DEF controlVars, ControlInv, ControlTypeOK
<1> QED BY <1>1, <1>2, <1>3, <1>4, <1>5, <1>6, <1>7, <1>8, <1>9 DEF ControlNext

\* Whatever order touches, actions and the guest's calls come in: a lifted
\* finger leaves a control neither tracking nor pressed, even if it was disabled
\* in between; a button shows what its state calls for and a switch the side it
\* is on; and a guest that asks for a switch's changes knows its value or is
\* about to be told (touchesEnded, send_actions and _touchHLE_flipAction of
\* ui_control.rs, ui_button.rs and ui_switch.rs).
THEOREM TouchesControl == ControlsSpec => []ControlsFollowTouches
<1>1. ControlInit => ControlInv
  BY ControlStarts
<1>2. ControlInv /\ [ControlNext]_controlVars => ControlInv'
  BY ControlStepKeeps
<1>3. ControlInv => ControlsFollowTouches
  BY ControlInvFollows
<1> QED BY <1>1, <1>2, <1>3, PTL DEF ControlsSpec
=============================================================================
