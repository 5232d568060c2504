---- MODULE Composition ----
(***************************************************************************)
(* Core Animation's compositor: what a layer shows is drawn by its         *)
(* delegate or set by the app, uploaded to a texture when it has changed,  *)
(* and painted with the animations that are attached to the layer; when an *)
(* animation has started or ended its delegate is told, after the frame,   *)
(* from a list made while painting.  Transactions give animations without  *)
(* a duration theirs.  (The tree of layers is in Views.)                   *)
(*                                                                         *)
(* Time is in units of half a frame's animation step; an animation's       *)
(* progress is counted in halves of its length.                            *)
(***************************************************************************)
EXTENDS Integers, Sequences, FiniteSets, SequencesExt

CONSTANTS Layers,
          Animations, AnimKeys,
          AnimKinds,        \* the settings animations are made with
          absent, MaxCaTime, FrameInterval,
          MaxAnimRefs,      \* bound on the references an animation gathers
          CaCareful         \* what the app avoids

ASSUME CompositionAssumption ==
    /\ MaxCaTime \in Nat /\ MaxAnimRefs \in Nat /\ FrameInterval \in Nat \ {0}
    /\ IsFiniteSet(Layers) /\ IsFiniteSet(Animations)
    /\ absent \notin Animations \cup AnimKeys /\ absent \notin AnimKinds
    /\ \A k \in AnimKinds : /\ k.duration \in Nat /\ k.begin \in Nat
                            /\ k.reverses \in BOOLEAN /\ k.removed \in BOOLEAN
    /\ CaCareful \subseteq {"zero_duration", "listed"}

VARIABLES anim,     \* the animations: settings, start time, references, what their delegate was told
          keyed,    \* layer -> key -> animation, or absent
          anonymous,\* layer -> animations without a key
          report,   \* the list of starts and ends still to be told
          calling,  \* a delegate is being told: the app's code runs
          transactions, \* explicit transactions: their durations
          caNow, next,  \* the time, and recomposite_next (-1: none)
          needs,    \* layers with needs_display
          upToDate, \* layers with gles_texture_is_up_to_date
          pictured, \* layers that have something to show
          stale,    \* ghost: layers whose texture is not what they should show
          jumped,   \* ghost: an animation was shown going backwards
          caPanic

caVars == <<anim, keyed, anonymous, report, calling, transactions, caNow, next, needs, upToDate, pictured,
            stale, jumped, caPanic>>

unmade == [kind |-> absent, duration |-> 0, started |-> -1, refs |-> 0, told |-> <<>>, shown |-> 0]

CompositionInit ==
    /\ anim = [a \in Animations |-> unmade]
    /\ keyed = [l \in Layers |-> [k \in AnimKeys |-> absent]]
    /\ anonymous = [l \in Layers |-> {}]
    /\ report = <<>> /\ calling = FALSE /\ transactions = <<>>
    /\ caNow = 0 /\ next = -1
    /\ needs = {} /\ upToDate = {} /\ pictured = {} /\ stale = {}
    /\ jumped = FALSE /\ caPanic = FALSE

animVars == <<anim, keyed, anonymous, report, calling, jumped>>
pictureVars == <<needs, upToDate, pictured, stale>>

attachedTo(l) == ({keyed[l][k] : k \in AnimKeys} \ {absent}) \cup anonymous[l]
attached == UNION {attachedTo(l) : l \in Layers}

-----------------------------------------------------------------------------
(* Transactions (ca_transaction.rs) and the app's use of animations.       *)

\* The app's code runs between frames and when it is called back.
AppRuns == ~caPanic /\ (report = <<>> \/ calling)

Begin ==
    /\ AppRuns /\ Len(transactions) < 1
    /\ transactions' = Append(transactions, 1)      \* 0.25 s
    /\ UNCHANGED <<animVars, pictureVars, caNow, next, caPanic>>

SetAnimationDuration ==
    /\ AppRuns /\ transactions # <<>>
    /\ transactions' = [transactions EXCEPT ![Len(transactions)] = 2]
    /\ UNCHANGED <<animVars, pictureVars, caNow, next, caPanic>>

Commit ==
    /\ AppRuns /\ transactions # <<>>
    /\ transactions' = Front(transactions)
    /\ UNCHANGED <<animVars, pictureVars, caNow, next, caPanic>>

MakeAnimation ==
    \E a \in Animations, k \in AnimKinds :
        /\ AppRuns /\ anim[a].kind = absent
        /\ anim' = [anim EXCEPT ![a] = [unmade EXCEPT !.kind = k, !.duration = k.duration, !.refs = 1]]
        /\ UNCHANGED <<keyed, anonymous, report, calling, jumped, transactions, pictureVars, caNow, next, caPanic>>

\* While an end is reported, an app that takes care adds nothing under the key
\* that is about to be removed, and removes nothing that is in the list.
Unlisted(l, k) == "listed" \in CaCareful => \A i \in DOMAIN report : report[i].layer # l \/ report[i].key # k

\* addAnimation:forKey: - the duration comes from the transaction when the
\* animation has none; an animation that had the key stays retained.
AddAnimation ==
    \E a \in Animations, l \in Layers, key \in AnimKeys \cup {absent} :
        LET zero == anim[a].duration = 0
        IN  /\ AppRuns /\ anim[a].refs \in 1 .. MaxAnimRefs - 1 /\ anim[a].started = -1 /\ a \notin attached
            /\ key # absent => Unlisted(l, key)
            /\ "zero_duration" \in CaCareful => ~zero \/ transactions # <<>>
            /\ caPanic' = (zero /\ transactions = <<>>)
            /\ anim' = [anim EXCEPT ![a].refs = @ + 1,
                                    ![a].duration = IF zero /\ transactions # <<>> THEN Last(transactions) ELSE @]
            /\ keyed' = IF key = absent THEN keyed ELSE [keyed EXCEPT ![l][key] = a]
            /\ anonymous' = IF key = absent THEN [anonymous EXCEPT ![l] = @ \cup {a}] ELSE anonymous
            /\ UNCHANGED <<report, calling, jumped, transactions, pictureVars, caNow, next>>

letGo(an, a) == [an EXCEPT ![a].refs = @ - 1]

RemoveAnimation ==
    \E l \in Layers, key \in AnimKeys :
        /\ AppRuns /\ keyed[l][key] # absent /\ Unlisted(l, key)
        /\ "listed" \in CaCareful => \A i \in DOMAIN report : report[i].a # keyed[l][key]
        /\ anim' = letGo(anim, keyed[l][key])
        /\ keyed' = [keyed EXCEPT ![l][key] = absent]
        /\ UNCHANGED <<anonymous, report, calling, jumped, transactions, pictureVars, caNow, next, caPanic>>

DropAnimation ==
    \E a \in Animations :
        /\ AppRuns /\ anim[a].refs > (IF a \in attached THEN 1 ELSE 0)
        /\ anim[a].kind # absent /\ anim[a].told = <<>> /\ a \in attached
        /\ anim' = letGo(anim, a)
        /\ UNCHANGED <<keyed, anonymous, report, calling, jumped, transactions, pictureVars, caNow, next, caPanic>>

-----------------------------------------------------------------------------
(* Contents.                                                               *)

\* setNeedsDisplay: the app would now draw something else.
SetNeedsDisplay ==
    \E l \in Layers : /\ AppRuns /\ needs' = needs \cup {l} /\ stale' = stale \cup {l}
                      /\ UNCHANGED <<animVars, upToDate, pictured, transactions, caNow, next, caPanic>>

\* The layer gets a new picture.
Pictures(l) ==
    /\ AppRuns /\ pictured' = pictured \cup {l} /\ stale' = stale \cup {l}
    /\ UNCHANGED <<animVars, needs, transactions, caNow, next, caPanic>>

SetContents == \E l \in Layers : Pictures(l) /\ upToDate' = upToDate \ {l}

\* A plausible slip: the new pixels are not marked for upload.
PresentPixelsOnly == \E l \in Layers : Pictures(l) /\ UNCHANGED upToDate

\* An EAGLContext presents to the layer when it does not have the whole screen.
PresentPixels == \E l \in Layers : Pictures(l) /\ upToDate' = upToDate \ {l}

-----------------------------------------------------------------------------
(* A frame.                                                                *)

\* displayIfNeeded and the upload, for every layer.
Redrawn == needs
UpToDateAfterDisplay == upToDate \ Redrawn      \* displayLayer: ends in setContents:
PicturedAfterDisplay == pictured \cup Redrawn

\* The textures that painting brings up to date.
Uploads == PicturedAfterDisplay \ UpToDateAfterDisplay

\* How far an animation is at the present time: in halves, at most its length.
StartOf(a) == IF anim[a].started >= 0 THEN anim[a].started
              ELSE IF caNow >= anim[a].kind.begin THEN caNow ELSE anim[a].kind.begin
Elapsed(a) ==
    LET t == IF caNow > StartOf(a) THEN caNow - StartOf(a) ELSE 0
        halves == (2 * t) \div anim[a].duration
    IN  IF halves < 2 THEN halves ELSE 2
Begins(a) == caNow >= anim[a].kind.begin /\ anim[a].started = -1
Ends(a) == Elapsed(a) = 2
Waiting(a) == caNow < anim[a].kind.begin

\* Whether the presentation of the layer is changed by the animation, and how
\* far: the fraction of the repetitions done, there and back if it reverses.
Applies(a) ==
    /\ Waiting(a) => anim[a].kind.fill \in {"backwards", "both"}
    /\ ~Waiting(a) /\ Ends(a) => anim[a].kind.fill \in {"forwards", "both"}

Progress(a) == LET p == Elapsed(a) % 2 IN IF anim[a].kind.reverses THEN 2 * p ELSE p

\* The starts, then the ends, of the animations of all layers, in any order.
Reports ==
    LET begun == {[what |-> "start", layer |-> l, key |-> absent, a |-> a] :
                     l \in Layers, a \in {x \in attached : Begins(x)}}
        starts == {r \in begun : r.a \in attachedTo(r.layer)}
        ended(l) == {a \in attachedTo(l) : ~Waiting(a) /\ Ends(a)}
        keyOf(l, a) == IF \E k \in AnimKeys : keyed[l][k] = a
                       THEN CHOOSE k \in AnimKeys : keyed[l][k] = a ELSE absent
        stops == UNION {{[what |-> "stop", layer |-> l, key |-> keyOf(l, a), a |-> a] : a \in ended(l)}
                           : l \in Layers}
    IN  {p \o q : p \in SetToSeqs(starts), q \in SetToSeqs(stops)}

\* recomposite_next moves on by as many whole frames as have been missed.
NextFrame ==
    IF next = -1 THEN caNow + FrameInterval
    ELSE LET late == caNow - next
             missed == (late + FrameInterval - 1) \div FrameInterval
         IN  next + FrameInterval * (IF missed < 1 THEN 1 ELSE missed)

\* An iteration of the main run loop: the implicit transaction is committed
\* (no explicit one may be open), then the layers are displayed, uploaded and
\* painted.
Recomposite ==
    /\ ~caPanic /\ report = <<>>
    /\ transactions = <<>>
    /\ next <= caNow
    /\ next' = NextFrame
    /\ needs' = {}
    /\ pictured' = PicturedAfterDisplay
    /\ upToDate' = UpToDateAfterDisplay \cup Uploads
    /\ stale' = stale \ Uploads
    /\ anim' = [a \in Animations |->
                  IF a \notin attached THEN anim[a]
                  ELSE [anim[a] EXCEPT !.started = IF Begins(a) THEN caNow ELSE @,
                                       !.shown = IF Applies(a) THEN Progress(a) ELSE @]]
    /\ jumped' = (jumped \/ \E a \in attached : /\ Applies(a) /\ ~anim[a].kind.reverses
                                                /\ Progress(a) < anim[a].shown)
    /\ report' \in Reports /\ calling' = FALSE
    /\ UNCHANGED <<keyed, anonymous, transactions, caNow, caPanic>>

\* (What an animation that is not removed is told, again at every frame, is
\* recorded up to three times.)
tell(an, a, what) == [an EXCEPT ![a].told = IF Len(@) < 3 THEN Append(@, what) ELSE @]

\* animationDidStart: and animationDidStop:finished: (the app may do something
\* before the list goes on).
Tell ==
    /\ ~caPanic /\ report # <<>> /\ Head(report).what \in {"start", "stop"}
    /\ LET r == Head(report)
       IN  /\ caPanic' = (anim[r.a].refs = 0)       \* the animation is gone
           /\ anim' = tell(anim, r.a, r.what)
           /\ report' = IF r.what = "stop" /\ anim[r.a].kind.removed
                        THEN [report EXCEPT ![1].what = "remove"] ELSE Tail(report)
           /\ calling' = TRUE
    /\ UNCHANGED <<keyed, anonymous, jumped, transactions, pictureVars, caNow, next>>

\* A plausible slip: an animation that has ended stays on its layer.
RemoveEndedNot ==
    /\ ~caPanic /\ report # <<>> /\ Head(report).what = "remove"
    /\ report' = Tail(report) /\ calling' = FALSE
    /\ UNCHANGED <<anim, keyed, anonymous, jumped, transactions, pictureVars, caNow, next, caPanic>>

\* What ended is removed by its key, whatever has that key now.
RemoveEnded ==
    /\ ~caPanic /\ report # <<>> /\ Head(report).what = "remove"
    /\ LET r == Head(report)
       IN  /\ report' = Tail(report) /\ calling' = FALSE
           /\ IF r.key = absent
              THEN /\ caPanic' = (r.a \notin anonymous[r.layer])
                   /\ anonymous' = [anonymous EXCEPT ![r.layer] = @ \ {r.a}]
                   /\ anim' = letGo(anim, r.a) /\ UNCHANGED keyed
              ELSE /\ keyed' = [keyed EXCEPT ![r.layer][r.key] = absent]
                   /\ anim' = IF keyed[r.layer][r.key] = absent THEN anim ELSE letGo(anim, keyed[r.layer][r.key])
                   /\ UNCHANGED <<anonymous, caPanic>>
    /\ UNCHANGED <<jumped, transactions, pictureVars, caNow, next>>

Tick ==
    /\ ~caPanic /\ report = <<>> /\ transactions = <<>> /\ caNow < MaxCaTime
    /\ caNow' = caNow + 1
    /\ UNCHANGED <<animVars, pictureVars, transactions, next, caPanic>>

AnimationsNext ==
    \/ Begin \/ SetAnimationDuration \/ Commit
    \/ MakeAnimation \/ AddAnimation \/ RemoveAnimation \/ DropAnimation
    \/ Recomposite \/ Tell \/ RemoveEnded \/ Tick

PicturesNext == SetNeedsDisplay \/ SetContents \/ PresentPixels \/ Recomposite \/ Tick

\* An app that uses animations and pictures together.
CompositionSpec == CompositionInit /\ [][AnimationsNext \/ PicturesNext]_caVars

-----------------------------------------------------------------------------
(* Properties                                                              *)

\* Whatever the app adds, replaces and removes (but what a list that is being told
\* still names, see "listed"), and whenever frames happen, the delegate of an
\* animation that is removed on completion hears at most once of its start, and
\* then at most once of its end; an animation whose end was told is no longer on its
\* layer once the list has been told; and one that is on a layer is alive.
AnimationsReportOnce ==
    /\ \A a \in Animations : anim[a].kind # absent /\ anim[a].kind.removed =>
         anim[a].told \in {<<>>, <<"start">>, <<"start", "stop">>}
    /\ \A a \in attached : anim[a].refs > 0
    /\ report = <<>> => \A a \in attached : anim[a].kind.removed => anim[a].told # <<"start", "stop">>

\* A layer whose texture is not what it should show is marked, to be drawn or
\* uploaded by the next frame: nothing the app has changed is forgotten.
ChangesReachScreen == \A l \in stale : l \in needs \/ l \notin upToDate

\* An animation that neither repeats nor reverses is not seen to go backwards,
\* provided it does not fill forwards (at its end the fraction of the
\* repetition is 0 again, and it would be held at its start).
NoJumpBack == ~jumped

\* The delegate and the user see no animation start or end twice, or go back, and
\* the frames meet no animation that is gone: neither when they report on it nor
\* when they take it off its layer (composition.rs, ca_animation.rs).
AnimationsRunOnce == AnimationsReportOnce /\ NoJumpBack /\ ~caPanic
====
