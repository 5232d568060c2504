---- MODULE Views ----
(***************************************************************************)
(* UIKit's tree of views and Core Animation's tree of layers.  Every view  *)
(* owns one layer (named after its view here) and every change of the view *)
(* tree is repeated on the layers; touches are found in the first tree and *)
(* the screen is painted from the second.  Windows are root views, kept in *)
(* a list from back to front; a view controller keeps a view and is known  *)
(* to it by a weak reference.                                              *)
(*                                                                         *)
(* The whole state is one record, because releasing a view deallocates its *)
(* layer and its subviews in turn (retain counts are those of objc/objects *)
(* .rs, see Objects): the operations are functions on it.                  *)
(***************************************************************************)
EXTENDS Integers, Sequences, FiniteSets, SequencesExt

CONSTANTS Views, Windows, Controllers,
          EaglViews,        \* views whose layer is a CAEAGLLayer
          nil,
          MaxFlags,         \* bound on the flags that are set at once
          UiCareful         \* what the app avoids

ASSUME ViewsAssumption ==
    /\ Windows \subseteq Views /\ EaglViews \subseteq Views
    /\ nil \notin Views \cup Controllers /\ MaxFlags \in Nat
    /\ UiCareful \subseteq {"controller_last"}

VARIABLES ui,       \* the two trees, the windows, the controllers
          owned,    \* references the app itself holds to a view or controller
          kept      \* layers the app has retained

viewVars == <<ui, owned, kept>>

\* In ui: retain counts (0: not allocated), parents and ordered children of
\* views (refs, sup, subs) and of layers (lrefs, lsup, lsubs), the controller a
\* view knows, the view a controller keeps, the windows, the key window, views
\* with a flag set, and whether an assertion or an unwrap failed.
Flags == {"hidden", "inert", "small", "translucent"}
NoViews ==
    [refs |-> [v \in Views |-> 0], sup |-> [v \in Views |-> nil], subs |-> [v \in Views |-> <<>>],
     lrefs |-> [v \in Views |-> 0], lsup |-> [v \in Views |-> nil], lsubs |-> [v \in Views |-> <<>>],
     vc |-> [v \in Views |-> nil], crefs |-> [c \in Controllers |-> 0],
     cview |-> [c \in Controllers |-> nil],
     windows |-> <<>>, key |-> nil,
     flags |-> {}, panic |-> FALSE]

ViewsInit == ui = NoViews /\ owned = [x \in Views \cup Controllers |-> 0] /\ kept = {}

alive(u, v) == u.refs[v] > 0
without(s, x) == SelectSeq(s, LAMBDA y : y # x)
failIf(u, b) == [u EXCEPT !.panic = @ \/ b]
has(u, v, f) == <<v, f>> \in u.flags

RECURSIVE ancestors(_, _)
ancestors(u, v) == IF u.sup[v] = nil THEN {} ELSE {u.sup[v]} \cup ancestors(u, u.sup[v])

-----------------------------------------------------------------------------
(* Layers (ca_layer.rs)                                                    *)

RECURSIVE LayerRelease(_, _)

LayerDealloc(u, l) ==
    LET orphan(x, k) == LayerRelease([x EXCEPT !.lsup[k] = nil], k)
    IN  [FoldLeft(orphan, [failIf(u, u.lsup[l] # nil) EXCEPT !.lsubs[l] = <<>>], u.lsubs[l])
            EXCEPT !.lrefs[l] = 0]

LayerRelease(u, l) ==
    IF u.lrefs[l] = 1 THEN LayerDealloc(u, l)
    ELSE [failIf(u, u.lrefs[l] = 0) EXCEPT !.lrefs[l] = @ - 1]

RemoveFromSuperlayer(u, l) ==
    LET p == u.lsup[l]
    IN  IF p = nil THEN u
        ELSE LayerRelease([u EXCEPT !.lsup[l] = nil, !.lsubs[p] = without(@, l)], l)

\* The layer leaves its old parent and takes a place among the new one's.
PutSublayer(u, p, l, place(_)) ==
    LET u2 == RemoveFromSuperlayer([u EXCEPT !.lrefs[l] = @ + 1], l)
        i == place(u2.lsubs[p])
    IN  IF i \notin 1 .. Len(u2.lsubs[p]) + 1 THEN failIf(u2, TRUE)
        ELSE [u2 EXCEPT !.lsup[l] = p, !.lsubs[p] = InsertAt(@, i, l)]

\* bringSublayerToFront: is sent to the layer when it has this sublayer
\* already; no class implements it.
AddSublayer(u, p, l) ==
    IF u.lsup[l] = p THEN failIf(u, TRUE)
    ELSE PutSublayer(u, p, l, LAMBDA s : Len(s) + 1)

InsertSublayerAt(u, p, l, index) == PutSublayer(u, p, l, LAMBDA s : index + 1)

positionOf(s, x) == IF x \in Range(s) THEN CHOOSE i \in DOMAIN s : s[i] = x ELSE 0
InsertSublayerBelow(u, p, l, sibling) == PutSublayer(u, p, l, LAMBDA s : positionOf(s, sibling))

-----------------------------------------------------------------------------
(* Views (ui_view.rs) and windows (ui_window.rs)                           *)

RECURSIVE ReleaseView(_, _)

\* UIWindow's dealloc, then UIView's.
Dealloc(u, v) ==
    LET left == [u EXCEPT !.key = IF @ = v THEN nil ELSE @, !.windows = without(@, v)]
        bare == LayerRelease(failIf(left, u.vc[v] # nil \/ u.sup[v] # nil), v)
        orphan(x, k) == ReleaseView([x EXCEPT !.sup[k] = nil], k)
    IN  [FoldLeft(orphan, [bare EXCEPT !.subs[v] = <<>>], u.subs[v])
            EXCEPT !.refs[v] = 0, !.flags = {p \in @ : p[1] # v}]

ReleaseView(u, v) ==
    IF u.refs[v] = 1 THEN Dealloc(u, v)
    ELSE [failIf(u, u.refs[v] = 0) EXCEPT !.refs[v] = @ - 1]

RetainView(u, v) == [u EXCEPT !.refs[v] = @ + 1]

\* A plausible slip: the layer stays where it is until the view is added
\* elsewhere.
RemoveFromSuperviewOnly(u, v) ==
    LET p == u.sup[v]
    IN  IF p = nil THEN u ELSE ReleaseView([u EXCEPT !.sup[v] = nil, !.subs[p] = without(@, v)], v)

RemoveFromSuperview(u, v) ==
    LET p == u.sup[v]
    IN  IF p = nil THEN u
        ELSE ReleaseView([RemoveFromSuperlayer([u EXCEPT !.sup[v] = nil], v)
                         EXCEPT !.subs[p] = without(@, v)], v)

BringSubviewToFront(u, p, v) ==
    IF v \notin Range(u.subs[p]) THEN u
    ELSE AddSublayer(RemoveFromSuperlayer([u EXCEPT !.subs[p] = Append(without(@, v), v)], v), p, v)

SendSubviewToBack(u, p, v) ==
    IF v \notin Range(u.subs[p]) THEN u
    ELSE InsertSublayerAt(RemoveFromSuperlayer([u EXCEPT !.subs[p] = <<v>> \o without(@, v)], v), p, v, 0)

AddSubview(u, p, v) ==
    IF u.sup[v] = p THEN BringSubviewToFront(u, p, v)
    ELSE LET u2 == RemoveFromSuperview(RetainView(u, v), v)
         IN  AddSublayer([u2 EXCEPT !.sup[v] = p, !.subs[p] = Append(@, v)], p, v)

\* The index counts the subviews that are left when the view has been taken
\* out: one past them panics.
InsertSubviewAt(u, p, v, index) ==
    LET u2 == RemoveFromSuperview(RetainView(u, v), v)
    IN  IF index > Len(u2.subs[p]) THEN failIf(u2, TRUE)
        ELSE InsertSublayerAt([u2 EXCEPT !.sup[v] = p, !.subs[p] = InsertAt(@, index + 1, v)], p, v, index)

InsertSubviewBelow(u, p, v, sibling) ==
    LET u2 == RemoveFromSuperview(RetainView(u, v), v)
        i == positionOf(u2.subs[p], sibling)
    IN  IF i = 0 THEN failIf(u2, TRUE)
        ELSE InsertSublayerBelow([u2 EXCEPT !.sup[v] = p, !.subs[p] = InsertAt(@, i, v)], p, v, sibling)

\* init_common and the initialisers: a view and its layer; a window is hidden
\* and joins the list.
NewView(u, v) ==
    [u EXCEPT !.refs[v] = 1, !.lrefs[v] = 1,
              !.windows = IF v \in Windows THEN Append(@, v) ELSE @,
              !.flags = IF v \in Windows THEN @ \cup {<<v, "hidden">>} ELSE @]

MakeKeyAndVisible(u, w) == [u EXCEPT !.key = w, !.flags = @ \ {<<w, "hidden">>}]

\* hitTest:withEvent: - later subviews are on top.
RECURSIVE HitTest(_, _)
HitTest(u, v) ==
    IF has(u, v, "small") THEN nil
    ELSE LET open == SelectSeq(u.subs[v], LAMBDA k : ~has(u, k, "hidden") /\ ~has(u, k, "inert"))
             hits == SelectSeq([i \in DOMAIN open |-> HitTest(u, open[i])], LAMBDA h : h # nil)
         IN  IF hits = <<>> THEN v ELSE Last(hits)

\* The window a touch goes to: the last one that contains the point.
TouchedWindow(u) ==
    LET over == SelectSeq(u.windows, LAMBDA w : ~has(u, w, "small"))
    IN  IF over = <<>> THEN nil ELSE Last(over)

-----------------------------------------------------------------------------
(* View controllers                                                        *)

\* setView: - the old view forgets its controller, the new one knows it.
SetView(u, c, v) ==
    LET old == u.cview[c]
        u2 == [u EXCEPT !.cview[c] = v,
                        !.vc = [x \in Views |-> IF x = v THEN c ELSE IF x = old THEN nil ELSE @[x]]]
        u3 == IF v = nil THEN u2 ELSE RetainView(u2, v)
    IN  IF old = nil THEN u3 ELSE ReleaseView(u3, old)

\* dealloc releases the view, which still knows its controller.
ControllerRelease(u, c) ==
    IF u.crefs[c] > 1 THEN [u EXCEPT !.crefs[c] = @ - 1]
    ELSE LET v == u.cview[c]
             gone == [u EXCEPT !.crefs[c] = 0, !.cview[c] = nil]
         IN  IF v = nil THEN gone ELSE ReleaseView(gone, v)

-----------------------------------------------------------------------------
(* Painting (composition.rs) and the fast path (ca_eagl_layer.rs)          *)

\* composite_layer_recursive: a layer, then its sublayers, unless hidden.
RECURSIVE PaintOrder(_, _)
PaintOrder(u, l) ==
    IF has(u, l, "hidden") THEN <<>>
    ELSE <<l>> \o FlattenSeq([i \in DOMAIN u.lsubs[l] |-> PaintOrder(u, u.lsubs[l][i])])

\* recomposite_if_necessary paints the windows from back to front.
Painted(u) == FlattenSeq([i \in DOMAIN u.windows |-> PaintOrder(u, u.windows[i])])

\* find_fullscreen_eagl_layer: down the last sublayers of the top window.
RECURSIVE TopLayer(_, _)
TopLayer(u, l) ==
    IF \E f \in {"small", "hidden", "translucent"} : has(u, l, f) THEN nil
    ELSE IF u.lsubs[l] = <<>> THEN l ELSE TopLayer(u, Last(u.lsubs[l]))

FindFullscreenEaglLayer(u) ==
    LET shown == SelectSeq(u.windows, LAMBDA w : ~has(u, w, "hidden"))
        top == IF shown = <<>> THEN nil ELSE TopLayer(u, Last(shown))
    IN  IF top \in EaglViews THEN top ELSE nil

-----------------------------------------------------------------------------
(* What the app does.                                                      *)

\* A change the app may make; a panic ends the program.
Change(u) == ~ui.panic /\ ui' = u

Create ==
    \E v \in Views :
        /\ ui.refs[v] = 0 /\ ui.lrefs[v] = 0 /\ owned[v] = 0
        /\ Change(NewView(ui, v))
        /\ owned' = [owned EXCEPT ![v] = 1] /\ UNCHANGED kept

\* The app releases a view it holds.
Drop ==
    \E v \in Views :
        /\ owned[v] > 0
        /\ Change(ReleaseView(ui, v))
        /\ owned' = [owned EXCEPT ![v] = @ - 1] /\ UNCHANGED kept

\* A window is the root of its tree, and no view goes into itself.
Place ==
    \E p \in Views, v \in Views \ Windows :
        /\ alive(ui, p) /\ owned[v] > 0 /\ p # v /\ v \notin ancestors(ui, p)
        /\ \/ Change(AddSubview(ui, p, v))
           \/ \E i \in 0 .. Len(without(ui.subs[p], v)) : Change(InsertSubviewAt(ui, p, v, i))
           \/ \E s \in Range(ui.subs[p]) \ {v} : Change(InsertSubviewBelow(ui, p, v, s))
        /\ UNCHANGED <<owned, kept>>

Reorder ==
    \E p \in Views :
        /\ alive(ui, p)
        /\ \E v \in Range(ui.subs[p]) :
             Change(BringSubviewToFront(ui, p, v)) \/ Change(SendSubviewToBack(ui, p, v))
        /\ UNCHANGED <<owned, kept>>

TakeOut ==
    \E v \in Views : alive(ui, v) /\ ui.sup[v] # nil /\ Change(RemoveFromSuperview(ui, v))
                     /\ UNCHANGED <<owned, kept>>

SetFlag ==
    \E v \in Views, f \in Flags :
        /\ alive(ui, v)
        /\ \/ has(ui, v, f) /\ Change([ui EXCEPT !.flags = @ \ {<<v, f>>}])
           \/ /\ ~has(ui, v, f) /\ Cardinality(ui.flags) < MaxFlags
              /\ Change([ui EXCEPT !.flags = @ \cup {<<v, f>>}])
        /\ UNCHANGED <<owned, kept>>

Show == \E w \in Windows : alive(ui, w) /\ Change(MakeKeyAndVisible(ui, w)) /\ UNCHANGED <<owned, kept>>

\* The app keeps a layer beyond its view, or lets go of it.
KeepLayer ==
    \E v \in Views \ kept : /\ alive(ui, v) /\ kept = {} /\ Change([ui EXCEPT !.lrefs[v] = @ + 1])
                            /\ kept' = kept \cup {v} /\ UNCHANGED owned
DropLayer ==
    \E v \in kept : Change(LayerRelease(ui, v)) /\ kept' = kept \ {v} /\ UNCHANGED owned

CreateController ==
    \E c \in Controllers :
        /\ ui.crefs[c] = 0 /\ Change([ui EXCEPT !.crefs[c] = 1])
        /\ owned' = [owned EXCEPT ![c] = 1] /\ UNCHANGED kept

GiveView ==
    \E c \in Controllers, v \in Views \ Windows :
        /\ ui.crefs[c] > 0 /\ owned[v] > 0 /\ ui.vc[v] = nil
        /\ Change(SetView(ui, c, v)) /\ UNCHANGED <<owned, kept>>

TakeView ==
    \E c \in Controllers :
        /\ ui.crefs[c] > 0 /\ ui.cview[c] # nil
        /\ Change(SetView(ui, c, nil)) /\ UNCHANGED <<owned, kept>>

DropController ==
    \E c \in Controllers :
        /\ owned[c] > 0
        /\ "controller_last" \in UiCareful => ui.cview[c] = nil
        /\ Change(ControllerRelease(ui, c))
        /\ owned' = [owned EXCEPT ![c] = @ - 1] /\ UNCHANGED kept

ViewsNext ==
    \/ Create \/ Drop \/ Place \/ Reorder \/ TakeOut \/ SetFlag \/ Show
    \/ KeepLayer \/ DropLayer
    \/ CreateController \/ GiveView \/ TakeView \/ DropController

-----------------------------------------------------------------------------
(* Properties                                                              *)

\* The tree that is painted is the tree that is touched: for every live view,
\* its layer has the layers of its subviews, in the same order, and nothing
\* else; only in what the app itself kept of a view that is gone may they differ.
\* A view is retained once by its superview, once by its controller and as
\* often as the app holds it.
TreesAgree ==
    \A v \in Views : alive(ui, v) =>
        /\ ui.lrefs[v] > 0 /\ ui.lsubs[v] = ui.subs[v]
        /\ \/ ui.lsup[v] = ui.sup[v]
           \/ ui.sup[v] = nil /\ kept # {} /\ ~alive(ui, ui.lsup[v])
        /\ ui.refs[v] = owned[v] + (IF ui.sup[v] # nil THEN 1 ELSE 0)
                          + Cardinality({c \in Controllers : ui.cview[c] = v})

\* hitTest finds what the user sees: provided the window that is asked is
\* visible, the view that gets a touch is, of all views that may be touched
\* there (nothing from the view up to its window is hidden, disabled or too
\* small), the one painted last.
HitIsOnTop ==
    LET w == TouchedWindow(ui)
        h == HitTest(ui, w)
        order == PaintOrder(ui, w)
        within(v) == {v} \cup ancestors(ui, v)
        touchable(v) == /\ w \in within(v) /\ \A x \in within(v) : ~has(ui, x, "small")
                        /\ \A x \in within(v) \ {w} : ~has(ui, x, "hidden") /\ ~has(ui, x, "inert")
    IN  w # nil /\ ~has(ui, w, "hidden") /\ kept = {} =>
          /\ h \in Range(order) /\ touchable(h)
          /\ \A v \in Range(order) : touchable(v) => positionOf(order, v) <= positionOf(order, h)

\* The fast path presents the app's frame directly only when composition would
\* show nothing else: nothing is painted after the layer that was found, and
\* nothing on the way to it makes it see-through.
FastPathIsWholeScreen ==
    LET e == FindFullscreenEaglLayer(ui)
    IN  e # nil => /\ Last(Painted(ui)) = e
                   /\ \A x \in {e} \cup ancestors(ui, e) : ~has(ui, x, "translucent")

\* What is painted, what is touched and what the fast path shows are one tree.
ViewsAgree == TreesAgree /\ HitIsOnTop /\ FastPathIsWholeScreen
====
