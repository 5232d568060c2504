---- MODULE Picker ----
(***************************************************************************)
(* The app picker (app_picker.rs).  Its buttons and switches send their    *)
(* actions to a delegate, which only sets a flag for each; the picker's    *)
(* loop runs one iteration of the run loop, in which any number of touches *)
(* may end, and then deals with the first flag that is set, in a fixed     *)
(* order, leaving the others for later iterations.                         *)
(*                                                                         *)
(* A control is a pair of a name and a number: an icon of the grid, a      *)
(* button of a row of quick options, or a single button.  The copyright    *)
(* text is a sequence of lines, of which only blank, heading, divider and  *)
(* long ones are told apart.                                               *)
(***************************************************************************)
EXTENDS Integers, Sequences, FiniteSets, SequencesExt, FiniteSetsExt

CONSTANTS
    Fingers,       \* the fingers that may be on the screen
    Slots,         \* the icons of the grid (4 * 4 in the code)
    AppCounts,     \* the numbers of apps there may be
    Rows,          \* the rows of quick option buttons, in their order: <<name, choices>>
    Switches,      \* the quick option switches, in the order the loop looks at them
    OnAtFirst,     \* those that are on when the picker starts
    Texts,         \* the copyright texts there may be
    PageHeight,    \* the height of a page of it, in lines
    PickerCareful  \* "taps": a finger does one thing in an iteration of the loop

ASSUME SlotsAssumption == Slots \in Nat /\ Slots > 2

VARIABLES
    apps,      \* how many apps were found
    lines,     \* the copyright text
    finger,    \* the control each finger is on
    acted,     \* the fingers that moved in this iteration
    flags,     \* AppPickerDelegateHostObject: what was tapped and not dealt with
    icon,      \* its icon_tapped, 0 for nil
    isOn,      \* what the switches show
    option,    \* quick_options_*: what the loop has taken note of
    lit,       \* the button that is shown as chosen in each row
    grid,      \* IconGridStuff: the page shown and icon_map
    panels,    \* the views over the grid that are not hidden
    info,      \* CopyrightInfoStuff and copyright_info_page_idx
    ended,     \* "none", "picked", "exit" (the file manager was opened) or "panic"
    picked,    \* the app picked, the options added, and the choices that may hold for it
    wanted,    \* the choices that may hold: the last ones made before this iteration
    fired      \* the choices made in this iteration

pickVars == <<apps, lines, finger, acted, flags, icon, isOn, option, lit, grid, panels,
              info, ended, picked, wanted, fired>>

Nothing == <<"none", 0>>

RowNames == {Rows[i][1] : i \in DOMAIN Rows}
OptionNames == RowNames \cup Range(Switches)
Panels == {"copyright", "options"}

---------------------------------------------------------------------------
(* The grid of icons.                                                      *)

\* The apps on the page that starts with app start, of n: a page other than
\* the first one has a button to go back, one other than the last has one to
\* go on.
RangeFrom(start, n) ==
    LET room == start + Slots - (IF start > 0 THEN 1 ELSE 0)
    IN [start |-> start, end |-> IF room < n THEN room - 1 ELSE n]

\* The pages for n apps.
PagesFor(n) ==
    LET pages[start \in 0..n] ==
            IF start = n THEN <<>>
            ELSE <<RangeFrom(start, n)>> \o pages[RangeFrom(start, n).end]
    IN pages[0]

\* What the icons of page p stand for, in the order they are laid out.
Entries(p, n) ==
    LET range == PagesFor(n)[p]
    IN (IF p # 1 THEN <<<<"page", p - 1>>>> ELSE <<>>)
         \o [i \in 1..(range.end - range.start) |-> <<"app", range.start + i - 1>>]
         \o (IF range.end # n THEN <<<<"page", p + 1>>>> ELSE <<>>)

\* Shows page p: icon_map gets an entry for every icon that is used.
UpdateIconGrid(p) ==
    IF Len(Entries(p, apps)) > Slots
    THEN ended' = "panic" /\ UNCHANGED grid
    ELSE grid' = [page |-> p, map |-> Entries(p, apps)] /\ UNCHANGED ended

---------------------------------------------------------------------------
(* The copyright text.                                                     *)

LineHeight(kind) == IF kind = "long" THEN 2 ELSE 1

HeightOf(t, from, to) == FoldLeft(LAMBDA h, kind : h + LineHeight(kind), 0, SubSeq(t, from, to))

\* The first line at or after line from that is not blank.
PageStart(t, from) == Min({l \in from..(Len(t) + 1) : l = Len(t) + 1 \/ t[l] # "blank"})

\* The first line after the page that starts at line start: a heading starts
\* a page, a divider ends one, and a page has room for PageHeight.
PageEnd(t, start) ==
    Min({l \in start..(Len(t) + 1) :
           \/ l = Len(t) + 1
           \/ l # start /\ t[l] = "heading"
           \/ HeightOf(t, start, l) > PageHeight
           \/ l - 1 > start /\ t[l - 1] = "divider"})

\* Lays out the page after the ones in pages.
NewPage(pages) ==
    LET start == PageStart(lines, IF pages = <<>> THEN 1 ELSE Last(pages).end)
    IN [start |-> start, end |-> PageEnd(lines, start)]

\* Shows page idx of the text, laying it out when it is a new one.
ChangeCopyrightPage(idx) ==
    LET page == NewPage(info.pages)
    IN IF idx <= Len(info.pages)
       THEN info' = [info EXCEPT !.idx = idx] /\ UNCHANGED ended
       ELSE IF page.start = page.end
       THEN ended' = "panic" /\ UNCHANGED info
       ELSE /\ info' = [pages |-> Append(info.pages, page), idx |-> idx,
                        last |-> IF page.end = Len(lines) + 1 THEN idx ELSE info.last]
            /\ UNCHANGED ended

---------------------------------------------------------------------------
(* The controls and the delegate.                                          *)

Show(p) == <<p, 1>>
Hide(p) == <<p, 0>>
PrevPage == <<"copyright_prev", 0>>
NextPage == <<"copyright_next", 0>>
FileManager == <<"file_manager", 0>>
RowButtons(i) == [v \in 1..Rows[i][2] |-> <<Rows[i][1], v - 1>>]

\* The controls a finger can reach: a panel covers the grid, and the quick
\* options cover the copyright text; the buttons that turn its pages are
\* hidden at its ends.
Reachable ==
    CASE "options" \in panels ->
            {Hide("options")} \cup UNION {Range(RowButtons(i)) : i \in DOMAIN Rows}
              \cup {<<s, 0>> : s \in Range(Switches)}
      [] "options" \notin panels /\ "copyright" \in panels ->
            {Hide("copyright")} \cup (IF info.idx # 1 THEN {PrevPage} ELSE {})
              \cup (IF info.idx # info.last THEN {NextPage} ELSE {})
      [] OTHER ->
            {Show(p) : p \in Panels} \cup {FileManager}
              \cup (IF apps = 0 THEN {} ELSE {<<"icon", s>> : s \in 1..Slots})

Ready(f) == ended = "none" /\ ("taps" \in PickerCareful => f \notin acted)

\* A finger goes down on a control.
TouchDown(f) ==
    /\ Ready(f) /\ finger[f] = Nothing
    /\ \E c \in Reachable : finger' = [finger EXCEPT ![f] = c]
    /\ acted' = acted \cup {f}
    /\ UNCHANGED <<apps, lines, flags, icon, isOn, option, lit, grid, panels, info,
                   ended, picked, wanted, fired>>

Lift(f) == finger' = [finger EXCEPT ![f] = Nothing] /\ acted' = acted \cup {f}

\* A finger leaves the control it was on and is lifted: nothing is sent.
LiftOutside(f) ==
    /\ Ready(f) /\ finger[f] # Nothing
    /\ Lift(f)
    /\ UNCHANGED <<apps, lines, flags, icon, isOn, option, lit, grid, panels, info,
                   ended, picked, wanted, fired>>

\* iconTapped: the icon tapped last is kept.
IconTapped(f) ==
    /\ Ready(f) /\ finger[f][1] = "icon"
    /\ Lift(f)
    /\ icon' = finger[f][2]
    /\ UNCHANGED <<apps, lines, flags, isOn, option, lit, grid, panels, info,
                   ended, picked, wanted, fired>>

\* A button is tapped: its method sets its flag.
ButtonTapped(f) ==
    /\ Ready(f) /\ finger[f] \notin {Nothing, FileManager}
    /\ finger[f][1] # "icon" /\ finger[f][1] \notin Range(Switches)
    /\ Lift(f)
    /\ flags' = flags \cup {finger[f]}
    /\ fired' = IF finger[f][1] \in RowNames THEN fired \cup {finger[f]} ELSE fired
    /\ UNCHANGED <<apps, lines, icon, isOn, option, lit, grid, panels, info,
                   ended, picked, wanted>>

\* A switch is tapped: it changes, and the delegate keeps its new state.
SwitchTapped(f) ==
    LET s == finger[f][1]
        value == 1 - isOn[s]
    IN /\ Ready(f) /\ s \in Range(Switches)
       /\ Lift(f)
       /\ isOn' = [isOn EXCEPT ![s] = value]
       /\ flags' = (flags \ {<<s, 0>>, <<s, 1>>}) \cup {<<s, value>>}
       /\ fired' = (fired \ {<<s, 0>>, <<s, 1>>}) \cup {<<s, value>>}
       /\ UNCHANGED <<apps, lines, icon, option, lit, grid, panels, info,
                      ended, picked, wanted>>

\* openFileManager: the process exits, unless the folder could not be opened.
OpenFileManager(f) ==
    /\ Ready(f) /\ finger[f] = FileManager
    /\ Lift(f)
    /\ ended' \in {"exit", ended}
    /\ UNCHANGED <<apps, lines, flags, icon, isOn, option, lit, grid, panels, info,
                   picked, wanted, fired>>

---------------------------------------------------------------------------
(* The loop.                                                               *)

\* The flags in the order the loop looks at them.
Order ==
    <<Show("copyright"), Hide("copyright"), PrevPage, NextPage, Show("options"), Hide("options")>>
      \o FlattenSeq([i \in DOMAIN Rows |-> RowButtons(i)])
      \o FlattenSeq([i \in DOMAIN Switches |-> <<<<Switches[i], 0>>, <<Switches[i], 1>>>>])

\* A page button is passed over at the ends of the text, though its flag is taken.
Effective(c) == (c = PrevPage => info.idx # 1) /\ (c = NextPage => info.idx # info.last)

Tapped == {i \in DOMAIN Order : Order[i] \in flags}
Handled == {i \in Tapped : Effective(Order[i])}

FiredFor(c) == {x[2] : x \in {y \in fired : y[1] = c}}

\* The iteration ends: what was chosen in it is what is wanted from now on.
EndIteration ==
    /\ acted' = {} /\ fired' = {}
    /\ wanted' = [c \in OptionNames |->
                    IF FiredFor(c) # {} THEN FiredFor(c) ELSE wanted[c]]
    /\ UNCHANGED <<apps, lines, finger, isOn>>

\* The options that are added to the ones of the command line: a row's button
\* other than the first one, and a switch that is not in its first state.
Overrides ==
    {<<r, option[r]>> : r \in {x \in RowNames : option[x] # 0}}
      \cup {<<s, option[s]>> : s \in {x \in Range(Switches) : (option[x] = 1) # (x \in OnAtFirst)}}

\* An icon was tapped: an app is picked, another page is shown, or nothing
\* happens when the icon is not used.  All other flags wait.
HandleIcon ==
    /\ ended = "none" /\ icon # 0
    /\ icon' = 0
    /\ EndIteration
    /\ IF icon > Len(grid.map)
       THEN UNCHANGED <<ended, picked, grid>>
       ELSE IF grid.map[icon][1] = "app"
       THEN /\ ended' = "picked"
            /\ picked' = [app |-> grid.map[icon][2], overrides |-> Overrides,
                          may |-> [c \in OptionNames |-> wanted[c] \cup FiredFor(c)]]
            /\ UNCHANGED grid
       ELSE UpdateIconGrid(grid.map[icon][2]) /\ UNCHANGED picked
    /\ UNCHANGED <<flags, option, lit, panels, info>>

\* What the loop does for control c.
Do(c) ==
    CASE c = Show("copyright") ->
            /\ ChangeCopyrightPage(1)
            /\ panels' = panels \cup {"copyright"}
            /\ UNCHANGED <<option, lit>>
      [] c \in {PrevPage, NextPage} ->
            /\ ChangeCopyrightPage(IF c = PrevPage THEN info.idx - 1 ELSE info.idx + 1)
            /\ UNCHANGED <<option, lit, panels>>
      [] c = Show("options") ->
            panels' = panels \cup {"options"} /\ UNCHANGED <<option, lit, info, ended>>
      [] c \in {Hide(p) : p \in Panels} ->
            /\ panels' = panels \ {p \in Panels : c = Hide(p)}
            /\ UNCHANGED <<option, lit, info, ended>>
      [] c[1] \in RowNames ->
            /\ option' = [option EXCEPT ![c[1]] = c[2]]
            /\ lit' = [lit EXCEPT ![c[1]] = c[2]]
            /\ UNCHANGED <<panels, info, ended>>
      [] c[1] \in Range(Switches) ->
            option' = [option EXCEPT ![c[1]] = c[2]] /\ UNCHANGED <<lit, panels, info, ended>>

\* One pass of the loop without an icon: the first flag that counts is dealt
\* with, and the flags before it are taken.
HandleFlag ==
    /\ ended = "none" /\ icon = 0
    /\ flags' = IF Handled = {} THEN flags \ {PrevPage, NextPage}
                ELSE {c \in flags : \E i \in Tapped : Order[i] = c /\ i > Min(Handled)}
    /\ EndIteration
    /\ IF Handled = {} THEN UNCHANGED <<option, lit, panels, info, ended>>
       ELSE Do(Order[Min(Handled)])
    /\ UNCHANGED <<icon, grid, picked>>

---------------------------------------------------------------------------

\* The apps have been found (or none were, and a message is shown in place of
\* the grid), the views are made and the first page is shown.
PickerInit ==
    /\ apps \in AppCounts /\ lines \in Texts
    /\ finger = [f \in Fingers |-> Nothing] /\ acted = {}
    /\ flags = {} /\ icon = 0
    /\ isOn = [s \in Range(Switches) |-> IF s \in OnAtFirst THEN 1 ELSE 0]
    /\ option = [c \in OptionNames |-> IF c \in OnAtFirst THEN 1 ELSE 0]
    /\ lit = [r \in RowNames |-> 0]
    /\ grid = [page |-> 1, map |-> IF apps = 0 THEN <<>> ELSE Entries(1, apps)]
    /\ panels = {}
    /\ info = [pages |-> <<>>, idx |-> 1, last |-> 0]
    /\ ended = "none"
    /\ picked = [app |-> 0, overrides |-> {}, may |-> <<>>]
    /\ wanted = [c \in OptionNames |-> {option[c]}] /\ fired = {}

PickerNext ==
    \/ \E f \in Fingers :
          \/ TouchDown(f) \/ LiftOutside(f) \/ IconTapped(f) \/ ButtonTapped(f)
          \/ SwitchTapped(f) \/ OpenFileManager(f)
    \/ HandleIcon \/ HandleFlag

---------------------------------------------------------------------------

\* The app starts with the options last chosen, although the loop deals with
\* one tap at a time and with the icons first (app_picker.rs, the loop of
\* show_app_picker_gui): no choice made before the tap on its icon is lost
\* when two fingers work the picker at once.
ChoicesReachApp ==
    ended = "picked" =>
        \A c \in OptionNames :
            \E v \in picked.may[c] :
               \/ <<c, v>> \in picked.overrides
               \/ /\ \A x \in picked.overrides : x[1] # c
                  /\ v = (IF c \in OnAtFirst THEN 1 ELSE 0)

\* Every app is on exactly one page of the grid, every page and its buttons
\* fit in the grid, and the buttons lead to the pages next to it
\* (make_icon_grid and update_icon_grid); turning the pages of the grid or of
\* the copyright text never fails, and the copyright pages shown so far hold
\* every line before the end of the last one but blank ones between pages,
\* each page within its height (change_copyright_page).
PagesComplete ==
    /\ ended # "panic"
    /\ \A a \in 0..(apps - 1) :
          Cardinality({p \in DOMAIN PagesFor(apps) :
                         \E i \in DOMAIN Entries(p, apps) : Entries(p, apps)[i] = <<"app", a>>}) = 1
    /\ \A p \in DOMAIN PagesFor(apps) :
          /\ Len(Entries(p, apps)) <= Slots
          /\ \A q \in {p - 1, p + 1} \cap DOMAIN PagesFor(apps) :
                <<"page", q>> \in Range(Entries(p, apps))
    /\ \A l \in 1..Len(lines) :
          LET on == {p \in DOMAIN info.pages : info.pages[p].start <= l /\ l < info.pages[p].end}
          IN IF info.pages = <<>> \/ l >= Last(info.pages).end THEN on = {}
             ELSE Cardinality(on) = 1 \/ (on = {} /\ lines[l] = "blank")
    /\ \A p \in DOMAIN info.pages :
          LET page == info.pages[p]
          IN /\ HeightOf(lines, page.start, page.end - 1) <= PageHeight
             /\ \A l \in (page.start + 1)..(page.end - 1) :
                   lines[l] # "heading" /\ (lines[l] = "divider" => l = page.end - 1)
    /\ info.last # 0 => info.last = Len(info.pages)

\* The picker shows every app and every page, and starts what the user chose.
PickerFollowsUser == ChoicesReachApp /\ PagesComplete
====
