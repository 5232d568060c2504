---- MODULE MCSystem ----
(***************************************************************************)
(* How touchHLE starts, its app picker and the controls of the picker and  *)
(* of apps, how a program is loaded, linked and called, and its network,   *)
(* for TLC: a behaviour is about one part.                                 *)
(***************************************************************************)
EXTENDS Dyld, Classes, Sockets, MachO, Abi, Launch, Picker, Controls, TextFields, Nib

CONSTANT Parts
VARIABLE part

\* Two stubs of one symbol, one of another.
SomeStubs == <<"a", "b", "a">>

\* A host class hierarchy of two, and an app with four classes, one of them
\* with a name for which the host has a fake class.
SomeHostClasses == [NSObject |-> "-", View |-> "NSObject"]
SomeHostMethods == [NSObject |-> {}, View |-> {"m"}]
SomeAppClasses == <<"Ad", "A", "B", "C">>

\* Arguments, command lines and options files: settings given twice, values
\* that cannot be read, lines for another app and lines without a colon.
SomeArgs ==
    {<<"path", 0>>, <<"scale", 2>>, <<"scale", 0>>, <<"fullscreen", 1>>, <<"headless", 1>>,
     <<"dump", 1>>, <<"info", 0>>, <<"help", 0>>, <<"args", 0>>, <<"unknown", 0>>}
SomeCommandLines ==
    {<<>>} \cup {<<x>> : x \in SomeArgs} \cup {<<x, y>> : x, y \in SomeArgs}
      \cup {<<<<"path", 0>>, <<"scale", 2>>, <<"scale", 3>>>>}
SomePickerArgs == {<<>>, <<<<"scale", 3>>, <<"fullscreen", 1>>>>}
Mine(given) == [id |-> "app", args |-> given]
SomeFiles ==
    {<<NoFile>>, <<Mine(<<<<"scale", 4>>>>)>>, <<Mine(<<<<"fullscreen", 1>>, <<"scale", 0>>>>)>>,
     <<[id |-> "other", args |-> <<<<"scale", 5>>>>], Mine(<<<<"headless", 1>>>>)>>,
     <<[id |-> "malformed", args |-> <<>>], Mine(<<<<"scale", 4>>>>)>>}

\* The app names some of three libraries, which name each other.
SomeGraphs ==
    {[b \in 0..3 |-> IF b = 0 THEN d0 ELSE IF b = 1 THEN d1 ELSE IF b = 2 THEN d2 ELSE d3] :
        d0 \in SUBSET (1..3), d1 \in SUBSET {2, 3}, d2 \in SUBSET {1, 3}, d3 \in SUBSET {1, 2}}

SomeRows == <<<<"scale", 2>>, <<"orientation", 2>>>>
SomeSwitches == <<"network">>
SomeTexts ==
    {<<"text">>, <<"blank", "text", "heading", "text">>,
     <<"text", "divider", "blank", "blank", "text">>,
     <<"text", "long", "text", "text", "text">>, <<"divider", "text", "divider", "heading">>}

\* Nib files with the owner's proxy, a label, two objects that may refer to
\* each other and to the owner, and outlets and events between them.
Item(c, of) == [class |-> c, refs |-> of]
Connections == {Item(c, <<to, 2, from>>) : c \in {"outlet", "event"}, to \in {1, 3, 4}, from \in {1, 3, 4}}
SomeItems ==
    {<<Item("proxy", <<>>), Item("string", <<>>), x, Item("view", of), c>> :
        x \in {Item("view", <<>>), Item("view", <<0, 1>>), Item("custom", <<1>>), Item("nameless", <<>>)},
        of \in {<<>>} \cup ({1, 3} \X {1, 2, 3}) \cup {<<99>>}, c \in Connections}
NibFile(f, items, more) ==
    [format |-> f, items |-> items \o more, objects |-> Len(items \o more) - 1,
     connections |-> Len(items \o more) - 2, visible |-> Len(items \o more), top |-> Len(items \o more) - 1]
SomeNibs ==
    {NibFile("keyed", i, <<Item("array", <<5>>), Item("array", <<1, 3, 4>>), Item("array", <<4>>)>>) : i \in SomeItems}
      \cup {NibFile("nib", i, <<c, Item("array", <<5, 6>>), Item("array", <<1, 3, 4>>), Item("array", <<4, 3>>)>>) :
               i \in SomeItems, c \in {Item("outlet", <<4, 2, 1>>)}}

OneNib == NibFile("keyed", <<>>, <<Item("array", <<>>), Item("array", <<>>), Item("array", <<>>)>>)

coreVars == <<dyldVars, classVars, sockVars, machVars, abiVars>>
appVars == <<launchVars, pickVars, controlVars, textVars, nibVars>>
systemVars == <<coreVars, appVars, part>>

Init ==
    /\ part \in Parts
    /\ DyldInit /\ (part = "linker" \/ <<hostExports, binExports, entrySize>> = <<{}, {}, 4>>)
    \* A category that adds nothing is given to one class.
    /\ IF part = "classes" THEN ClassesInit /\ (app.adds # {} \/ app.target = "A")
                           ELSE app = <<>> /\ stage = "none" /\ rt = <<>>
    /\ SocketsInit
    /\ MachOInit /\ (part = "loader" \/ slices = <<>>)
    /\ AbiInit
    /\ part # "options" => cmdline = <<<<"path", 0>>>> /\ files = [f \in {"default file", "user file"} |-> <<NoFile>>]
    /\ part # "order" => deps = [b \in 0..3 |-> IF b = 0 THEN 1..3 ELSE {}]
    /\ LaunchInit
    /\ part # "pages" => lines = <<"text">> /\ apps \in {0, 1} /\ (part = "picker" \/ apps = 1)
    \* The numbers of apps and the texts are independent: one varies at a time.
    /\ part = "pages" => apps = 1 \/ lines = <<"text">>
    /\ PickerInit
    /\ part # "controls" => kind = "button"
    /\ ControlInit
    /\ TextInit
    /\ IF part = "nib" THEN NibInit ELSE nib = OneNib /\ owner = "application" /\ Unarchiver

Next ==
    /\ UNCHANGED part
    /\ \/ /\ UNCHANGED appVars
          /\ \/ part = "linker" /\ DyldNext /\ UNCHANGED <<classVars, sockVars, machVars, abiVars>>
             \/ part = "classes" /\ ClassesNext /\ UNCHANGED <<dyldVars, sockVars, machVars, abiVars>>
             \/ part = "sockets" /\ SocketsNext /\ UNCHANGED <<dyldVars, classVars, machVars, abiVars>>
             \/ part = "loader" /\ MachONext /\ UNCHANGED <<dyldVars, classVars, sockVars, abiVars>>
             \/ part = "calls" /\ AbiNext /\ UNCHANGED <<dyldVars, classVars, sockVars, machVars>>
       \/ /\ UNCHANGED coreVars
          /\ \/ part \in {"options", "order"} /\ LaunchNext /\ UNCHANGED <<pickVars, controlVars, textVars, nibVars>>
             \/ part \in {"picker", "pages"} /\ PickerNext /\ UNCHANGED <<launchVars, controlVars, textVars, nibVars>>
                   /\ (part = "pages" => panels' \subseteq {"copyright"})
             \/ part = "controls" /\ ControlNext /\ UNCHANGED <<launchVars, pickVars, textVars, nibVars>>
             \/ part = "text" /\ TextNext /\ UNCHANGED <<launchVars, pickVars, controlVars, nibVars>>
             \/ part = "nib" /\ NibNext /\ UNCHANGED <<launchVars, pickVars, controlVars, textVars>>

\* The app that is started is the one the user chose, with the options that
\* were asked for: the picker does what is touched (Picker) and the start-up
\* follows the command line, the files and the picker (Launch).
StartsAsChosen == PickerFollowsUser /\ LaunchedAsAsked

Spec == Init /\ [][Next]_systemVars
====
