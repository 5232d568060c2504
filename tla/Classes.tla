---- MODULE Classes ----
(***************************************************************************)
(* The Objective-C runtime: selectors, classes and message sends.  While   *)
(* the app is linked, selectors are made unique, the classes it refers to  *)
(* are linked (from host templates, or as placeholders), its own classes   *)
(* are registered, their instance layouts reconciled with their            *)
(* superclasses' and its categories added; later, host code links further  *)
(* classes by name.                                                        *)
(*                                                                         *)
(* A class is identified by its name, by who defines it and by its level:  *)
(* every class comes with a metaclass.  A selector is the address of one   *)
(* of the copies of its name that are in memory: the binary's, referred to *)
(* by __objc_selrefs ("ref") and by method lists ("list"), or the host's.  *)
(***************************************************************************)
EXTENDS Integers, Sequences, FiniteSets, SequencesExt

CONSTANTS HostSuper,        \* host templates: name -> superclass name, or noName
          HostMethods,      \* host templates: name -> selector names
          AppClasses,       \* __objc_classlist: the names of the app's classes
          Missing,          \* a class nobody defines
          FakeNames,        \* app classes that are substituted
          SelNames, noName

ASSUME ClassesAssumption ==
    /\ DOMAIN HostMethods = DOMAIN HostSuper /\ "NSObject" \in DOMAIN HostSuper
    /\ HostSuper["NSObject"] = noName /\ FakeNames \subseteq Range(AppClasses)

HostNames == DOMAIN HostSuper
Names == HostNames \cup Range(AppClasses) \cup {Missing}
nilClass == [name |-> noName, from |-> "host", level |-> "class"]
classId(name, from) == [name |-> name, from |-> from, level |-> "class"]
metaOf(c) == [c EXCEPT !.level = "meta"]
atLevel(c, level) == IF c = nilClass THEN nilClass ELSE [c EXCEPT !.level = level]

VARIABLES app,      \* what the binary contains
          stage,    \* how far the linking is
          rt        \* the runtime: classes by name, their host objects, selectors, selrefs

classVars == <<app, stage, rt>>

\* Host objects: ClassHostObject, UnimplementedClass or FakeClass.
object(kind, super, methods, start, size) ==
    [kind |-> kind, super |-> super, methods |-> methods, start |-> start, size |-> size]

\* An app: the superclass of each of its classes (an earlier one of its own, or
\* an external one), the methods of each, a category, and the selectors it
\* refers to.  Of a class that is substituted only the name matters.
ClassesInit ==
    /\ app \in [super : {f \in [Range(AppClasses) -> Names] :
                           /\ \A i, j \in DOMAIN AppClasses : f[AppClasses[i]] = AppClasses[j] => j < i
                           /\ \A n \in FakeNames : f[n] = "NSObject"},
                methods : {f \in [Range(AppClasses) -> SUBSET SelNames] : \A n \in FakeNames : f[n] = {}},
                target : Range(AppClasses) \cup HostNames, adds : SUBSET SelNames, refs : SUBSET SelNames]
    /\ stage = "selectors"
    /\ rt = [classes |-> [n \in Names |-> nilClass], objects |-> <<>>,
             selectors |-> [s \in SelNames |-> noName], selrefs |-> [s \in app.refs |-> "ref"]]

-----------------------------------------------------------------------------
(* Selectors                                                               *)

\* register_bin_selector and register_host_selector (and sel_registerName by
\* it): the first copy wins.
Register(r, s, copy) == IF r.selectors[s] # noName THEN r ELSE [r EXCEPT !.selectors[s] = copy]
Registered(r, names, copy) == FoldSet(LAMBDA s, x : Register(x, s, copy), r, names)

\* register_bin_selectors points every reference to the one selector.
RegisterBinSelectors ==
    LET r == Registered(rt, app.refs, "ref")
    IN  /\ stage = "selectors" /\ stage' = "host_selectors"
        /\ rt' = [r EXCEPT !.selrefs = [s \in app.refs |-> r.selectors[s]]]
        /\ UNCHANGED app

RegisterHostSelectors ==
    /\ stage = "host_selectors" /\ stage' = "relocations"
    /\ rt' = Registered(rt, UNION {HostMethods[n] : n \in HostNames}, "host")
    /\ UNCHANGED app

-----------------------------------------------------------------------------
(* Classes                                                                 *)

\* add_methods_from_bin: a method replaces one of the same selector.
Keyed(r, names, by) == {<<s, r.selectors[s], by>> : s \in names}
AddMethods(methods, new) == {m \in methods : \A k \in new : k[2] # m[2] \/ k[1] # m[1]} \cup new

\* A plausible slip: NSObject's metaclass is left without a superclass.
RECURSIVE LinkClassRootless(_, _)
LinkClassRootless(r, name) ==
    IF r.classes[name] # nilClass THEN r
    ELSE LET c == classId(name, "host")
             sup == IF name \in HostNames /\ HostSuper[name] # noName THEN HostSuper[name] ELSE noName
             r2 == IF sup = noName THEN r ELSE LinkClassRootless(r, sup)
             r3 == IF name = "NSObject" THEN r2 ELSE LinkClassRootless(r2, "NSObject")
             super == IF sup = noName THEN nilClass ELSE r3.classes[sup]
             made == IF name \in HostNames
                     THEN (c :> object("normal", super, Keyed(r3, HostMethods[name], name), 4, 4))
                            @@ (metaOf(c) :> object("normal", atLevel(super, "meta"), {}, 4, 4))
                     ELSE (c :> object("unimplemented", nilClass, {}, 4, 4))
                            @@ (metaOf(c) :> object("unimplemented", nilClass, {}, 4, 4))
         IN  [r3 EXCEPT !.objects = made @@ @, !.classes[name] = c]

\* link_class: the class by that name, if there is one; else from a template,
\* with its superclass; else a placeholder.  The class and its metaclass are
\* made together, once NSObject's are there.
RECURSIVE LinkClass(_, _)
LinkClass(r, name) ==
    IF r.classes[name] # nilClass THEN r
    ELSE LET c == classId(name, "host")
             sup == IF name \in HostNames /\ HostSuper[name] # noName THEN HostSuper[name] ELSE noName
             r2 == IF sup = noName THEN r ELSE LinkClass(r, sup)
             r3 == IF name = "NSObject" THEN r2 ELSE LinkClass(r2, "NSObject")
             super == IF sup = noName THEN nilClass ELSE r3.classes[sup]
             made == IF name \in HostNames
                     THEN (c :> object("normal", super, Keyed(r3, HostMethods[name], name), 4, 4))
                            @@ (metaOf(c) :> object("normal", IF name = "NSObject" THEN c
                                                              ELSE atLevel(super, "meta"), {}, 4, 4))
                     ELSE (c :> object("unimplemented", nilClass, {}, 4, 4))
                            @@ (metaOf(c) :> object("unimplemented", nilClass, {}, 4, 4))
         IN  [r3 EXCEPT !.objects = made @@ @, !.classes[name] = c]

\* do_non_lazy_linking: the relocations name the external superclasses and the
\* class a category is for, and other classes the app uses.
External == {app.super[n] : n \in Range(AppClasses)} \cup {app.target, "NSObject"}
LinkRelocations ==
    /\ stage = "relocations" /\ stage' = "classes"
    /\ rt' = FoldSet(LAMBDA n, r : LinkClass(r, n), rt, External \ Range(AppClasses))
    /\ UNCHANGED app

\* The superclass pointer the linked binary holds.
SuperOf(r, n) == IF app.super[n] \in Range(AppClasses) THEN classId(app.super[n], "app") ELSE r.classes[app.super[n]]

\* register_bin_classes, first pass: from_bin or substitute_classes.  A class of
\* the app replaces one of the same name.  Each has a word of variables and was
\* compiled as if its superclass had none.
RegisterBinClass(r, n) ==
    LET c == classId(n, "app")
        named == Registered(r, app.methods[n], "list")
        super == SuperOf(r, n)
        kind == IF n \in FakeNames THEN "fake" ELSE "normal"
    IN  [named EXCEPT !.objects =
            (c :> object(kind, super, Keyed(named, app.methods[n], n), 4, 8))
              @@ (metaOf(c) :> object(kind, atLevel(super, "meta"), {}, 4, 4)) @@ @,
                      !.classes[n] = c]

\* Third pass, superclasses first: a class that begins within its superclass
\* moves on.  Only classes that are found by name, below a root, are visited.
Subclasses(r, c) == {r.classes[n] : n \in {x \in Names : /\ r.classes[x] # nilClass
                                                        /\ r.objects[r.classes[x]].kind = "normal"
                                                        /\ r.objects[r.classes[x]].super = c}}
MoveOn(r, c) ==
    LET super == r.objects[c].super
        end == IF super = nilClass \/ r.objects[super].kind # "normal" THEN 0 ELSE r.objects[super].size
        diff == IF r.objects[c].start < end THEN end - r.objects[c].start ELSE 0
    IN  [r EXCEPT !.objects[c].start = @ + diff, !.objects[c].size = @ + diff]

\* A plausible slip: a class is visited after its subclasses.
RECURSIVE ReconcileUpwards(_, _)
ReconcileUpwards(r, c) == MoveOn(FoldSet(LAMBDA k, x : ReconcileUpwards(x, k), r, Subclasses(r, c)), c)

RECURSIVE Reconcile(_, _)
Reconcile(r, c) == FoldSet(LAMBDA k, x : Reconcile(x, k), MoveOn(r, c), Subclasses(r, c))

RegisterBinClasses ==
    /\ stage = "classes" /\ stage' = "categories"
    /\ LET r == FoldLeft(RegisterBinClass, rt, AppClasses)
       IN  rt' = Reconcile(r, r.classes["NSObject"])
    /\ UNCHANGED app

\* register_bin_categories: nothing is added to a fake or a missing class.
RegisterBinCategories ==
    LET c == IF app.target \in Range(AppClasses) THEN classId(app.target, "app") ELSE rt.classes[app.target]
        named == Registered(rt, app.adds, "list")
    IN  /\ stage = "categories" /\ stage' = "running"
        /\ rt' = IF rt.objects[c].kind # "normal" THEN rt
                 ELSE [named EXCEPT !.objects[c].methods = AddMethods(@, Keyed(named, app.adds, "category"))]
        /\ UNCHANGED app

\* get_known_class, by host code.
GetKnownClass ==
    \E n \in HostNames \cup Range(AppClasses) :
        /\ stage = "running" /\ rt' = LinkClass(rt, n) /\ rt' # rt
        /\ UNCHANGED <<app, stage>>

ClassesNext ==
    \/ RegisterBinSelectors \/ RegisterHostSelectors \/ LinkRelocations
    \/ RegisterBinClasses \/ RegisterBinCategories \/ GetKnownClass

-----------------------------------------------------------------------------
(* Message sends                                                           *)

\* objc_msgSend_inner: up the superclasses; a message to a fake class is as if
\* sent to nil, one to a placeholder and one nobody implements panics.
RECURSIVE Lookup(_, _)
Lookup(c, sel) ==
    IF c = nilClass THEN "panic"
    ELSE LET o == rt.objects[c]
             found == {m \in o.methods : <<m[1], m[2]>> = sel}
         IN  CASE o.kind = "fake" -> "nil"
               [] o.kind = "unimplemented" -> "panic"
               [] o.kind = "normal" /\ found # {} -> (CHOOSE m \in found : TRUE)[3]
               [] OTHER -> Lookup(o.super, sel)

\* objc_msgSendSuper2: from the superclass of the class whose method sends it.
LookupSuper(c, sel) == IF rt.objects[c].kind # "normal" THEN Lookup(c, sel) ELSE Lookup(rt.objects[c].super, sel)

-----------------------------------------------------------------------------
(* Properties                                                              *)

\* The classes above c, itself first, by the names in the source.
RECURSIVE NamesAbove(_)
NamesAbove(n) ==
    IF n \in Range(AppClasses) THEN <<n>> \o NamesAbove(app.super[n])
    ELSE IF n \in HostNames /\ HostSuper[n] # noName THEN <<n>> \o NamesAbove(HostSuper[n])
    ELSE <<n>>

\* The implementation of selector s in the class by that name alone, categories
\* included.
Implementation(n, s) ==
    IF n = app.target /\ s \in app.adds THEN "category"
    ELSE IF s \in (IF n \in Range(AppClasses) THEN app.methods[n] ELSE IF n \in HostNames THEN HostMethods[n] ELSE {})
         THEN n ELSE noName

\* Whatever the order in which selectors and classes are registered and linked,
\* a message sent through one of the binary's selector references, or by the
\* selector's name, reaches the
\* implementation of the nearest class above the receiver that has one (a
\* category's before the class's own), a message to super that of the nearest
\* class above the one whose method sends it; that of a class the emulator fakes does
\* nothing, and one to a class nobody has panics; and a message to a class
\* object goes on to NSObject's instance methods.
MessagesFindMethods ==
    stage = "running" => \A n \in {x \in Range(AppClasses) \cup HostNames : rt.classes[x] # nilClass}, s \in SelNames :
        LET above == NamesAbove(n)
            stops == {i \in DOMAIN above : above[i] \in FakeNames \cup {Missing} \/ Implementation(above[i], s) # noName}
            reached(from) ==
                LET later == {i \in stops : i >= from}
                    first == above[Min(later)]
                IN  IF later = {} THEN "panic"
                    ELSE IF first \in FakeNames THEN "nil"
                    ELSE IF first = Missing THEN "panic" ELSE Implementation(first, s)
            c == rt.classes[n]
            sel == <<s, IF s \in app.refs THEN rt.selrefs[s] ELSE rt.selectors[s]>>
        IN  /\ Lookup(c, sel) = reached(1)
            /\ n \notin FakeNames => LookupSuper(c, sel) = reached(2)
            /\ Range(above) \cap (FakeNames \cup {Missing}) = {} =>
                 Lookup(metaOf(c), sel) = Lookup(rt.classes["NSObject"], sel)

\* Once the app's classes are registered no class begins within its superclass:
\* instances of a subclass never share memory between the variables of both.
LayoutsDisjoint ==
    LET laidOut(c) ==
            /\ c.level = "class" /\ rt.objects[c].kind = "normal" /\ rt.objects[c].super # nilClass
            /\ Range(NamesAbove(c.name)) \cap (FakeNames \cup {Missing}) = {}
    IN  stage \in {"categories", "running"} =>
          \A c \in DOMAIN rt.objects : laidOut(c) => rt.objects[rt.objects[c].super].size <= rt.objects[c].start

\* The classes the app has at run time are those it was compiled with.
ClassesRealized == MessagesFindMethods /\ LayoutsDisjoint
====
