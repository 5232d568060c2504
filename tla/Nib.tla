---- MODULE Nib ----
(***************************************************************************)
(* Nib files: the NIBArchive format is converted to that of keyed archives *)
(* (nib_archive.rs), NSKeyedUnarchiver makes an object of every item that  *)
(* is asked for, once, while the objects ask for what they refer to        *)
(* (ns_keyed_unarchiver.rs), and UINib then connects outlets and events    *)
(* and shows windows (ui_nib.rs).                                          *)
(*                                                                         *)
(* An item has a class and refers to others; 0 is the item "$null", which  *)
(* is a string like any other.  The entries for classes, and values that   *)
(* are not objects, are left out.                                          *)
(***************************************************************************)
EXTENDS Integers, Sequences, FiniteSets, SequencesExt, FiniteSetsExt

CONSTANTS NibFiles,         \* [format, items, objects, connections, visible, top]
          MaxItems,         \* bound on the items of a file
          Owners,           \* what loads a nib: "application", "controller"
          nilObject, noKey,
          NibCareful        \* what the authors of nib files avoid

ASSUME NibAssumption ==
    /\ Owners \subseteq {"application", "controller"}
    /\ NibCareful \subseteq {"short_arrays", "nil_outlets"}
    /\ MaxItems \in Nat /\ \A f \in NibFiles : Len(f.items) <= MaxItems
    /\ \A f \in NibFiles : \A u \in DOMAIN f.items :    \* no item refers to itself, directly or not
         \A i \in DOMAIN f.items[u].refs : f.items[u].refs[i] \notin u .. Len(f.items)

VARIABLES nib,      \* the file
          owner,    \* what loads it
          step,     \* where instantiateWithOwner:options: is
          memo,     \* already_unarchived
          decoding,   \* the initWithCoder: calls in progress
          current,  \* current_key
          ret,      \* what unarchive_key has just returned
          heap,     \* reference counts and references of the objects made
          pool,     \* what is autoreleased
          wired, visibles, delegate, kept,
          nibPanic

nibVars == <<nib, owner, step, memo, decoding, current, ret, heap, pool, wired, visibles, delegate, kept, nibPanic>>

MaxMade == 2                \* bound on the objects made of one item
Uids == 0 .. MaxItems
theOwner == <<-1, 1>>
NibObjects == (Uids \X (1 .. MaxMade)) \cup {theOwner}
missing == <<-2, 1>>

\* A new NSKeyedUnarchiver.
Unarchiver ==
    /\ step = "start" /\ memo = [u \in Uids |-> missing] /\ decoding = <<>> /\ current = noKey /\ ret = missing
    /\ heap = [refs |-> [o \in NibObjects |-> IF o = theOwner THEN 2 ELSE 0],
               hold |-> [o \in NibObjects |-> <<>>], made |-> [u \in Uids |-> 0], over |-> FALSE]
    /\ pool = <<>> /\ wired = <<>> /\ visibles = <<>> /\ delegate = nilObject /\ kept = FALSE
    /\ nibPanic = FALSE

NibInit == nib \in NibFiles /\ owner \in Owners /\ Unarchiver

-----------------------------------------------------------------------------
(* nib_archive.rs: the items as a keyed archive has them                   *)

ClassOf(u) == IF u = 0 THEN "string" ELSE nib.items[u].class

\* An object reference that is not in the file becomes "$null", as nil does.
Mapped(r) == IF r \in DOMAIN nib.items THEN r ELSE 0

Refs(u) == LET of == nib.items[u].refs IN [i \in DOMAIN of |-> Mapped(of[i])]

\* The elements of an array are found by their key being repeated: with one
\* or no element there is no NS.objects.
HasElements(u) == nib.format = "keyed" \/ Len(nib.items[u].refs) > 1

-----------------------------------------------------------------------------
(* Reference counts                                                        *)

\* (over: an object that is gone is retained or released, which panics.)
retained(h, o) == IF o = nilObject \/ (o = theOwner /\ owner = "application") THEN h
                  ELSE [h EXCEPT !.refs[o] = @ + 1, !.over = @ \/ h.refs[o] = 0]

\* release, with what dealloc releases: an event connection's dealloc does not
\* call its superclass's and lets nothing go.
RECURSIVE releasedAll(_, _)
releasedAll(h, os) ==
    IF os = <<>> THEN h
    ELSE LET o == Head(os)
             lets == IF o # theOwner /\ ClassOf(o[1]) = "event" THEN <<>> ELSE h.hold[o]
         IN  IF o = nilObject \/ (o = theOwner /\ owner = "application") THEN releasedAll(h, Tail(os))
             ELSE IF h.refs[o] = 0 THEN [h EXCEPT !.over = TRUE]
             ELSE IF h.refs[o] > 1 THEN releasedAll([h EXCEPT !.refs[o] = @ - 1], Tail(os))
             ELSE releasedAll([h EXCEPT !.refs[o] = 0, !.hold[o] = <<>>], Tail(os) \o lets)

\* An object that holds another from now on.
holding(h, o, p) == [retained(h, p) EXCEPT !.hold[o] = Append(@, p)]

-----------------------------------------------------------------------------
(* ns_keyed_unarchiver.rs                                                  *)

\* get_value_to_decode_for_key: the key is looked up in the scope of the item
\* being decoded.
ValueForKey(i) == IF i \in DOMAIN Refs(current) THEN Refs(current)[i] ELSE noKey

\* unarchive_key: what is there already, a string, or alloc and initWithCoder:
\* in the scope of the item.
unarchive_key(u) ==
    IF memo[u] # missing
    THEN ret' = memo[u] /\ UNCHANGED <<memo, decoding, current, heap, nibPanic>>
    ELSE IF heap.made[u] = MaxMade
    THEN nibPanic' = TRUE /\ UNCHANGED <<memo, decoding, current, heap, ret>>
    ELSE LET o == <<u, heap.made[u] + 1>>
         IN  /\ heap' = [heap EXCEPT !.made[u] = @ + 1, !.refs[o] = 1]
             /\ IF ClassOf(u) = "string"
                THEN ret' = o /\ memo' = [memo EXCEPT ![u] = o] /\ UNCHANGED <<decoding, current, nibPanic>>
                ELSE /\ decoding' = Append(decoding, [uid |-> u, object |-> o, saved |-> current, next |-> 1])
                     /\ current' = u
                     /\ nibPanic' = (ClassOf(u) = "array" /\ ~HasElements(u))
                     /\ UNCHANGED <<memo, ret>>

\* How many objects the initWithCoder: of a class asks for: a proxy and an
\* object that UIClassSwapper makes with init or not at all, missing.
Asks(u) == IF ClassOf(u) \in {"proxy", "custom", "nameless"} THEN 0 ELSE Len(Refs(u))

\* decodeObjectForKey: by the object being made (an array takes its elements).
DecodeObject ==
    /\ ~nibPanic /\ decoding # <<>> /\ ret = missing
    /\ Last(decoding).next <= Asks(Last(decoding).uid)
    /\ LET v == ValueForKey(Last(decoding).next)
       IN  IF v = noKey THEN ret' = nilObject /\ UNCHANGED <<memo, decoding, current, heap, nibPanic>>
           ELSE unarchive_key(v)
    /\ UNCHANGED <<nib, owner, step, pool, wired, visibles, delegate, kept>>

\* What it got is retained by the object; decodeObjectForKey: itself retains
\* and autoreleases it.
TakeObject ==
    /\ ~nibPanic /\ decoding # <<>> /\ ret # missing
    /\ LET f == Last(decoding)
           auto == ClassOf(f.uid) # "array"
       IN  /\ heap' = holding(IF auto THEN retained(heap, ret) ELSE heap, f.object, ret)
           /\ pool' = IF auto THEN Append(pool, ret) ELSE pool
           /\ decoding' = [decoding EXCEPT ![Len(decoding)].next = @ + 1]
    /\ ret' = missing
    /\ UNCHANGED <<nib, owner, step, memo, current, wired, visibles, delegate, kept, nibPanic>>

\* What initWithCoder: returns: the file's owner instead of its proxy, the
\* object of the real class instead of UIClassSwapper (which is released), or
\* nil when there is no class name.
Result(f) == CASE ClassOf(f.uid) = "proxy" -> theOwner
               [] ClassOf(f.uid) = "nameless" -> nilObject
               [] OTHER -> f.object

\* A plausible slip: the scope of the item above is not restored.
InitReturnsInScope ==
    /\ ~nibPanic /\ decoding # <<>> /\ ret = missing
    /\ Last(decoding).next > Asks(Last(decoding).uid)
    /\ LET f == Last(decoding)
       IN  /\ memo' = [memo EXCEPT ![f.uid] = Result(f)] /\ ret' = Result(f)
           /\ heap' = IF ClassOf(f.uid) = "nameless" THEN releasedAll(heap, <<f.object>>) ELSE heap
    /\ decoding' = Front(decoding)
    /\ UNCHANGED <<nib, owner, step, current, pool, wired, visibles, delegate, kept, nibPanic>>

InitReturns ==
    /\ ~nibPanic /\ decoding # <<>> /\ ret = missing
    /\ Last(decoding).next > Asks(Last(decoding).uid)
    /\ LET f == Last(decoding)
       IN  /\ memo' = [memo EXCEPT ![f.uid] = Result(f)] /\ ret' = Result(f)
           /\ current' = f.saved
           /\ heap' = IF ClassOf(f.uid) = "nameless" THEN releasedAll(heap, <<f.object>>) ELSE heap
    /\ decoding' = Front(decoding)
    /\ UNCHANGED <<nib, owner, step, pool, wired, visibles, delegate, kept, nibPanic>>

-----------------------------------------------------------------------------
(* ui_nib.rs                                                               *)

Steps == <<"start", "objects", "connections", "connect", "visible", "show", "top", "close", "drain", "done">>
StepAfter == Steps[(CHOOSE i \in DOMAIN Steps : Steps[i] = step) + 1]

\* load_nib_file and instantiateWithOwner: decode four arrays of the file.
Wanted == CASE step = "start" -> nib.objects
            [] step = "connections" -> nib.connections
            [] step = "visible" -> nib.visible
            [] OTHER -> nib.top

\* The authors' care: no array too short for NIBArchive, no outlet to nothing.
WellMade ==
    /\ "short_arrays" \in NibCareful =>
         \A u \in DOMAIN nib.items : ClassOf(u) = "array" => HasElements(u)
    /\ "nil_outlets" \in NibCareful =>
         \A u \in DOMAIN nib.items : ClassOf(u) = "outlet" => ClassOf(Refs(u)[1]) # "nameless"

\* The objects, the connections, the windows to show and the top-level
\* objects, each from the top of the archive.
DecodeTop ==
    /\ ~nibPanic /\ decoding = <<>> /\ ret = missing
    /\ step \in {"start", "connections", "visible", "top"}
    /\ step = "start" => WellMade
    /\ unarchive_key(Wanted)
    /\ step' = IF step = "start" THEN "objects" ELSE StepAfter
    /\ UNCHANGED <<nib, owner, pool, wired, visibles, delegate, kept>>

\* ... whose result is autoreleased.
TopDecoded ==
    /\ ~nibPanic /\ decoding = <<>> /\ ret # missing
    /\ pool' = Append(pool, ret) /\ heap' = retained(heap, ret) /\ ret' = missing
    /\ step' = IF step = "objects" THEN "connections" ELSE step
    /\ UNCHANGED <<nib, owner, memo, decoding, current, wired, visibles, delegate, kept, nibPanic>>

AtRest == ~nibPanic /\ decoding = <<>> /\ ret = missing

\* connect: an outlet is set in its source, which retains it unless it is the
\* application's delegate; the target of an event is not retained.
ConnectNext ==
    /\ AtRest /\ step = "connect"
    /\ LET joined == heap.hold[memo[nib.connections]]
           n == Len(wired) + 1
           ends == heap.hold[joined[n]]             \* destination, label, source
           to == ends[1]
           from == ends[3]
           toOwner == from = theOwner /\ owner = "application"
       IN  IF n > Len(joined)
           THEN step' = StepAfter /\ UNCHANGED <<heap, wired, delegate, nibPanic>>
           ELSE /\ wired' = Append(wired, <<from, to>>) /\ UNCHANGED step
                /\ CASE from = nilObject \/ ClassOf(joined[n][1]) = "event" ->
                          UNCHANGED <<heap, delegate, nibPanic>>
                     [] to = nilObject -> nibPanic' = TRUE /\ UNCHANGED <<heap, delegate>>
                     [] toOwner -> delegate' = to /\ UNCHANGED <<heap, nibPanic>>
                     [] OTHER -> heap' = holding(heap, from, to) /\ UNCHANGED <<delegate, nibPanic>>
    /\ UNCHANGED <<nib, owner, memo, decoding, current, ret, pool, visibles, kept>>

ShowWindows ==
    /\ AtRest /\ step = "show"
    /\ visibles' = heap.hold[memo[nib.visible]] /\ step' = StepAfter
    /\ UNCHANGED <<nib, owner, memo, decoding, current, ret, heap, pool, wired, delegate, kept, nibPanic>>

\* The unarchiver is released, and with it everything it has made.
ReleaseUnarchiver ==
    /\ AtRest /\ step = "close"
    /\ heap' = releasedAll(heap, SelectSeq([u \in 1 .. MaxItems + 1 |-> memo[u - 1]], LAMBDA o : o # missing))
    /\ memo' = [u \in Uids |-> missing] /\ step' = StepAfter
    /\ UNCHANGED <<nib, owner, decoding, current, ret, pool, wired, visibles, delegate, kept, nibPanic>>

\* UIApplicationMain retains the delegate, if there is one, before it drains
\* the pool; other callers may keep the top-level objects.
Keep ==
    /\ AtRest /\ step = "drain" /\ ~kept
    /\ \/ owner = "application" /\ heap' = retained(heap, delegate)
       \/ owner = "controller" /\ heap' = holding(heap, theOwner, Last(pool))
    /\ kept' = TRUE
    /\ UNCHANGED <<nib, owner, step, memo, decoding, current, ret, pool, wired, visibles, delegate, nibPanic>>

Drain ==
    /\ AtRest /\ step = "drain" /\ (owner = "application" => kept)
    /\ heap' = releasedAll(heap, pool) /\ pool' = <<>> /\ step' = StepAfter
    /\ UNCHANGED <<nib, owner, memo, decoding, current, ret, wired, visibles, delegate, kept, nibPanic>>

NibNext ==
    \/ DecodeTop \/ TopDecoded \/ DecodeObject \/ TakeObject \/ InitReturns
    \/ ConnectNext \/ ShowWindows \/ ReleaseUnarchiver \/ Keep \/ Drain

-----------------------------------------------------------------------------
(* Properties                                                              *)

\* The object of an item, for the reader of the file.
Of(u) == CASE ClassOf(u) = "proxy" -> theOwner
           [] ClassOf(u) = "nameless" -> nilObject
           [] OTHER -> <<u, 1>>

\* What refers to an object when the nib has been loaded: the objects that hold
\* it, event connections that are gone, a proxy that was replaced, and the
\* application for its delegate.
Referrers(o) ==
    LET times(s) == Cardinality({i \in DOMAIN s : s[i] = o})
        leaks(u) == IF ClassOf(u) = "event" /\ heap.made[u] > 0
                    THEN Cardinality({i \in DOMAIN Refs(u) : Of(Refs(u)[i]) = o})
                    ELSE IF ClassOf(u) = "proxy" /\ heap.made[u] > 0 /\ o = <<u, 1>> THEN 1 ELSE 0
    IN  MapThenSumSet(LAMBDA p : times(heap.hold[p]), NibObjects)
          + MapThenSumSet(leaks, DOMAIN nib.items)
          + (IF owner = "application" /\ kept /\ delegate = o THEN 1 ELSE 0)

\* A nib file becomes the objects it describes: however its items refer to
\* each other one object is made of each, an object is given what its own item
\* refers to, in order, every connection joins the objects it names, no object
\* is released once too often or used when it is gone, and when the nib has
\* been loaded every object is alive exactly if something refers to it
\* (unarchive_key, current_key, load_nib_file, the deallocs of ui_nib.rs).
NibLoaded ==
    /\ ~nibPanic /\ ~heap.over
    /\ \A u \in Uids : heap.made[u] <= 1
    /\ \A u \in DOMAIN nib.items : heap.made[u] = 1 /\ Asks(u) > 0 /\ heap.refs[<<u, 1>>] > 0 =>
         \A i \in DOMAIN heap.hold[<<u, 1>>] : i <= Len(Refs(u)) => heap.hold[<<u, 1>>][i] = Of(Refs(u)[i])
    /\ \A i \in DOMAIN pool : pool[i] \notin {nilObject, theOwner} => heap.refs[pool[i]] > 0
    /\ \A i \in DOMAIN wired :
         LET c == Refs(Refs(nib.connections)[i])[1]
             s == Refs(Refs(nib.connections)[i])[3]
         IN  wired[i] = <<Of(s), Of(c)>>
    /\ step = "done" =>
         /\ Len(wired) = Len(Refs(nib.connections))
         /\ \A o \in NibObjects \ {theOwner} : heap.refs[o] = Referrers(o)
====
