---- MODULE MachO ----
(***************************************************************************)
(* Loading the app's binaries (src/mach_o.rs, Environment::new): the slice *)
(* of a fat file that suits the CPU best, its load commands one by one, in *)
(* the order of the file, then the bundled libraries it names, all into    *)
(* one guest memory, which has to be zero where nothing is copied.         *)
(*                                                                         *)
(* Addresses are pages.  A symbol is external (somewhere else), own        *)
(* (defined in this binary) or prebound (external, with a stale value).    *)
(***************************************************************************)
EXTENDS Integers, Sequences, FiniteSets

CONSTANTS Archs,        \* CPU subtypes a slice may have; "x86" is another CPU
          MaxSlices,    \* bound: slices of a fat file
          LibBases,     \* pages bundled libraries may be linked at
          Pages,
          MachCareful   \* what the binaries avoid

ASSUME MachOAssumption ==
    /\ MachCareful \subseteq {"order", "overlap", "two_entries"}
    /\ MaxSlices \in Nat /\ LibBases \subseteq Nat

VARIABLES slices,       \* the fat file: CPU subtypes in order
          chosen,       \* the slice that is loaded, 0 before it is chosen
          file,         \* the binary being loaded: the set of its commands, split_segs
          loaded,       \* what has been loaded of it
          mem, reserved, nullSize,   \* guest memory: page -> content
          bins,         \* binaries loaded before it, with their files
          outcome       \* "loading", "started", "error" or "panic"

machVars == <<slices, chosen, file, loaded, mem, reserved, nullSize, bins, outcome>>

none == -1
command(c, name, base, pages, filled, rw) ==
    [cmd |-> c, name |-> name, base |-> base, pages |-> pages, filled |-> filled, rw |-> rw]
segment(name, base, pages, filled, rw) == command("segment", name, base, pages, filled, rw)
other(c) == command(c, "-", 0, 0, 0, FALSE)

\* The commands of an executable, and of a library linked at a base.
ExecutableCommands == {segment("__PAGEZERO", 0, 1, 0, FALSE), segment("__TEXT", 1, 1, 1, FALSE),
                       segment("__DATA", 2, 2, 1, TRUE), other("symtab"), other("dysymtab"),
                       other("encryption"), other("entry"), other("thread"), other("dylib"), other("dyldinfo")}
LibraryCommands(b) == {segment("__TEXT", b, 1, 1, FALSE), segment("__DATA", b + 1, 1, 0, TRUE),
                       other("symtab"), other("dysymtab")}

\* The order linkers write: segments by address, the entry point after __TEXT,
\* the symbols before what refers to them.
Before(a, b) ==
    \/ a.cmd = "segment" /\ ((b.cmd = "segment" /\ a.base < b.base) \/ b.cmd \in {"symtab", "dysymtab", "dyldinfo", "entry"})
    \/ a.cmd = "symtab" /\ b.cmd = "dysymtab"
Files(set) == {[cmds |-> set, split |-> s] : s \in BOOLEAN}

\* Relocation k of a binary: an offset from its base, and the kind of symbol.
Relocs == <<[at |-> 0, kind |-> "external"], [at |-> 0, kind |-> "own"], [at |-> 0, kind |-> "prebound"]>>

nothing == [done |-> {}, bases |-> <<>>, firstBase |-> none, firstRw |-> none, text |-> none, symbols |-> FALSE,
            exports |-> FALSE, relocations |-> {}, entry |-> none, dylibs |-> FALSE]
noFile == [cmds |-> {}, split |-> FALSE]

MachOInit ==
    /\ slices \in UNION {[1 .. n -> Archs] : n \in 0 .. MaxSlices}
    /\ chosen = 0 /\ file = noFile /\ loaded = nothing
    /\ mem = [p \in Pages |-> "zero"] /\ reserved = {} /\ nullSize = 0
    /\ bins = <<>> /\ outcome = "loading"

-----------------------------------------------------------------------------

\* load_from_bytes, for a fat file.
BestSlice(s) ==
    LET best[i \in 0 .. Len(s)] ==
            IF i = 0 THEN 0
            ELSE IF /\ s[i] # "x86"
                    /\ \/ s[i] = "armv7"
                       \/ s[i] = "armv6" /\ (best[i - 1] = 0 \/ s[best[i - 1]] # "armv7")
                       \/ best[i - 1] = 0
                 THEN i ELSE best[i - 1]
    IN  best[Len(s)]

ChooseSlice ==
    /\ outcome = "loading" /\ chosen = 0
    /\ chosen' = BestSlice(slices)
    /\ IF chosen' = 0 THEN outcome' = "error" /\ UNCHANGED file
       ELSE /\ \E e \in SUBSET {other("entry"), other("thread")}, x \in SUBSET {other("encryption")},
                  d \in SUBSET {other("dylib"), other("dyldinfo")} :
                 LET optional == {c \in ExecutableCommands : c.cmd \in {"encryption", "entry", "thread", "dylib", "dyldinfo"}}
                 IN  /\ "two_entries" \in MachCareful => Cardinality(e) < 2
                     /\ file' \in Files((ExecutableCommands \ optional) \cup e \cup x \cup d)
            /\ UNCHANGED outcome
    /\ UNCHANGED <<slices, loaded, mem, reserved, nullSize, bins>>

-----------------------------------------------------------------------------
(* Load commands                                                           *)

PagesOf(c) == c.base .. c.base + c.pages - 1

\* LoadCommand::Segment; reserving what is reserved panics.
LoadSegment(c) ==
    LET l == loaded
        load == c.name \notin {"__PAGEZERO", "__LINKEDIT"}
        bad == \/ PagesOf(c) \cap reserved # {}
               \/ c.name = "__TEXT" /\ l.text # none
               \/ c.name = "__PAGEZERO" /\ nullSize # 0
    IN  /\ loaded' = [l EXCEPT !.done = @ \cup {c}, !.bases = Append(@, c.base),
                               !.firstBase = IF @ = none THEN c.base ELSE @,
                               !.firstRw = IF @ = none /\ c.rw THEN c.base ELSE @,
                               !.text = IF c.name = "__TEXT" THEN c.base ELSE @]
        /\ nullSize' = IF c.name = "__PAGEZERO" THEN c.pages ELSE nullSize
        /\ reserved' = reserved \cup PagesOf(c)
        /\ mem' = [p \in Pages |-> IF load /\ p \in c.base .. c.base + c.filled - 1 THEN "file" ELSE mem[p]]
        /\ outcome' = IF bad THEN "panic" ELSE outcome

LoadSymTab(c) ==
    /\ loaded' = [loaded EXCEPT !.done = @ \cup {c}, !.symbols = TRUE, !.exports = TRUE]
    /\ UNCHANGED <<mem, reserved, nullSize, outcome>>

\* A plausible slip: addresses are always from the first segment.
RelocBaseFirst(l, split) == l.firstBase

\* Where relocations count from: MH_SPLIT_SEGS says.
RelocBase(l, split) == IF split THEN l.firstRw ELSE l.firstBase

\* LoadCommand::DySymTab: the binary's own symbols at once, the others for the
\* linker; a prebound pointer is cleared.
LoadDySymTab(c) ==
    LET base == RelocBase(loaded, file.split)
        page(k) == base + Relocs[k].at
    IN  IF ~loaded.symbols \/ base = none
        THEN outcome' = "panic" /\ UNCHANGED <<loaded, mem, reserved, nullSize>>
        ELSE /\ loaded' = [loaded EXCEPT !.done = @ \cup {c},
                             !.relocations = @ \cup {<<page(k), Relocs[k].kind>> :
                                                     k \in {x \in DOMAIN Relocs : Relocs[x].kind # "own"}}]
             /\ mem' = [mem EXCEPT ![base] = "relocated"]
             /\ UNCHANGED <<reserved, nullSize, outcome>>

\* UnixThread and EntryPoint; DyldInfo only adds relocations like the above.
LoadEntry(c) ==
    /\ loaded' = [loaded EXCEPT !.done = @ \cup {c}, !.entry = IF c.cmd = "thread" THEN 1 ELSE loaded.text]
    /\ outcome' = IF loaded.entry # none \/ (c.cmd = "entry" /\ loaded.text = none) THEN "panic" ELSE outcome
    /\ UNCHANGED <<mem, reserved, nullSize>>

\* LoadCommand::DyldInfo binds pointers in __DATA, which it knows by the number
\* of the segment; what it rebases stays, as nothing slides.
LoadDyldInfo(c) ==
    LET n == Cardinality({d \in file.cmds : d.cmd = "segment" /\ d.name # "__DATA"}) + 1
    IN  IF n \notin DOMAIN loaded.bases
        THEN outcome' = "panic" /\ UNCHANGED <<loaded, mem, reserved, nullSize>>
        ELSE /\ loaded' = [loaded EXCEPT !.done = @ \cup {c}, !.relocations = @ \cup {<<loaded.bases[n], "bind">>}]
             /\ UNCHANGED <<mem, reserved, nullSize, outcome>>

LoadOther(c) ==
    /\ loaded' = [loaded EXCEPT !.done = @ \cup {c}, !.dylibs = @ \/ c.cmd = "dylib"]
    /\ outcome' = IF c.cmd = "encryption" THEN "error" ELSE outcome
    /\ UNCHANGED <<mem, reserved, nullSize>>

\* The next command of the file: any, but for the order linkers write.
LoadCommand ==
    /\ outcome = "loading"
    /\ \E c \in file.cmds \ loaded.done :
        /\ "order" \in MachCareful => \A d \in file.cmds \ loaded.done : ~Before(d, c)
        /\ CASE c.cmd = "segment" -> LoadSegment(c)
             [] c.cmd = "symtab" -> LoadSymTab(c)
             [] c.cmd = "dysymtab" -> LoadDySymTab(c)
             [] c.cmd = "dyldinfo" -> LoadDyldInfo(c)
             [] c.cmd \in {"entry", "thread"} -> LoadEntry(c)
             [] OTHER -> LoadOther(c)
    /\ UNCHANGED <<slices, chosen, file, bins>>

Done == chosen # 0 /\ loaded.done = file.cmds
Finished == Append(bins, [file |-> file, loaded |-> loaded])

\* A library the executable names, if it is bundled.
LoadLibrary ==
    \E b \in LibBases :
        /\ outcome = "loading" /\ Done /\ bins = <<>> /\ loaded.dylibs
        /\ "overlap" \in MachCareful => {b, b + 1} \cap reserved = {}
        /\ bins' = Finished /\ loaded' = nothing
        /\ file' \in Files(LibraryCommands(b))
        /\ UNCHANGED <<slices, chosen, mem, reserved, nullSize, outcome>>

\* The app is started at the executable's entry point, if it has one.
Start ==
    /\ outcome = "loading" /\ Done
    /\ bins' = Finished
    /\ outcome' = IF Finished[1].loaded.entry = none THEN "error" ELSE "started"
    /\ UNCHANGED <<slices, chosen, file, loaded, mem, reserved, nullSize>>

MachONext == ChooseSlice \/ LoadCommand \/ LoadLibrary \/ Start

MachOSpec == MachOInit /\ [][MachONext]_machVars

-----------------------------------------------------------------------------
(* Properties                                                              *)

SegmentsOf(b) == {c \in b.file.cmds : c.cmd = "segment"}

\* Where relocations of a binary are, by its segments alone.
RelocsAt(b) ==
    LET writable == {c \in SegmentsOf(b) : c.rw}
        bases == {c.base : c \in IF b.file.split THEN writable ELSE SegmentsOf(b)}
    IN  CHOOSE p \in bases : \A q \in bases : p <= q

\* The app starts only from the slice that suits best (armv7, else armv6, else
\* the first for this CPU) of a file that is not encrypted, with every page of
\* every segment as the file has it and zero beyond, the relocations counted
\* from where the file says, and no two binaries in the same place; loading
\* well-formed binaries never panics.
LoadedAsFiled ==
    LET ofArch(a) == {i \in DOMAIN slices : slices[i] = a}
        suits == IF ofArch("armv7") # {} THEN ofArch("armv7")
                 ELSE IF ofArch("armv6") # {} THEN ofArch("armv6")
                 ELSE {i \in DOMAIN slices : slices[i] # "x86" /\ \A j \in 1 .. i - 1 : slices[j] = "x86"}
        relocated == {RelocsAt(bins[k]) : k \in DOMAIN bins}
        filled == UNION {c.base .. c.base + c.filled - 1 : c \in UNION {SegmentsOf(bins[k]) : k \in DOMAIN bins}}
    IN  /\ outcome # "panic"
        /\ outcome = "started" =>
             /\ chosen \in suits
             /\ \A k \in DOMAIN bins : \A c \in bins[k].file.cmds : c.cmd # "encryption"
             /\ \A p \in Pages : mem[p] = IF p \in relocated THEN "relocated" ELSE IF p \in filled THEN "file" ELSE "zero"
             /\ \A k \in DOMAIN bins : bins[k].loaded.relocations =
                  {<<RelocsAt(bins[k]), "external">>, <<RelocsAt(bins[k]), "prebound">>}
                    \cup {<<c.base, "bind">> : c \in {x \in SegmentsOf(bins[k]) : x.name = "__DATA" /\ other("dyldinfo") \in bins[k].file.cmds}}
             /\ bins[1].loaded.entry = 1
====
