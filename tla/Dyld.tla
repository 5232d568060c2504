---- MODULE Dyld ----
(***************************************************************************)
(* The dynamic linker.  A call of an imported function goes through a stub *)
(* in the binary.  Before the app starts every stub is made to trap; the   *)
(* first call looks the symbol up and rewrites the stub: it then traps to  *)
(* a host function by number, or it is the original stub again, which      *)
(* jumps through its slot of __la_symbol_ptr.  Pointers to functions are   *)
(* linked at once, to an exported function of a binary or to a trampoline  *)
(* that traps to the host function.  The CPU keeps translations of the     *)
(* code it has run.                                                        *)
(*                                                                         *)
(* Stub k of the binary imports StubSymbol[k]; slots are counted from the  *)
(* beginning of __la_symbol_ptr, which the app's own data follows.         *)
(***************************************************************************)
EXTENDS Integers, Sequences, FiniteSets, SequencesExt

CONSTANTS Symbols,
          StubSymbol,       \* the sequence of symbols the stubs import
          Pointed,          \* symbols in __nl_symbol_ptr and the relocations
          EntrySizes,       \* sizes a binary's stubs may have: 4, 12 or 16
          DyldCareful       \* what the binaries avoid

ASSUME DyldAssumption ==
    /\ IsFiniteSet(Symbols) /\ StubSymbol \in Seq(Symbols) /\ Pointed \subseteq Symbols
    /\ EntrySizes \subseteq {4, 12, 16} /\ DyldCareful \subseteq {"clash"}

VARIABLES hostExports, binExports,  \* the symbols host libraries, and the loaded binaries, define
          entrySize,
          code,         \* the instruction of each stub
          translated,   \* what the CPU has translated of each stub
          slot,         \* __la_symbol_ptr and the words after it
          linkedFns,    \* linked_host_functions: the symbols by number
          trampolines,  \* non_lazy_host_functions: symbol -> number, or 0
          pointer,      \* linked pointers: symbol -> function
          at,           \* the stub the guest is in, or 0
          called,       \* ghost: symbol -> functions calls of it and pointers to it have reached
          linkPanic

dyldVars == <<hostExports, binExports, entrySize, code, translated, slot, linkedFns, trampolines,
              pointer, at, called, linkPanic>>

Stubs == DOMAIN StubSymbol
\* Functions: the host's or a binary's function of that name.
host(s) == [of |-> "host", name |-> s]
bin(s) == [of |-> "bin", name |-> s]
traps(n) == [of |-> "trampoline", name |-> n]
unset == [of |-> "unset", name |-> 0]
data == [of |-> "data", name |-> 0]

DyldInit ==
    /\ hostExports \in SUBSET Symbols /\ binExports \in SUBSET Symbols
    /\ "clash" \in DyldCareful => hostExports \cap binExports = {}
    /\ entrySize \in EntrySizes
    /\ code = [k \in Stubs |-> <<"original">>]
    /\ translated = [k \in Stubs |-> <<>>]
    /\ slot = [k \in 1 .. Len(StubSymbol) + 2 |-> IF k \in Stubs THEN unset ELSE data]
    /\ linkedFns = <<>> /\ trampolines = [s \in Symbols |-> 0]
    /\ pointer = [s \in Pointed |-> unset]
    /\ at = -1 /\ called = [s \in Symbols |-> {}] /\ linkPanic = FALSE

-----------------------------------------------------------------------------
(* Before the app starts.                                                  *)

\* create_proc_address_no_inval: one trampoline for each host function.
WithTrampoline(d, s) ==
    IF d.tramp[s] # 0 THEN d
    ELSE [fns |-> Append(d.fns, s), tramp |-> [d.tramp EXCEPT ![s] = Len(d.fns) + 1]]

\* do_non_lazy_linking: a binary's function before the host's; what nobody
\* defines keeps its value.
NonLazyTarget(tramp, s) ==
    IF s \in binExports THEN bin(s) ELSE IF s \in hostExports THEN traps(tramp[s]) ELSE unset

\* setup_lazy_linking makes every stub trap (SVC_LAZY_LINK), then pointers are
\* linked, and trampolines numbered, in the order of the binary's tables.
NonLazyHost == Pointed \cap (hostExports \ binExports)
DoInitialLinking ==
    \E fns \in Surjection(1 .. Cardinality(NonLazyHost), NonLazyHost) :
        LET tramp == [s \in Symbols |-> IF s \in NonLazyHost THEN CHOOSE n \in DOMAIN fns : fns[n] = s ELSE 0]
        IN  /\ at = -1 /\ at' = 0
            /\ code' = [k \in Stubs |-> <<"lazy">>]
            /\ linkedFns' = fns /\ trampolines' = tramp
            /\ pointer' = [s \in Pointed |-> NonLazyTarget(tramp, s)]
            /\ UNCHANGED <<hostExports, binExports, entrySize, translated, slot, called, linkPanic>>

-----------------------------------------------------------------------------
(* do_lazy_link                                                            *)

\* The slot that is written, and that the stub then jumps through: for stubs of
\* one instruction its offset is from the start of the stubs to the start of
\* the slots, and 8 is added as the PC is two instructions ahead.
SlotOf(k) == IF entrySize = 4 THEN k + 2 ELSE k

LinkByRestoringStub(k, f) ==
    /\ code' = [code EXCEPT ![k] = <<"jump", SlotOf(k)>>]
    /\ translated' = [translated EXCEPT ![k] = <<>>]
    /\ slot' = [slot EXCEPT ![SlotOf(k)] = f]
    /\ UNCHANGED linkedFns

\* A plausible slip: the stub gets the number of the function linked before.
LinkToHostEarly(k, s) ==
    /\ code' = [code EXCEPT ![k] = <<"svc", IF linkedFns = <<>> THEN 1 ELSE Len(linkedFns)>>]
    /\ translated' = [translated EXCEPT ![k] = <<>>]
    /\ linkedFns' = Append(linkedFns, s)
    /\ UNCHANGED slot

\* The stub traps to a host function from now on.
LinkToHost(k, s) ==
    /\ code' = [code EXCEPT ![k] = <<"svc", Len(linkedFns) + 1>>]
    /\ translated' = [translated EXCEPT ![k] = <<>>]
    /\ linkedFns' = Append(linkedFns, s)
    /\ UNCHANGED slot

Reach(s, f) == called' = [called EXCEPT ![s] = @ \cup {f}]

\* What is first: a trampoline there is already, the host's function, a
\* binary's.  Only a host function is called at once; otherwise the guest is
\* sent back to the stub.
DoLazyLink(k) ==
    LET s == StubSymbol[k]
    IN  \/ /\ trampolines[s] # 0
           /\ LinkByRestoringStub(k, traps(trampolines[s])) /\ at' = k /\ UNCHANGED <<called, linkPanic>>
        \/ /\ trampolines[s] = 0 /\ s \in hostExports
           /\ LinkToHost(k, s) /\ at' = 0 /\ Reach(s, host(s)) /\ UNCHANGED linkPanic
        \/ /\ trampolines[s] = 0 /\ s \notin hostExports /\ s \in binExports
           /\ LinkByRestoringStub(k, bin(s)) /\ at' = k /\ UNCHANGED <<called, linkPanic>>
        \/ /\ trampolines[s] = 0 /\ s \notin hostExports \cup binExports
           /\ linkPanic' = TRUE /\ at' = 0 /\ UNCHANGED <<code, translated, slot, linkedFns, called>>

-----------------------------------------------------------------------------
(* The guest runs.                                                         *)

\* The function a jump to f ends in: a trampoline traps to the host.
Ends(f) == IF f.of = "trampoline" THEN host(linkedFns[f.name]) ELSE f

\* The guest branches to a stub.
EnterStub ==
    \E k \in Stubs :
        /\ at = 0 /\ ~linkPanic /\ at' = k
        /\ UNCHANGED <<hostExports, binExports, entrySize, code, translated, slot, linkedFns,
                       trampolines, pointer, called, linkPanic>>

\* The CPU runs what it has translated, or else the code; get_svc_handler
\* handles the trap.
RunStub ==
    LET k == at
        instr == IF translated[k] # <<>> THEN translated[k] ELSE code[k]
        s == StubSymbol[k]
    IN  /\ at > 0 /\ ~linkPanic
        /\ UNCHANGED <<hostExports, binExports, entrySize, trampolines, pointer>>
        /\ IF instr[1] = "lazy" THEN DoLazyLink(k)
           ELSE /\ translated' = [translated EXCEPT ![k] = instr] /\ at' = 0
                /\ Reach(s, IF instr[1] = "svc" THEN host(linkedFns[instr[2]]) ELSE Ends(slot[instr[2]]))
                /\ UNCHANGED <<code, slot, linkedFns, linkPanic>>

\* Before the first trap the CPU may translate ahead of what runs.
TranslateAhead ==
    \E k \in Stubs :
        /\ at = 0 /\ ~linkPanic /\ translated[k] = <<>>
        /\ translated' = [translated EXCEPT ![k] = code[k]]
        /\ UNCHANGED <<hostExports, binExports, entrySize, code, slot, linkedFns, trampolines,
                       pointer, at, called, linkPanic>>

CallPointer ==
    \E s \in Pointed :
        /\ at = 0 /\ ~linkPanic /\ pointer[s] # unset
        /\ Reach(s, Ends(pointer[s]))
        /\ UNCHANGED <<hostExports, binExports, entrySize, code, translated, slot, linkedFns,
                       trampolines, pointer, at, linkPanic>>

\* create_proc_address (dlsym, eglGetProcAddress and the like), and a call.
Dlsym ==
    \E s \in hostExports :
        LET new == WithTrampoline([fns |-> linkedFns, tramp |-> trampolines], s)
        IN  /\ at = 0 /\ ~linkPanic
            /\ linkedFns' = new.fns /\ trampolines' = new.tramp
            /\ Reach(s, host(new.fns[new.tramp[s]]))
            /\ UNCHANGED <<hostExports, binExports, entrySize, code, translated, slot, pointer, at, linkPanic>>

DyldNext == DoInitialLinking \/ EnterStub \/ RunStub \/ TranslateAhead \/ CallPointer \/ Dlsym

DyldSpec == DyldInit /\ [][DyldNext]_dyldVars

-----------------------------------------------------------------------------
(* Properties                                                              *)

\* "We want the same symbol name to always point to the same function": however
\* calls, pointers and dlsym mix, and whatever the CPU had translated, a symbol
\* reaches one function, and one of that name.
SameFunction ==
    \A s \in Symbols : Cardinality(called[s]) <= 1 /\ \A f \in called[s] : f.name = s
====
