---- MODULE Abi ----
(***************************************************************************)
(* Calls between guest and host code (src/abi.rs, src/objc/messages.rs) on *)
(* one thread: arguments in r0 to r3 and then on the stack, a pointer to a *)
(* large return value as an argument before the others, and the registers  *)
(* that hold what calls have to give back.  The host calls guest functions *)
(* directly, and sends messages: through objc_msgSend, which leaves the    *)
(* arguments where they are for the method.                                *)
(*                                                                         *)
(* Everything is counted in words.  Word i of the arguments of call number *)
(* n is <<"arg", n, i>>; what a function leaves in a register it may use   *)
(* is junk.                                                                *)
(***************************************************************************)
EXTENDS Integers, Sequences, FiniteSets, SequencesExt

CONSTANTS ArgWords,     \* how many words of arguments calls may have
          MaxDepth,     \* bound: calls within calls
          MaxCalls,     \* bound: calls in a run
          Top,          \* the stack is below this
          AbiCareful    \* what host functions and the app avoid

ASSUME AbiAssumption == ArgWords \subseteq Nat /\ Top \in Nat /\ AbiCareful \subseteq {"va_regs", "stret_args"}

VARIABLES r,        \* r0 to r3
          sp, lr, fp, stack,  \* lr: the call to return from, or -1 for the host
          frames,   \* the functions that are running, the outermost first
          count     \* calls so far

abiVars == <<r, sp, lr, fp, stack, frames, count>>

junk == <<"junk", 0, 0>>
RetWords == 2
args(n, words) == [i \in 1 .. words |-> <<"arg", n, i>>]

\* A running function: what its caller passed, what it has got of that, how
\* many words are for "...", where its stack arguments are, and what has to be
\* as it was when it returns.
frame(who, passed, fixed, sp0, ret, keep) ==
    [who |-> who, passed |-> passed, got |-> <<>>, fixed |-> fixed, sp0 |-> sp0, ret |-> ret, keep |-> keep]

AbiInit ==
    /\ r = [k \in 0 .. 3 |-> junk] /\ sp = Top /\ lr = 0 /\ fp = Top /\ count = 0
    /\ stack = [k \in 0 .. Top - 1 |-> junk]
    /\ frames = <<frame("guest", <<>>, 0, Top, -1, <<>>)>>

top == Last(frames)
Running == count < MaxCalls /\ Len(frames) < MaxDepth

-----------------------------------------------------------------------------
(* Arguments                                                               *)

\* extend_stack_for_args
Extended(words) == IF words > 4 THEN words - 4 ELSE 0

\* write_next_arg, from register number off on: into registers, then onto the
\* stack from sp0 up.
RegsWith(off, words, old) == [k \in 0 .. 3 |-> IF k - off + 1 \in DOMAIN words THEN words[k - off + 1] ELSE old[k]]
StackWith(off, words, sp0, old) ==
    [k \in DOMAIN old |-> LET i == k - sp0 + 4 - off + 1
                          IN  IF k >= sp0 /\ i \in DOMAIN words /\ i + off > 4 THEN words[i] ELSE old[k]]

\* A plausible slip: the stack arguments are taken to begin a word too far.
ReadArgAbove(off, sp0) == IF off < 4 THEN r[off] ELSE IF sp0 + off - 3 \in DOMAIN stack THEN stack[sp0 + off - 3] ELSE junk

\* read_next_arg: word number off (from 0) of the arguments.
ReadArg(off, sp0) == IF off < 4 THEN r[off] ELSE stack[sp0 + off - 4]

-----------------------------------------------------------------------------
(* The guest calls a host function: CallFromGuest.                         *)

\* The compiler's side of the convention: it has put away what it got in
\* registers.  So many of the arguments as fixed says are named.
GuestCallsHost ==
    \E words \in ArgWords, fixed \in 0 .. 4, va \in BOOLEAN :
        LET a == args(count + 1, words)
            sp0 == sp - Extended(words)
            fixedWords == IF va THEN fixed ELSE words
        IN  /\ top.who = "guest" /\ Running /\ sp0 >= 0 /\ fixedWords <= words
            /\ Len(top.got) = Len(top.passed) \/ Len(top.got) >= 4
            /\ va \/ fixed = 0
            /\ r' = RegsWith(0, a, r) /\ stack' = StackWith(0, a, sp0, stack)
            /\ sp' = sp0 /\ lr' = count + 1 /\ count' = count + 1
            /\ frames' = Append(frames, frame("host", a, fixedWords, sp0, -1, <<sp, lr, fp>>))
            /\ UNCHANGED fp

\* call_from_guest reads the named arguments before anything else happens, and
\* VaList::next the others when the function asks for them.
HostReads ==
    LET off == Len(top.got)
    IN  /\ top.who = "host" /\ off < Len(top.passed)
        /\ frames' = [frames EXCEPT ![Len(frames)].got = Append(@, ReadArg(off, top.sp0))]
        /\ UNCHANGED <<r, sp, lr, fp, stack, count>>

HostHasArguments == top.who = "host" /\ Len(top.got) >= top.fixed
\* The host function may call others.
MayCallOn ==
    /\ HostHasArguments /\ Running
    /\ "va_regs" \in AbiCareful => Len(top.got) = Len(top.passed) \/ Len(top.got) >= 4

\* The host function returns; the guest takes its stack arguments away.
HostReturns ==
    /\ HostHasArguments /\ Len(frames) > 1
    /\ r' = [r EXCEPT ![0] = <<"value", count, 0>>]
    /\ frames' = Front(frames)
    /\ sp' = top.keep[1] /\ lr' = top.keep[2]
    /\ UNCHANGED <<fp, stack, count>>

-----------------------------------------------------------------------------
(* The host calls guest functions: CallFromHost.                           *)

\* call_from_host of a GuestFunction: a frame, the arguments below it.
HostCallsGuest ==
    \E words \in ArgWords :
        LET a == args(count + 1, words)
            sp1 == sp - 2
            sp0 == sp1 - Extended(words)
            framed == [stack EXCEPT ![sp1] = <<"fp", fp, 0>>, ![sp1 + 1] = <<"lr", lr, 0>>]
        IN  /\ MayCallOn /\ sp0 >= 0
            /\ stack' = StackWith(0, a, sp0, framed) /\ r' = RegsWith(0, a, r)
            /\ sp' = sp0 /\ fp' = sp1 /\ lr' = -1 /\ count' = count + 1
            /\ frames' = Append(frames, frame("guest", a, words, sp0, -1, <<sp, lr, fp>>))

\* call_from_host of a host function, by the convention of guest functions: room
\* for a large return value is made first, then for the arguments on the stack;
\* the address of the value, though an argument, does not count.
SpFor(words, stret) == (IF stret THEN sp - RetWords ELSE sp) - Extended(words)

\* msg_send: call_from_host of objc_msgSend or, for a large return value,
\* objc_msgSend_stret, which calls the guest's method without a frame of its
\* own.
HostSendsMessage ==
    \E words \in ArgWords, stret \in BOOLEAN :
        LET a == args(count + 1, words)
            ret == IF stret THEN sp - RetWords ELSE -1
            off == IF stret THEN 1 ELSE 0
            sp0 == SpFor(words, stret)
            address == [k \in 0 .. 3 |-> IF stret /\ k = 0 THEN <<"address", ret, 0>> ELSE r[k]]
        IN  /\ MayCallOn /\ sp0 >= 0 /\ words >= 2
            /\ "stret_args" \in AbiCareful /\ stret => words + 1 <= 4
            /\ stack' = StackWith(off, a, sp0, stack) /\ r' = RegsWith(off, a, address)
            /\ sp' = sp0 /\ lr' = -1 /\ count' = count + 1
            /\ frames' = Append(frames, frame("guest", (IF stret THEN <<<<"address", ret, 0>>>> ELSE <<>>) \o a,
                                              Len(a) + off, sp0, ret, <<sp, lr, fp>>))
            /\ UNCHANGED fp

\* A guest function reads its arguments as it likes, and may write what it
\* returns through the address before it has read all.
GuestReads ==
    LET off == Len(top.got)
    IN  /\ top.who = "guest" /\ off < Len(top.passed)
        /\ frames' = [frames EXCEPT ![Len(frames)].got = Append(@, ReadArg(off, top.sp0))]
        /\ UNCHANGED <<r, sp, lr, fp, stack, count>>

GuestWritesReturn ==
    /\ top.who = "guest" /\ top.ret >= 0 /\ Len(top.got) >= 4
    /\ stack[top.ret] # <<"returned", top.ret, 0>>
    /\ stack' = [k \in DOMAIN stack |-> IF k \in top.ret .. top.ret + RetWords - 1 THEN <<"returned", top.ret, 0>> ELSE stack[k]]
    /\ UNCHANGED <<r, sp, lr, fp, frames, count>>

\* It returns to the host, with junk where a function may leave it; the host
\* gives the registers back what they were.
GuestReturns ==
    /\ top.who = "guest" /\ Len(frames) > 1 /\ Len(top.got) = Len(top.passed)
    /\ r' = [k \in 0 .. 3 |-> IF k = 0 THEN <<"value", count, 0>> ELSE junk]
    /\ sp' = top.keep[1] /\ lr' = top.keep[2] /\ fp' = top.keep[3]
    /\ frames' = Front(frames)
    /\ UNCHANGED <<stack, count>>

AbiNext ==
    \/ GuestCallsHost \/ HostReads \/ HostReturns \/ HostCallsGuest \/ HostSendsMessage
    \/ GuestReads \/ GuestWritesReturn \/ GuestReturns

AbiSpec == AbiInit /\ [][AbiNext]_abiVars

-----------------------------------------------------------------------------
(* Properties                                                              *)

\* However host and guest call each other, a function gets the arguments its
\* caller passed, those after "..." and those read late too, and one that
\* waits for another finds its own stack arguments as they were.
ArgumentsArrive ==
    \A k \in DOMAIN frames : LET f == frames[k]
                            IN  /\ IsPrefix(f.got, f.passed)
                                /\ \A i \in DOMAIN f.passed : i > 4 /\ i > Len(f.got) => stack[f.sp0 + i - 5] = f.passed[i]
====
