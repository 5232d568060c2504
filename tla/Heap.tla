------------------------------- MODULE Heap -------------------------------
(***************************************************************************)
(* What guest memory promises to its users, without saying where a block   *)
(* is placed: live blocks never overlap, a new block starts out zeroed, a  *)
(* block's bytes change only when the guest writes to it, and moving a     *)
(* block keeps its contents.  Mem implements this specification.           *)
(***************************************************************************)
EXTENDS Integers

CONSTANTS Size,     \* number of bytes of the address space
          Stack     \* the block that is live from the start

VARIABLES live,     \* set of [base, size] blocks
          bytes,    \* contents, zero or not, per address
          answer    \* the last request that was answered: op, ptr, asked

hvars == <<live, bytes, answer>>

Block == [base : 0 .. Size - 1, size : 1 .. Size]

Within(a, c) == c.base <= a /\ a < c.base + c.size

Apart(c, d) == c.base + c.size <= d.base \/ d.base + d.size <= c.base

\* The bytes of every block in `kept' are what they were.
Keeps(kept) ==
    \A c \in kept : \A a \in 0 .. Size - 1 :
        Within(a, c) => bytes'[a] = bytes[a]

HeapInit ==
    /\ live = {Stack}
    /\ bytes = [a \in 0 .. Size - 1 |-> 0]
    /\ answer.op = "none"

\* c joins the live blocks without touching any of them.
Joins(c) ==
    /\ c \in Block /\ c.base + c.size <= Size
    /\ \A d \in live : Apart(c, d)

ZeroFrom(lo, n) == \A a \in 0 .. Size - 1 : lo <= a /\ a < lo + n => bytes'[a] = 0

\* A block large enough for the request, and zeroed as far as was asked.
Grant(c) ==
    /\ Joins(c)
    /\ live' = live \cup {c}
    /\ answer'.op = "alloc" /\ answer'.ptr = c.base /\ answer'.asked <= c.size
    /\ ZeroFrom(c.base, answer'.asked)
    /\ Keeps(live)

\* A part of the program, or of the emulator, is put at a place of its own;
\* what it does not fill is zero.
Install(c) ==
    /\ Joins(c)
    /\ live' = live \cup {c}
    /\ answer'.op = "segment" => ZeroFrom(answer'.ptr, answer'.asked)
    /\ answer'.op # "alloc"
    /\ Keeps(live)

Write(c) == live' = live /\ Keeps(live \ {c})

Release(c) == live' = live \ {c} /\ Keeps(live \ {c})

Move(old, c) ==
    /\ Joins(c) /\ c.size > old.size
    /\ live' = (live \ {old}) \cup {c}
    /\ answer'.op = "realloc" /\ answer'.ptr = c.base /\ answer'.asked <= c.size
    /\ \A i \in 0 .. old.size - 1 : bytes'[c.base + i] = bytes[old.base + i]
    /\ Keeps(live \ {old})

\* A new program starts in the same memory.
Restart ==
    /\ live' = {Stack}
    /\ bytes' = [a \in 0 .. Size - 1 |-> 0]
    /\ answer'.op = "none"

HeapNext ==
    \/ \E c \in live' \ live : Grant(c) \/ Install(c)
    \/ \E c \in live : Write(c) \/ Release(c)
    \/ \E old \in live \ live', c \in live' \ live : Move(old, c)
    \/ Restart

HeapSpec == HeapInit /\ [][HeapNext]_hvars

===========================================================================
