---- MODULE MCScreen ----
(***************************************************************************)
(* What is drawn, shown and touched, and the guest memory that pixels and  *)
(* all else are in, for TLC: a behaviour is about one part.                *)
(***************************************************************************)
EXTENDS Gles, Touches, Views, Composition, Mem

CONSTANT Parts
VARIABLE part

screenVars == <<glesVars, touchVars, viewVars, caVars, memVars, part>>

\* Animations: one with a duration, one that begins late, takes its duration
\* from a transaction and comes back, one that stays when it has ended.
SomeKinds ==
    {[duration |-> 2, begin |-> 0, fill |-> "backwards", reverses |-> FALSE, removed |-> TRUE],
     [duration |-> 0, begin |-> 2, fill |-> "backwards", reverses |-> TRUE, removed |-> TRUE],
     [duration |-> 2, begin |-> 0, fill |-> "removed", reverses |-> FALSE, removed |-> FALSE]}

\* The part about drawing starts with one context that is current and whose
\* renderbuffer has a drawable.
DrawingInit ==
    LET t == CHOOSE x \in GlThreads : TRUE
        c == CHOOSE x \in Contexts : TRUE
        d == CHOOSE x \in Drawables : TRUE
    IN  /\ gl = [x \in Contexts |-> newState]
        /\ ctxAlive = {c} /\ ctxOwned = [x \in Contexts |-> IF x = c THEN 1 ELSE 0]
        /\ ctxOf = [x \in GlThreads |-> IF x = t THEN c ELSE nobody]
        /\ ctxThread = t /\ hostCtx = c /\ ctxLost = FALSE
        /\ group = [x \in Contexts |-> x]
        /\ bindings = [x \in Contexts |-> [r \in Renderbuffers |-> IF x = c THEN d ELSE nobody]]
        /\ drawRefs = [x \in Drawables |-> IF x = d THEN Cardinality(Renderbuffers) ELSE 0]
        /\ mapped = [x \in Contexts |-> <<>>]
        /\ reached = <<nobody, nobody>> /\ drawn = <<>>
        /\ frameDue = -1 /\ clock = 0 /\ frames = <<>>

Init ==
    /\ part \in Parts
    /\ IF part = "drawing" THEN DrawingInit ELSE GlesInit
    /\ TouchInit /\ (part = "touches" \/ desk = CHOOSE d \in Desks : TRUE)
    /\ ViewsInit /\ CompositionInit
    /\ MemInit /\ (part = "memory" \/ phase = "picker boot")

Next ==
    /\ UNCHANGED part
    /\ \/ part = "contexts" /\ ContextsNext /\ UNCHANGED <<touchVars, viewVars, caVars, memVars>>
       \/ part = "drawing" /\ DrawingNext /\ UNCHANGED <<touchVars, viewVars, caVars, memVars>>
       \/ part = "frames" /\ FramesNext /\ UNCHANGED <<touchVars, viewVars, caVars, memVars>>
       \/ part = "touches" /\ TouchesNext /\ UNCHANGED <<glesVars, viewVars, caVars, memVars>>
       \/ part = "views" /\ ViewsNext /\ UNCHANGED <<glesVars, touchVars, caVars, memVars>>
       \/ part = "animations" /\ AnimationsNext /\ UNCHANGED <<glesVars, touchVars, viewVars, memVars>>
       \/ part = "pictures" /\ PicturesNext /\ UNCHANGED <<glesVars, touchVars, viewVars, memVars>>
       \/ part = "memory" /\ MemNext /\ UNCHANGED <<glesVars, touchVars, viewVars, caVars>>

Spec == Init /\ [][Next]_screenVars
====
