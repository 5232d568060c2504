-------------------------------- MODULE Gles --------------------------------
(***************************************************************************)
(* The OpenGL ES and EAGL frameworks: one current context per guest        *)
(* thread on top of one current context of the host, the guest's GL calls, *)
(* buffers mapped into guest memory, and the presenting of renderbuffers.  *)
(***************************************************************************)
EXTENDS GlState, FiniteSetsExt

CONSTANTS GlThreads,       \* guest threads that draw
          Contexts,        \* EAGLContext objects
          Drawables,       \* CAEAGLLayer objects
          Renderbuffers,   \* names of renderbuffers
          Interval,        \* the limiter's time between frames
          MaxTime,         \* bound on the clock
          Careful          \* what guests are assumed to avoid, see below

ASSUME GlesConstants ==
    /\ {"vertex", "tex"} \subseteq Arrays /\ 0 \in Units
    /\ Interval \in Nat \ {0} /\ MaxTime \in Nat
    /\ Careful \subseteq {"one_thread", "nil_current", "one_mapping", "arrays"}

nobody == "nobody"
internal == "internal"

ASSUME GlesNames ==
    /\ IsFiniteSet(GlThreads) /\ IsFiniteSet(Contexts) /\ IsFiniteSet(Renderbuffers)
    /\ nobody \notin GlThreads /\ nobody \notin Contexts /\ nobody \notin Drawables

VARIABLES
    gl,           \* per context: its state
    ctxAlive,     \* the contexts that are initialised and not deallocated
    ctxOwned,     \* the guest's references to them
    ctxOf,        \* current_ctxs: per thread
    ctxThread,    \* current_ctx_thread
    hostCtx,      \* the host's current context
    ctxLost,      \* app_gl_ctx_no_longer_current
    group,        \* per context: the table of drawables it shares
    bindings,     \* per table: renderbuffer -> drawable
    drawRefs,     \* references to drawables that the tables own
    mapped,       \* per context: mapped_buffers
    reached,      \* the last GL call: the thread's context, and the host's
    drawn,        \* after a draw or present: the state before, and what the draw saw
    frameDue,     \* next_frame_due
    clock,        \* the time
    frames        \* the times of the latest frames

ctxVars == <<ctxAlive, ctxOwned, ctxOf, ctxThread, hostCtx, ctxLost>>
tableVars == <<group, bindings, drawRefs>>
frameVars == <<frameDue, clock, frames>>
glesVars == <<gl, ctxVars, tableVars, mapped, reached, drawn, frameVars>>

GlesInit ==
    /\ gl = [c \in Contexts |-> newState]
    /\ ctxAlive = {} /\ ctxOwned = [c \in Contexts |-> 0]
    /\ ctxOf = [t \in GlThreads |-> nobody]
    /\ ctxThread = nobody /\ hostCtx = internal /\ ctxLost = FALSE
    /\ group = [c \in Contexts |-> c]
    /\ bindings = [c \in Contexts |-> [r \in Renderbuffers |-> nobody]]
    /\ drawRefs = [d \in Drawables |-> 0]
    /\ mapped = [c \in Contexts |-> <<>>]
    /\ reached = <<nobody, nobody>> /\ drawn = <<>>
    /\ frameDue = -1 /\ clock = 0 /\ frames = <<>>

CtxRefs(c) == ctxOwned[c] + Cardinality({t \in GlThreads : ctxOf[t] = c})

---------------------------------------------------------------------------
(* Contexts *)

\* sync_context: the host's context is switched when the emulator used its
\* own, or when the record names another thread.  The record is not updated.
sync_context(t) ==
    /\ hostCtx' = IF ctxLost \/ ctxThread # t THEN ctxOf[t] ELSE hostCtx
    /\ ctxLost' = FALSE
    /\ reached' = <<ctxOf[t], hostCtx'>>

\* A plausible slip: the record still names the thread.
initWithAPI_named(c) ==
    /\ c \notin ctxAlive /\ \A d \in ctxAlive : group[d] # c
    /\ ctxAlive' = ctxAlive \cup {c} /\ ctxOwned' = [ctxOwned EXCEPT ![c] = 1]
    /\ gl' = [gl EXCEPT ![c] = newState]
    /\ hostCtx' = c
    /\ group' = [group EXCEPT ![c] = c]
    /\ bindings' = [bindings EXCEPT ![c] = [r \in Renderbuffers |-> nobody]]
    /\ mapped' = [mapped EXCEPT ![c] = <<>>]
    /\ UNCHANGED <<ctxOf, ctxThread, ctxLost, drawRefs, reached, drawn, frameVars>>

\* initWithAPI: makes the new context the host's, and forgets whose is.
initWithAPI(c) ==
    /\ c \notin ctxAlive /\ \A d \in ctxAlive : group[d] # c   \* a new object
    /\ ctxAlive' = ctxAlive \cup {c} /\ ctxOwned' = [ctxOwned EXCEPT ![c] = 1]
    /\ gl' = [gl EXCEPT ![c] = newState]
    /\ hostCtx' = c /\ ctxThread' = nobody
    /\ group' = [group EXCEPT ![c] = c]
    /\ bindings' = [bindings EXCEPT ![c] = [r \in Renderbuffers |-> nobody]]
    /\ mapped' = [mapped EXCEPT ![c] = <<>>]
    /\ UNCHANGED <<ctxOf, ctxLost, drawRefs, reached, drawn, frameVars>>

\* initWithAPI:sharegroup: in addition shares the group's table.
initWithAPI_sharegroup(c, g) ==
    /\ c \notin ctxAlive /\ g \in ctxAlive
    /\ \A d \in ctxAlive : group[d] # c
    /\ ctxAlive' = ctxAlive \cup {c} /\ ctxOwned' = [ctxOwned EXCEPT ![c] = 1]
    /\ gl' = [gl EXCEPT ![c] = newState]
    /\ hostCtx' = c /\ ctxThread' = nobody
    /\ group' = [group EXCEPT ![c] = group[g]]
    /\ mapped' = [mapped EXCEPT ![c] = <<>>]
    /\ UNCHANGED <<ctxOf, ctxLost, bindings, drawRefs, reached, drawn, frameVars>>

\* dealloc: the last context of a table releases its drawables.
dealloc_context(c) ==
    IF \E d \in ctxAlive \ {c} : group[d] = group[c] THEN UNCHANGED <<bindings, drawRefs>>
    ELSE /\ drawRefs' = [d \in Drawables |->
                drawRefs[d] - Cardinality({r \in Renderbuffers : bindings[group[c]][r] = d})]
         /\ bindings' = [bindings EXCEPT ![group[c]] = [r \in Renderbuffers |-> nobody]]

release_context(c) ==
    IF CtxRefs(c) > 1 THEN UNCHANGED <<ctxAlive, bindings, drawRefs, mapped>>
    ELSE /\ ctxAlive' = ctxAlive \ {c}
         /\ mapped' = [mapped EXCEPT ![c] = <<>>]
         /\ dealloc_context(c)

guest_releases_context(c) ==
    /\ ctxOwned[c] > 0
    /\ release_context(c)
    /\ ctxOwned' = [ctxOwned EXCEPT ![c] = @ - 1]
    /\ UNCHANGED <<gl, ctxOf, ctxThread, hostCtx, ctxLost, group, reached, drawn, frameVars>>

OthersUse(t, c) == \E u \in GlThreads \ {t} : ctxOf[u] \notin {nobody, c}

\* setCurrentContext: retains the new one, and then releases the old one, which
\* may be the same.  Whatever it is called with, it clears the flag that tells that
\* the host's context is not the app's: a guest that takes the care "nil_current"
\* makes none current only in a thread that had one, where this is no loss.
setCurrentContext(t, c) ==
    /\ c \in ctxAlive \/ c = nobody
    /\ c # nobody => CtxRefs(c) > 0
    /\ "one_thread" \in Careful /\ c # nobody => ~OthersUse(t, c)
    /\ "nil_current" \in Careful /\ c = nobody => ctxOf[t] # nobody
    /\ ctxLost' = FALSE
    /\ ctxOf' = [ctxOf EXCEPT ![t] = c]
    /\ IF ctxOf[t] \in {nobody, c} THEN UNCHANGED <<ctxAlive, bindings, drawRefs, mapped>>
       ELSE release_context(ctxOf[t])
    /\ IF c # nobody THEN hostCtx' = c /\ ctxThread' = t
       ELSE UNCHANGED hostCtx /\ ctxThread' = IF ctxOf[t] = nobody THEN ctxThread ELSE nobody
    /\ UNCHANGED <<gl, ctxOwned, group, reached, drawn, frameVars>>

\* The emulator composes layers, or shows the splash, with its own context.
make_internal_gl_ctx_current ==
    /\ hostCtx' = internal /\ ctxLost' = TRUE
    /\ UNCHANGED <<gl, ctxAlive, ctxOwned, ctxOf, ctxThread, tableVars, mapped, reached, drawn, frameVars>>

---------------------------------------------------------------------------
(* GL calls *)

\* with_ctx_and_mem: without a context a call does nothing; otherwise it
\* changes the state of the host's context.
with_ctx_and_mem(t, s) ==
    /\ ctxOf[t] # nobody
    /\ sync_context(t)
    /\ ~gl[hostCtx'].panicked
    /\ gl' = [gl EXCEPT ![hostCtx'] = s]
    /\ UNCHANGED <<ctxAlive, ctxOwned, ctxOf, ctxThread, tableVars, mapped, frameVars>>

\* How much a state differs from a new one (a bound).  Settings count twice, as
\* none has an effect on another.
Differs(f, g) == Cardinality({x \in DOMAIN f : f[x] # g[x]})
Changed(s) ==
    LET n == newState
    IN  Cardinality(s.caps) + Cardinality(s.enabled) + 2 * Differs(s.settings, n.settings)
        + Differs(s.pointers, n.pointers) + Differs(s.stacks, n.stacks) + Differs(s.textures, n.textures)
        + Cardinality({f \in {"arrayBuffer", "clientUnit", "activeUnit", "matrixMode", "framebuffer", "fog"} :
                          s[f] # n[f]})

call(t, s) == Changed(s) <= MaxChanged /\ with_ctx_and_mem(t, s) /\ drawn' = <<>>

\* The state a call starts from.
Now(t) == gl[IF ctxLost \/ ctxThread # t THEN ctxOf[t] ELSE hostCtx]

glGeneric(t) ==
    \/ \E c \in Capabilities : call(t, Enable(Now(t), c)) \/ call(t, Disable(Now(t), c))
    \/ \E u \in Units : call(t, ClientActiveTexture(Now(t), u))
    \/ \E a \in Arrays : call(t, EnableClientState(Now(t), a)) \/ call(t, DisableClientState(Now(t), a))

\* A setting: by a number, or by its fixed-point form.
glRaster(t, v) == call(t, Raster(Now(t), v))
glPoint(t, v) == call(t, Point(Now(t), v * One))
glFog(t, v, range) ==
    call(t, Fog(Now(t), v * One, range))
glLight(t, v) == call(t, Light(Now(t), v * One))
glMaterial(t, v) == call(t, Material(Now(t), v * One))
glBuffers(t) == \E b \in Buffers \cup {none} : call(t, BindBuffer(Now(t), b))
glColor(t, v) == call(t, Color(Now(t), v * One))
glClear(t, v) == call(t, ClearValue(Now(t), v * One))
glMatrices(t, v) ==
    \/ \E m \in Modes : call(t, MatrixMode(Now(t), m))
    \/ call(t, LoadMatrix(Now(t), v)) \/ call(t, MultMatrix(Now(t), v))
    \/ call(t, PopMatrix(Now(t)))
    \/ Len(Now(t).stacks[Now(t).matrixMode]) < MaxDepth /\ call(t, PushMatrix(Now(t)))
glTextures(t, v) ==
    \/ \E u \in Units : call(t, ActiveTexture(Now(t), u))
    \/ call(t, BindTexture(Now(t), "t1")) \/ call(t, DeleteTexture(Now(t), "t1"))
    \/ call(t, TexParameter(Now(t), v))
glTexImages(t, v) ==
    \/ call(t, TexImage2D(Now(t), v))
    \/ call(t, CompressedTexImage2D(Now(t), v))
    \/ call(t, CopyTexImage2D(Now(t), v))
glTexEnv(t, v) == call(t, TexEnv(Now(t), v))
glFramebuffers(t) ==
    \/ call(t, BindFramebufferOES(Now(t), "f1"))
    \/ call(t, DeleteFramebuffer(Now(t), "f1"))

\* The guest remembers which type it declared.
glPointer(t, a, type) ==
    LET s == Now(t)
    IN  call(t, [Pointer(s, a, type, 1) EXCEPT !.declared[Slot(a, s.clientUnit)] = type])

\* translate_pointer_or_offset_to_host, and back: which of the two a number is
\* depends on what was bound when the pointer was set.
IsOffset(s, slot) == s.pointers[slot].buffer # none

\* clamp_fog_state_values: no division by zero when start and end are equal.
clamp_fog(s) == IF "FOG" \in s.caps /\ s.fog[1] = s.fog[2]
                THEN [s EXCEPT !.fog[1] = s.fog[2] - 1] ELSE s

\* Guests that avoid what draws do not restore: the buffer of every enabled
\* fixed-point array, or none, is still bound; one in a buffer is the only
\* one; texture co-ordinates are used by the active unit only, and through it.
CarefulDraw(s) ==
    LET fixed == {x \in s.enabled : s.declared[x] = "FIXED"}
    IN  /\ \A x \in fixed : s.pointers[x].buffer = s.arrayBuffer /\ (IsOffset(s, x) => fixed = {x})
        /\ \A x \in s.enabled : x[1] = "tex" => x[2] = s.activeUnit
        /\ s.clientUnit = s.activeUnit

glDraw(t) ==
    LET s == Now(t)  r == Draw(clamp_fog(s))
    IN  /\ ctxOf[t] # nobody
        /\ "arrays" \in Careful => CarefulDraw(s)
        /\ with_ctx_and_mem(t, [r.s EXCEPT !.fog = s.fog])
        /\ drawn' = <<s, r.drawn>>

---------------------------------------------------------------------------
(* Mapped buffers *)

\* _get_currently_bound_buffer_object_name: the answer goes to a temporary
\* copy, so that the name is always 0 and mapped_buffers has one entry.
glMapBufferOES(t, b) ==
    LET c == ctxOf[t]
    IN  /\ c # nobody /\ Now(t).arrayBuffer = b
        /\ "one_mapping" \in Careful => mapped[c] = <<>>
        /\ ~\E i \in DOMAIN mapped[c] : mapped[c][i] = b   \* GL refuses
        /\ sync_context(t)
        /\ mapped' = [mapped EXCEPT ![c] = Append(@, b)]
        /\ gl' = [gl EXCEPT ![hostCtx'].panicked = mapped[c] # <<>>]
        /\ UNCHANGED <<ctxAlive, ctxOwned, ctxOf, ctxThread, tableVars, frameVars>>
        /\ drawn' = <<>>

glUnmapBufferOES(t) ==
    LET c == ctxOf[t]
    IN  /\ c # nobody /\ mapped[c] # <<>> /\ Now(t).arrayBuffer = Head(mapped[c])
        /\ ~Now(t).panicked
        /\ sync_context(t)
        /\ mapped' = [mapped EXCEPT ![c] = <<>>]
        /\ UNCHANGED <<gl, ctxAlive, ctxOwned, ctxOf, ctxThread, tableVars, frameVars>>
        /\ drawn' = <<>>

---------------------------------------------------------------------------
(* Drawables and presenting *)

\* renderbufferStorage:fromDrawable: retains the new drawable, then releases
\* the one it replaces.
renderbufferStorage(t, c, r, d) ==
    /\ ctxOf[t] # nobody /\ c \in ctxAlive /\ CtxRefs(c) > 0
    /\ sync_context(t)
    /\ LET old == bindings[group[c]][r]
           retained == [drawRefs EXCEPT ![d] = @ + 1]
       IN  drawRefs' = IF old = nobody THEN retained ELSE [retained EXCEPT ![old] = @ - 1]
    /\ bindings' = [bindings EXCEPT ![group[c]][r] = d]
    /\ UNCHANGED <<gl, ctxAlive, ctxOwned, ctxOf, ctxThread, group, mapped, drawn, frameVars>>

\* A plausible slip: the time that was lost is caught up with.
limit_framerate_unbounded(due, now) == IF due = -1 THEN now + Interval ELSE due + Interval

\* limit_framerate: when the next frame is due.
limit_framerate(due, now) ==
    IF due = -1 THEN now + Interval
    ELSE IF now > due + Interval
         THEN due + Interval * ((now - due + Interval - 1) \div Interval)
    ELSE due + Interval

FrameHistory == 5

\* A guest that avoids what presenting does not restore.
CarefulPresent(s) ==
    /\ s.declared[Slot("vertex", 0)] = "FLOAT" /\ s.declared[Slot("tex", s.clientUnit)] = "FLOAT"
    /\ s.clientUnit = s.activeUnit

\* presentRenderbuffer: by the fast path, not at all, or by the slow path, and
\* after it the thread sleeps until the frame was due.
presentRenderbuffer(t, c, r, path, cursor) ==
    LET s == Now(t)
        after == CASE path = "fast" -> present_renderbuffer(s, cursor)
                   [] path = "skip" -> s
                   [] path = "slow" -> read_renderbuffer(s)
    IN  /\ ctxOf[t] # nobody /\ c \in ctxAlive /\ bindings[group[c]][r] # nobody
        /\ "arrays" \in Careful => CarefulPresent(s)
        /\ with_ctx_and_mem(t, after) /\ drawn' = <<s>>

\* The time of a present, apart from what it draws.
present_frame_time ==
    /\ frameDue' = limit_framerate(frameDue, clock)
    /\ clock' = IF frameDue > clock THEN frameDue ELSE clock
    /\ clock' <= MaxTime
    /\ frames' = LET all == Append(frames, clock)
                 IN  IF Len(all) > FrameHistory THEN Tail(all) ELSE all
    /\ UNCHANGED <<gl, ctxVars, tableVars, mapped, reached, drawn>>

tick ==
    /\ clock < MaxTime /\ clock' = clock + 1
    /\ UNCHANGED <<gl, ctxVars, tableVars, mapped, reached, drawn, frameDue, frames>>

---------------------------------------------------------------------------
(* The parts of the behaviour, each of which has its own run of steps *)

ContextsNext ==
    \/ \E c \in Contexts :
          \/ initWithAPI(c) \/ guest_releases_context(c)
          \/ \E g \in Contexts : initWithAPI_sharegroup(c, g)
          \/ \E t \in GlThreads, r \in Renderbuffers, d \in Drawables : renderbufferStorage(t, c, r, d)
    \/ \E t \in GlThreads :
          \/ \E c \in Contexts \cup {nobody} : setCurrentContext(t, c)
          \/ ctxOf[t] # nobody /\ glRaster(t, 1)
    \/ make_internal_gl_ctx_current

\* Every setting is given one value other than a new context's.
DrawingNext ==
    \E t \in {x \in GlThreads : ctxOf[x] # nobody} :
        \/ glGeneric(t) \/ glBuffers(t) \/ glFramebuffers(t) \/ glDraw(t)
        \/ glRaster(t, 1) \/ glPoint(t, 1) \/ glFog(t, 1, <<1, 1>>) \/ glLight(t, 1) \/ glMaterial(t, 1)
        \/ glColor(t, 1) \/ glClear(t, 1)
        \/ glMatrices(t, 1) \/ glTextures(t, 1) \/ glTexImages(t, 1) \/ glTexEnv(t, 1)
        \/ \E a \in Arrays, type \in {"FIXED", "FLOAT"} : glPointer(t, a, type)
        \/ \E b \in Buffers : glMapBufferOES(t, b)
        \/ glUnmapBufferOES(t)
        \/ \E c \in Contexts, r \in Renderbuffers :
              \/ \E cursor \in BOOLEAN : presentRenderbuffer(t, c, r, "fast", cursor)
              \/ \E path \in {"skip", "slow"} : presentRenderbuffer(t, c, r, path, FALSE)

FramesNext == present_frame_time \/ tick

GlesSpec == GlesInit /\ [][ContextsNext \/ DrawingNext \/ FramesNext]_glesVars

---------------------------------------------------------------------------
(* Properties *)

\* A GL call of a thread changes the context that this thread made current,
\* whatever the emulator, initWithAPI: and other calls made current meanwhile.
\* It fails for guests without the care "one_thread", as sync_context switches the
\* host's context without recording for which thread, and without "nil_current",
\* as a thread that has no context and sets none clears the flag by which the
\* thread that has one would find the emulator's context in the place of its own.
CallsReachOwnContext == reached[1] = reached[2]

\* A drawable is retained once for every renderbuffer that it backs, in every
\* table, however often it was replaced and whichever context of a sharegroup
\* went first.
Backed(d) ==
    {b \in Contexts \X Renderbuffers :
        bindings[b[1]][b[2]] = d /\ \E x \in ctxAlive : group[x] = b[1]}
DrawablesRetained == \A d \in Drawables : drawRefs[d] = Cardinality(Backed(d))

\* Every array that a draw uses is seen with the type that the guest declared:
\* fixed-point data is converted exactly then, and read from the buffer that
\* the array names; and the fog is never divided by zero.
DrawnAsDeclared ==
    Len(drawn) = 2 =>
        LET s == drawn[1]  seen == drawn[2]
        IN  /\ \A x \in s.enabled :
                  /\ s.declared[x] = "FIXED" <=>
                        seen.pointers[x].at = theCopy \/ seen.pointers[x].type = "FIXED"
                  /\ seen.pointers[x].at = theCopy => seen.read[x] = s.pointers[x].buffer
            /\ "FOG" \in s.caps => seen.fog[1] # seen.fog[2]

\* A draw and a present leave the state that the guest can see, and the marks
\* of its fixed-point arrays, as they were ("To avoid confusing the guest app,
\* we need to be able to undo any state changes we make").
RestoresState == drawn # <<>> => gl[hostCtx] = drawn[1]

\* Of any five frames in a row, the first and the last are at least two
\* intervals apart: a slow stretch is never caught up with by more than one
\* interval ("allow at most an interval's worth of accumulated slop").
FrameRateKept ==
    Len(frames) = FrameHistory => Last(frames) - Head(frames) >= 2 * Interval

\* A draw sees the guest's state as the guest declared it, and leaves it so.
DrawnRight == DrawnAsDeclared /\ RestoresState

\* Presenting keeps the frame rate, and its drawables, no more and no less.
PresentedRight == DrawablesRetained /\ FrameRateKept
=============================================================================
