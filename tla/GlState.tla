------------------------------ MODULE GlState ------------------------------
(***************************************************************************)
(* The state of one OpenGL ES context, and what gles1_on_gl2.rs does to    *)
(* it: OpenGL 2.1 has no fixed-point arrays, so that the layer marks the   *)
(* arrays whose data is, and converts them around every draw.              *)
(*                                                                         *)
(* A state is a record; every operation is a function of it.               *)
(***************************************************************************)
EXTENDS Integers, Sequences, FiniteSets, SequencesExt

CONSTANTS Arrays,         \* the client arrays in use: "vertex", "tex", ...
          Units,          \* texture units, 0 is the first
          Buffers,        \* names of buffer objects
          Capabilities,   \* what Enable and Disable switch
          Settings,       \* groups of other settings
          MaxChanged,     \* bound on what differs from a new context
          MaxDepth        \* bound on matrix stacks

none == "none"
Modes == {"MODELVIEW", "PROJECTION", "TEXTURE"}

\* ARRAYS, in the order in which draws look at them.
ArrayOrder == SelectSeq(<<"color", "normal", "tex", "vertex">>, LAMBDA a : a \in Arrays)

\* There is one texture co-ordinates array per unit.
Slots == {x \in Arrays \X Units : x[1] = "tex" \/ x[2] = 0}
Slot(a, u) == <<a, IF a = "tex" THEN u ELSE 0>>

\* ParamTable: scalars that are floating point, and the others.
FloatSettings == {"fog", "light", "material", "point", "color", "clear"}

newState ==
    [caps |-> {}, settings |-> [g \in Settings |-> 0],
     enabled |-> {},
     pointers |-> [s \in Slots |-> [at |-> 0, buffer |-> none, type |-> "FLOAT"]],
     declared |-> [s \in Slots |-> "FLOAT"],
     arrayBuffer |-> none, clientUnit |-> 0, activeUnit |-> 0,
     pointer_is_fixed_point |-> {}, fixed_point_texture_units |-> {},
     matrixMode |-> "MODELVIEW", stacks |-> [m \in Modes |-> <<0>>],
     textures |-> [u \in Units |-> none], framebuffer |-> none, fog |-> <<0, 1>>,
     panicked |-> FALSE]

---------------------------------------------------------------------------
(* Settings *)

Set(s, g, v) == [s EXCEPT !.settings[g] = v]

\* ParamTable::setx: a fixed-point value is scaled for floating point
\* parameters only.
One == 65536
setx(s, g, x) == Set(s, g, IF g \in FloatSettings THEN x \div One ELSE x)

Enable(s, cap) == [s EXCEPT !.caps = @ \cup {cap}]
Disable(s, cap) == [s EXCEPT !.caps = @ \ {cap}]

\* GetBooleanv, GetFloatv, GetIntegerv, GetTexEnviv, GetPointerv.
Backup(s) == [arrays |-> {a \in Arrays : Slot(a, s.clientUnit) \in s.enabled},
              caps |-> s.caps, matrixMode |-> s.matrixMode, settings |-> s.settings,
              arrayBuffer |-> s.arrayBuffer, framebuffer |-> s.framebuffer,
              texture |-> s.textures[s.activeUnit],
              vertex |-> s.pointers[Slot("vertex", 0)],
              tex |-> s.pointers[Slot("tex", s.clientUnit)]]

EnableClientState(s, a) == [s EXCEPT !.enabled = @ \cup {Slot(a, s.clientUnit)}]
DisableClientState(s, a) == [s EXCEPT !.enabled = @ \ {Slot(a, s.clientUnit)}]
ClientActiveTexture(s, u) == [s EXCEPT !.clientUnit = u]
ActiveTexture(s, u) == [s EXCEPT !.activeUnit = u]

\* The groups: each function checks its enumerations and sets its state.
Raster(s, v) == Set(s, "raster", v)
Point(s, x) == setx(s, "point", x)
Fog(s, x, range) == [setx(s, "fog", x) EXCEPT !.fog = range]
Light(s, x) == setx(s, "light", x)
Material(s, x) == setx(s, "material", x)
Color(s, x) == setx(s, "color", x)
ClearValue(s, x) == setx(s, "clear", x)
TexEnv(s, x) == setx(s, "texEnv", x)
TexParameter(s, x) == setx(s, "texParam", x)

BindBuffer(s, b) == [s EXCEPT !.arrayBuffer = b]
BindTexture(s, t) == [s EXCEPT !.textures[s.activeUnit] = t]
BindFramebufferOES(s, f) == [s EXCEPT !.framebuffer = f]

\* Deleting what is bound resets the binding.
DeleteTexture(s, t) == [s EXCEPT !.textures = [u \in Units |-> IF s.textures[u] = t THEN none ELSE s.textures[u]]]
DeleteFramebuffer(s, f) == [s EXCEPT !.framebuffer = IF @ = f THEN none ELSE @]

\* What the images of a texture hold: formats only the host lacks are decoded
\* (PVRTC, palettes) and then defined like any other.
TexImage2D(s, v) == Set(s, "texImage", v)
CompressedTexImage2D(s, v) == TexImage2D(s, v)
CopyTexImage2D(s, v) == TexImage2D(s, v)

---------------------------------------------------------------------------
(* Matrices *)

MatrixMode(s, m) == [s EXCEPT !.matrixMode = m]
Replace(seq, v) == Append(Front(seq), v)
LoadMatrix(s, v) == [s EXCEPT !.stacks[s.matrixMode] = Replace(@, v)]
MultMatrix(s, v) == [s EXCEPT !.stacks[s.matrixMode] = Replace(@, (Last(@) + v) % 2)]
PushMatrix(s) == [s EXCEPT !.stacks[s.matrixMode] = Append(@, Last(@))]
PopMatrix(s) == [s EXCEPT !.stacks[s.matrixMode] = IF Len(@) = 1 THEN @ ELSE Front(@)]

---------------------------------------------------------------------------
(* Arrays *)

\* A plausible slip: a floating point array leaves the mark of the one before.
Pointer_mark_kept(s, a, type, at) ==
    [s EXCEPT !.pointers[Slot(a, s.clientUnit)] = [at |-> at, buffer |-> s.arrayBuffer, type |-> "FLOAT"],
              !.pointer_is_fixed_point = IF type = "FIXED" THEN @ \cup {a} ELSE @,
              !.fixed_point_texture_units =
                  IF type = "FIXED" /\ a = "tex" THEN @ \cup {s.clientUnit} ELSE @]

\* ColorPointer, NormalPointer, VertexPointer, TexCoordPointer: GL is told
\* FLOAT, and the mark says that draws have to convert.
Pointer(s, a, type, at) ==
    LET units == IF type = "FIXED" THEN s.fixed_point_texture_units \cup {s.clientUnit}
                 ELSE s.fixed_point_texture_units \ {s.clientUnit}
        fixed == IF a = "tex" THEN units # {} ELSE type = "FIXED"
    IN  [s EXCEPT !.pointers[Slot(a, s.clientUnit)] =
                        [at |-> at, buffer |-> s.arrayBuffer, type |-> "FLOAT"],
                  !.pointer_is_fixed_point = IF fixed THEN @ \cup {a} ELSE @ \ {a},
                  !.fixed_point_texture_units = IF a = "tex" THEN units ELSE @]

\* Where a converted copy is.
theCopy == 99
hostQuad == 98

\* translate_fixed_point_arrays, one array: r.s is the state, r.backups what
\* restore_fixed_point_arrays needs.  An array of another unit than the active
\* one is left alone; the one of the active unit is reached by changing the
\* client's unit, which an array that is off leaves changed.  The data of an
\* array in a buffer is read by mapping whatever is bound to ARRAY_BUFFER.
translate_one(r, a) ==
    LET s == r.s
        unit == s.activeUnit
        switched == IF a = "tex" THEN ClientActiveTexture(s, unit) ELSE s
        slot == Slot(a, unit)
        p == s.pointers[slot]
        unbound == IF p.buffer # none THEN BindBuffer(switched, none) ELSE switched
        moved == [unbound EXCEPT !.pointers[slot] = [at |-> theCopy, buffer |-> unbound.arrayBuffer,
                                                     type |-> "FLOAT"]]
    IN  IF a \notin s.pointer_is_fixed_point \/ (a = "tex" /\ unit \notin s.fixed_point_texture_units)
        THEN r
        ELSE IF slot \notin s.enabled THEN [r EXCEPT !.s = switched]
        ELSE IF p.buffer # none /\ s.arrayBuffer = none
             THEN [r EXCEPT !.s = [switched EXCEPT !.panicked = TRUE]]
        ELSE [s |-> ClientActiveTexture(moved, s.clientUnit),
              read |-> [r.read EXCEPT ![slot] = IF p.buffer = none THEN none ELSE s.arrayBuffer],
              backups |-> [r.backups EXCEPT ![a] = <<p>>]]

translate_fixed_point_arrays(s) ==
    FoldLeft(translate_one,
             [s |-> s, backups |-> [a \in Arrays |-> <<>>], read |-> [x \in Slots |-> none]],
             ArrayOrder)

restore_fixed_point_arrays(s, backups) ==
    FoldLeft(LAMBDA t, a :
                IF backups[a] = <<>> THEN t
                ELSE LET p == Head(backups[a])
                         bound == IF p.buffer # none THEN BindBuffer(t, p.buffer) ELSE t
                     IN  [bound EXCEPT !.pointers[Slot(a, t.activeUnit)] =
                             [at |-> p.at, buffer |-> bound.arrayBuffer, type |-> "FLOAT"]],
             s, ArrayOrder)

\* DrawArrays, DrawElements: what is drawn, and the state afterwards.
Draw(s) ==
    LET r == translate_fixed_point_arrays(s)
    IN  [drawn |-> [pointers |-> r.s.pointers, fog |-> r.s.fog, read |-> r.read],
         s |-> restore_fixed_point_arrays(r.s, r.backups)]

---------------------------------------------------------------------------
(* Presenting *)

\* present_frame: a textured quad over the window, and the cursor.
present_frame(s, cursor) ==
    LET quad == LoadMatrix(MatrixMode(
                  Pointer(EnableClientState(
                    Pointer(EnableClientState(
                      BindBuffer(Set(Set(s, "raster", 7), "clear", 7), none),
                      "vertex"), "vertex", "FLOAT", hostQuad), "tex"), "tex", "FLOAT", hostQuad),
                  "TEXTURE"), 0)
        drawn == Draw(Enable(quad, "TEXTURE_2D")).s
    IN  IF ~cursor THEN drawn
        ELSE Draw(Pointer(Set(Set(Enable(Disable(DisableClientState(drawn, "tex"), "TEXTURE_2D"), "BLEND"),
                                     "raster", 8), "color", 8), "vertex", "FLOAT", hostQuad)).s

\* What present_renderbuffer does before it draws.
Reset(s) ==
    LET off == [s EXCEPT !.enabled = @ \ {Slot(a, s.clientUnit) : a \in Arrays}, !.caps = {}]
        pushed == FoldLeft(LAMBDA t, m : LoadMatrix(PushMatrix(MatrixMode(t, m)), 0),
                           off, <<"MODELVIEW", "PROJECTION", "TEXTURE">>)
    IN  Set(Set(pushed, "color", 9), "texEnv", 9)

\* Colour; viewport and blending; clear colour; mode of the texture environment.
Restored == {"color", "raster", "clear", "texEnv"}

\* And what it restores.  ARRAY_BUFFER is bound to each array's buffer in turn
\* because the pointer functions use it, and then to what it was.
restore(s, old) ==
    LET arrays == [s EXCEPT !.enabled = (@ \ {Slot(a, s.clientUnit) : a \in Arrays})
                                        \cup {Slot(a, s.clientUnit) : a \in old.arrays},
                            !.caps = old.caps,
                            !.settings = [g \in Settings |-> IF g \in Restored THEN old.settings[g] ELSE @[g]]]
        popped == FoldLeft(LAMBDA t, m : PopMatrix(MatrixMode(t, m)),
                           arrays, <<"MODELVIEW", "PROJECTION", "TEXTURE">>)
        p1 == Pointer(BindBuffer(MatrixMode(popped, old.matrixMode), old.vertex.buffer), "vertex",
                         old.vertex.type, old.vertex.at)
        p2 == Pointer(BindBuffer(p1, old.tex.buffer), "tex", old.tex.type, old.tex.at)
    IN  BindFramebufferOES(BindTexture(BindBuffer(p2, old.arrayBuffer), old.texture), old.framebuffer)

\* The renderbuffer is copied to a new texture through a new framebuffer, the
\* texture is drawn over the window, and both are deleted.
present_renderbuffer(s, cursor) ==
    LET src == BindFramebufferOES(s, "src")
        copied == DeleteFramebuffer(BindTexture(src, "copy"), "src")
        shown == DeleteTexture(present_frame(Reset(copied), cursor), "copy")
    IN  restore(shown, Backup(s))

\* The slow path: the pixels are read, through a new framebuffer.
read_renderbuffer(s) ==
    BindFramebufferOES(DeleteFramebuffer(BindFramebufferOES(s, "src"), "src"), s.framebuffer)
===========================================================================
