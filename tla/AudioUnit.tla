---- MODULE AudioUnit ----
(***************************************************************************)
(* Audio units (audio_toolbox/audio_unit.rs, audio_components.rs): each    *)
(* pass of the main run loop renders the units added to it, by calling the *)
(* app's callback for as many frames as time has passed and queueing them  *)
(* on the unit's OpenAL source.                                            *)
(*                                                                         *)
(* The callback is guest code: it, or another thread meanwhile, makes any  *)
(* call, and may run the run loop again, so that passes nest.  One unit of *)
(* time is one frame.                                                      *)
(***************************************************************************)
EXTENDS Integers, Sequences, FiniteSets, SequencesExt

CONSTANTS
    Units,          \* the component instances there may be
    MaxSources,     \* bound: OpenAL sources generated
    MaxInLoop,      \* bound: entries of the run loop's list
    MaxNow,         \* bound: how long time is followed
    MaxFrames       \* the most that is rendered at once (100 ms)

ASSUME UnitsAssumption == "none" \notin Units /\ MaxFrames \in Nat

VARIABLES
    instance,   \* audio_component_instances: the host object of each unit
    in_loop,    \* the run loop's audio_units
    passes,     \* the passes of the run loop that are under way, the innermost last:
                \* audio_units_tmp, and what render_audio_unit holds across the callback
    sources,    \* the OpenAL sources there are
    generated,  \* how many have been generated
    clock,      \* the time
    rendered,   \* what each unit has rendered since it was started, and when that was
    misused,    \* the units that the guest has misused, see Misuses
    unit_panic  \* the unit that a pass panicked on

unitVars == <<instance, in_loop, passes, sources, generated, clock, rendered, misused, unit_panic>>

NoInstance == [exists |-> FALSE, started |-> FALSE, ready |-> FALSE, source |-> 0,
               last |-> 0, handler |-> FALSE]

NoRender == [unit |-> "none", source |-> 0, at |-> 0]

UnitInit ==
    /\ instance = [u \in Units |-> NoInstance]
    /\ in_loop = <<>> /\ passes = <<>>
    /\ sources = {} /\ generated = 0
    /\ clock = 0
    /\ rendered = [u \in Units |-> [frames |-> 0, since |-> 0]]
    /\ misused = {} /\ unit_panic = "none"

\* Whether guest code runs: outside the run loop, or in a callback.
GuestTurn == unit_panic = "none" /\ (passes # <<>> => Last(passes).now.unit # "none")

InCallback(u) == \E i \in DOMAIN passes : passes[i].now.unit = u
ToRender(u) == \E i \in DOMAIN passes : u \in Range(passes[i].todo)

\* A call is right or wrong of one unit: it is not for a unit to be started that
\* has no callback or format, or is started; to be stopped by its own callback; or
\* to be disposed of while it is started or in its callback, or when the run loop
\* has it in its list or a pass still has it to render.
Misuses(u, wrong) == misused' = IF wrong THEN misused \cup {u} ELSE misused

UnitPanics(u) ==
    /\ unit_panic' = u
    /\ UNCHANGED <<instance, in_loop, passes, sources, generated, clock, rendered, misused>>

---------------------------------------------------------------------------
(* The guest's calls.                                                      *)

AudioComponentInstanceNew(u) ==
    /\ GuestTurn /\ ~instance[u].exists
    /\ instance' = [instance EXCEPT ![u] = [NoInstance EXCEPT !.exists = TRUE]]
    /\ UNCHANGED <<in_loop, passes, sources, generated, clock, rendered, misused, unit_panic>>

\* AudioUnitSetProperty, for the callback and the stream format.
AudioUnitSetProperty(u) ==
    /\ GuestTurn /\ instance[u].exists
    /\ instance' = [instance EXCEPT ![u].ready = TRUE]
    /\ UNCHANGED <<in_loop, passes, sources, generated, clock, rendered, misused, unit_panic>>

\* AudioUnitInitialize: the unit joins the list, a second time too.
AudioUnitInitialize(u) ==
    /\ GuestTurn /\ instance[u].exists /\ Len(in_loop) < MaxInLoop
    /\ in_loop' = Append(in_loop, u)
    /\ UNCHANGED <<instance, passes, sources, generated, clock, rendered, misused, unit_panic>>

AudioUnitUninitialize(u) ==
    /\ GuestTurn /\ instance[u].exists /\ u \in Range(in_loop)
    /\ in_loop' = RemoveFirst(in_loop, u)
    /\ UNCHANGED <<instance, passes, sources, generated, clock, rendered, misused, unit_panic>>

\* AudioOutputUnitStart: a new source, whatever the unit had before.
AudioOutputUnitStart(u) ==
    /\ GuestTurn /\ instance[u].exists /\ generated < MaxSources
    /\ Misuses(u, ~instance[u].ready \/ instance[u].started)
    /\ generated' = generated + 1
    /\ sources' = sources \cup {generated + 1}
    /\ instance' = [instance EXCEPT ![u].source = generated + 1, ![u].last = clock,
                                    ![u].started = TRUE]
    /\ rendered' = [rendered EXCEPT ![u] = [frames |-> 0, since |-> clock]]
    /\ UNCHANGED <<in_loop, passes, clock, unit_panic>>

\* A plausible slip: the source is forgotten, not deleted.
AudioOutputUnitStopKeeps(u) ==
    /\ GuestTurn /\ instance[u].exists
    /\ Misuses(u, InCallback(u))
    /\ instance' = [instance EXCEPT ![u].started = FALSE, ![u].source = 0]
    /\ UNCHANGED <<in_loop, passes, sources, generated, clock, rendered, unit_panic>>

\* AudioOutputUnitStop: the source is deleted with what it still had to play.
AudioOutputUnitStop(u) ==
    /\ GuestTurn /\ instance[u].exists
    /\ Misuses(u, InCallback(u))
    /\ instance' = [instance EXCEPT ![u].started = FALSE, ![u].source = 0]
    /\ sources' = sources \ {instance[u].source}
    /\ UNCHANGED <<in_loop, passes, generated, clock, rendered, unit_panic>>

\* AudioComponentInstanceDispose: only the host object goes.
AudioComponentInstanceDispose(u) ==
    /\ GuestTurn /\ instance[u].exists
    /\ Misuses(u, \/ InCallback(u) \/ instance[u].started
                  \/ u \in Range(in_loop) \/ ToRender(u))
    /\ instance' = [instance EXCEPT ![u] = NoInstance]
    /\ UNCHANGED <<in_loop, passes, sources, generated, clock, rendered, unit_panic>>

---------------------------------------------------------------------------
(* The run loop.                                                           *)

\* A pass of the run loop begins, from the app or within a callback: it takes
\* a copy of the list.
PassBegins ==
    /\ GuestTurn /\ Len(passes) < 2
    /\ passes' = Append(passes, [todo |-> in_loop, now |-> NoRender])
    /\ UNCHANGED <<instance, in_loop, sources, generated, clock, rendered, misused, unit_panic>>

Rendering == unit_panic = "none" /\ passes # <<>> /\ Last(passes).now.unit = "none"

\* Whether a unit is rendered: it is started, and its callback does not run.
Renders(u) == instance[u].started /\ ~instance[u].handler

\* render_audio_unit, up to the callback: the source gives back what it has
\* played, the frames due are worked out and their buffers allocated.
RenderBegins ==
    /\ Rendering /\ Last(passes).todo # <<>>
    /\ LET u == Head(Last(passes).todo)
           rest == [Last(passes) EXCEPT !.todo = Tail(@)]
       IN IF ~instance[u].exists \/ (Renders(u) /\ ~instance[u].ready)
          THEN UnitPanics(u)
          ELSE IF ~Renders(u)
          THEN /\ passes' = [passes EXCEPT ![Len(passes)] = rest]
               /\ UNCHANGED <<instance, in_loop, sources, generated, clock, rendered, misused, unit_panic>>
          ELSE /\ passes' = [passes EXCEPT ![Len(passes)] =
                               [rest EXCEPT !.now = [unit |-> u, source |-> instance[u].source,
                                                     at |-> clock]]]
               /\ instance' = [instance EXCEPT ![u].handler = TRUE]
               /\ rendered' = [rendered EXCEPT ![u].frames =
                                 @ + (IF clock - instance[u].last < MaxFrames
                                      THEN clock - instance[u].last ELSE MaxFrames)]
               /\ UNCHANGED <<in_loop, sources, generated, clock, misused, unit_panic>>

\* The callback returns: what it rendered is queued on the source the unit
\* had when it was called, and the time it was rendered for is kept.
RenderEnds ==
    /\ unit_panic = "none" /\ passes # <<>> /\ Last(passes).now.unit # "none"
    /\ LET now == Last(passes).now
           u == now.unit
       IN IF now.source \notin sources \/ ~instance[u].exists
          THEN UnitPanics(u)
          ELSE /\ instance' = [instance EXCEPT ![u].handler = FALSE, ![u].last = now.at]
               /\ passes' = [passes EXCEPT ![Len(passes)].now = NoRender]
               /\ UNCHANGED <<in_loop, sources, generated, clock, rendered, misused, unit_panic>>

PassEnds ==
    /\ Rendering /\ Last(passes).todo = <<>>
    /\ passes' = Front(passes)
    /\ UNCHANGED <<instance, in_loop, sources, generated, clock, rendered, misused, unit_panic>>

TimePasses ==
    /\ clock < MaxNow /\ unit_panic = "none"
    /\ clock' = clock + 1
    /\ UNCHANGED <<instance, in_loop, passes, sources, generated, rendered, misused, unit_panic>>

UnitNext ==
    \/ \E u \in Units :
          \/ AudioComponentInstanceNew(u) \/ AudioUnitSetProperty(u)
          \/ AudioUnitInitialize(u) \/ AudioUnitUninitialize(u)
          \/ AudioOutputUnitStart(u) \/ AudioOutputUnitStop(u)
          \/ AudioComponentInstanceDispose(u)
    \/ PassBegins \/ RenderBegins \/ RenderEnds \/ PassEnds \/ TimePasses

UnitSpec == UnitInit /\ [][UnitNext]_unitVars

---------------------------------------------------------------------------

\* A unit that the guest uses rightly is rendered soundly, whatever happens to
\* the others in its callback or theirs, and in passes inside of passes
\* (render_audio_unit): a pass never panics on it, its source is there and its
\* own, the flag that keeps its callback from being entered again is exact, and
\* no time is rendered twice.  When all are, no source is left behind.
UnitsRenderOnce ==
    /\ unit_panic # "none" => unit_panic \in misused
    /\ misused = {} => sources = {instance[u].source : u \in {x \in Units : instance[x].started}}
    /\ \A u \in Units \ misused :
          /\ instance[u].handler = InCallback(u)
          /\ instance[u].started =>
                /\ instance[u].source \in sources
                /\ \A v \in Units \ {u} : instance[v].source # instance[u].source
                /\ rendered[u].frames <= clock - rendered[u].since
====
