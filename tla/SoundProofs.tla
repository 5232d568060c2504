----------------------------- MODULE SoundProofs -----------------------------
(***************************************************************************)
(* What TLAPS proves of sound, for any numbers of buffers, units and       *)
(* sources: an audio queue and its OpenAL source stay in step, audio units *)
(* render what exists, each moment once, and a player plays its file in    *)
(* order, as often as it was asked to.                                     *)
(***************************************************************************)
EXTENDS AudioQueue, AudioUnit, Player, SequenceLemmas

-----------------------------------------------------------------------------
(* An audio unit: the invariant                                            *)

Instance == [exists : BOOLEAN, started : BOOLEAN, ready : BOOLEAN, source : Nat,
             last : Nat, handler : BOOLEAN]
Now == [unit : Units \cup {"none"}, source : Nat, at : Nat]
Pass == [todo : Seq(Units), now : Now]

UnitTypeOK ==
    /\ instance \in [Units -> Instance]
    /\ in_loop \in Seq(Units) /\ passes \in Seq(Pass)
    /\ sources \in SUBSET Nat /\ generated \in Nat /\ clock \in Nat
    /\ rendered \in [Units -> [frames : Int, since : Nat]]
    /\ misused \in SUBSET Units

\* A unit, if it is not misused: a started one has what rendering needs and a source of its own; what it has
\* rendered, unless its callback runs, is no more than the time up to the last
\* rendering.
UnitSound(u) ==
    /\ instance[u].started => /\ instance[u].exists /\ instance[u].ready
                              /\ instance[u].source \in 1 .. generated
                              /\ rendered[u].since <= instance[u].last
                              /\ instance[u].last <= clock
    /\ ~instance[u].started => instance[u].source = 0 /\ ~instance[u].handler
    /\ instance[u].started /\ ~instance[u].handler =>
          rendered[u].frames <= instance[u].last - rendered[u].since

\* While a pass is in the callback of a unit that is not misused, the unit is as
\* the pass found it, with its source, and what it has rendered is no more than
\* the time up to then.
PassSound(i) ==
    passes[i].now.unit \in Units \ misused =>
       LET now == passes[i].now
           u == now.unit
       IN /\ instance[u].started /\ instance[u].handler /\ now.source = instance[u].source
          /\ instance[u].last <= now.at /\ now.at <= clock
          /\ rendered[u].frames <= now.at - rendered[u].since

\* Sources are given out one by one.  A unit that is not misused has its source;
\* and when all are used rightly, each source has its unit.
SourcesInv ==
    /\ \A u \in Units : instance[u].source <= generated
    /\ \A u, v \in Units : instance[u].source = instance[v].source /\ instance[u].source # 0 => u = v
    /\ \A u \in Units \ misused : instance[u].started => instance[u].source \in sources
    /\ misused = {} =>
          \A s \in sources : \E u \in Units : instance[u].started /\ instance[u].source = s

\* A callback runs in one pass at a time.
CallbacksInv ==
    /\ \A u \in Units \ misused : instance[u].handler => \E i \in 1 .. Len(passes) : passes[i].now.unit = u
    /\ \A i, j \in 1 .. Len(passes) :
          passes[i].now.unit = passes[j].now.unit /\ passes[i].now.unit \in Units \ misused => i = j

ListedExist ==
    /\ \A k \in 1 .. Len(in_loop) : in_loop[k] \notin misused => instance[in_loop[k]].exists
    /\ \A i \in 1 .. Len(passes) : \A k \in 1 .. Len(passes[i].todo) :
          passes[i].todo[k] \notin misused => instance[passes[i].todo[k]].exists

PanicsJustly == unit_panic = "none" \/ unit_panic \in misused

UnitInv ==
    /\ UnitTypeOK /\ PanicsJustly
    /\ \A u \in Units \ misused : UnitSound(u)
    /\ \A i \in 1 .. Len(passes) : PassSound(i)
    /\ SourcesInv /\ CallbacksInv /\ ListedExist

-----------------------------------------------------------------------------
(* What holds in every state                                               *)

\* The passes are a stack of passes.
LEMMA PassesTyped ==
  ASSUME UnitTypeOK
  PROVE  /\ Len(passes) \in Nat /\ DOMAIN passes = 1 .. Len(passes)
         /\ \A i \in 1 .. Len(passes) :
               /\ passes[i] \in Pass /\ passes[i].now \in Now
               /\ passes[i].now.unit \in Units \cup {"none"}
               /\ passes[i].todo \in Seq(Units)
         /\ Len(in_loop) \in Nat /\ DOMAIN in_loop = 1 .. Len(in_loop)
<1>1. passes \in Seq(Pass) /\ in_loop \in Seq(Units)
  BY DEF UnitTypeOK
<1>2. Len(passes) \in Nat /\ DOMAIN passes = 1 .. Len(passes) /\ \A i \in 1 .. Len(passes) : passes[i] \in Pass
  BY <1>1, LenProperties, ElementOfSeq
<1>3. Len(in_loop) \in Nat /\ DOMAIN in_loop = 1 .. Len(in_loop)
  BY <1>1, LenProperties
<1> QED BY <1>2, <1>3 DEF Pass, Now

\* The flag of a unit that is not misused tells whether its callback runs, and
\* then the unit is started.
LEMMA HandlerExact ==
  ASSUME UnitInv, UnitsAssumption, NEW u \in Units, u \notin misused
  PROVE  /\ instance[u].handler \in BOOLEAN /\ (instance[u].handler <=> InCallback(u))
         /\ instance[u].handler => instance[u].started
         /\ ~instance[u].handler => \A i \in 1 .. Len(passes) : passes[i].now.unit # u
<1>1. UnitTypeOK /\ UnitSound(u) /\ CallbacksInv /\ \A i \in 1 .. Len(passes) : PassSound(i)
  BY DEF UnitInv
<1>2. instance[u] \in Instance
  BY <1>1 DEF UnitTypeOK
<1>3. instance[u].handler \in BOOLEAN /\ instance[u].started \in BOOLEAN
  BY <1>2 DEF Instance
<1>4. DOMAIN passes = 1 .. Len(passes)
  BY <1>1, PassesTyped
<1>5. \A i \in 1 .. Len(passes) : passes[i].now.unit = u => instance[u].handler
  BY <1>1 DEF PassSound
<1>6. instance[u].handler => \E i \in 1 .. Len(passes) : passes[i].now.unit = u
  BY <1>1 DEF CallbacksInv
<1>7. instance[u].handler => instance[u].started
  BY <1>1, <1>3 DEF UnitSound
<1> QED BY <1>3, <1>4, <1>5, <1>6, <1>7 DEF InCallback

\* One unit changes, the others do not.
LEMMA OneUnit ==
  ASSUME UnitTypeOK, NEW u \in Units, NEW x \in Instance, instance' = [instance EXCEPT ![u] = x]
  PROVE  /\ instance' \in [Units -> Instance] /\ instance'[u] = x
         /\ \A v \in Units : v # u => instance'[v] = instance[v]
BY DEF UnitTypeOK

\* The property is what the invariant says of the units, their sources and their callbacks.
LEMMA Sound ==
  ASSUME UnitInv, UnitsAssumption
  PROVE  UnitsRenderOnce
<1>1. PanicsJustly /\ UnitTypeOK /\ SourcesInv /\ CallbacksInv
  BY DEF UnitInv
<1>2. unit_panic # "none" => unit_panic \in misused
  BY <1>1 DEF PanicsJustly
<1>3. ASSUME misused = {}
      PROVE  sources = {instance[u].source : u \in {x \in Units : instance[x].started}}
  <2>1. \A s \in sources : \E u \in {x \in Units : instance[x].started} : s = instance[u].source
    BY <1>1, <1>3 DEF SourcesInv
  <2>2. \A u \in {x \in Units : instance[x].started} : instance[u].source \in sources
    BY <1>1, <1>3 DEF SourcesInv
  <2> QED BY <2>1, <2>2
<1>4. ASSUME NEW u \in Units \ misused PROVE instance[u].handler = InCallback(u)
  <2>1. instance[u].handler \in BOOLEAN /\ (instance[u].handler <=> InCallback(u))
    BY HandlerExact
  <2>2. InCallback(u) \in BOOLEAN
    BY DEF InCallback
  <2> QED BY <2>1, <2>2
<1>5. ASSUME NEW u \in Units \ misused, instance[u].started
      PROVE  /\ instance[u].source \in sources
             /\ \A v \in Units \ {u} : instance[v].source # instance[u].source
  <2>1. instance[u].source \in 1 .. generated /\ generated \in Nat
    BY <1>1, <1>5 DEF UnitInv, UnitSound, UnitTypeOK
  <2>2. instance[u].source # 0
    BY <2>1
  <2> QED BY <1>1, <1>5, <2>2 DEF SourcesInv
<1>6. ASSUME NEW u \in Units \ misused, instance[u].started
      PROVE  rendered[u].frames <= clock - rendered[u].since
  <2>1. /\ rendered[u].frames \in Int /\ rendered[u].since \in Nat /\ clock \in Nat
        /\ instance[u].last \in Nat /\ instance[u].handler \in BOOLEAN
    BY <1>1 DEF UnitTypeOK, Instance
  <2>2. UnitSound(u)
    BY DEF UnitInv
  <2>3. CASE ~instance[u].handler
    <3>1. rendered[u].frames <= instance[u].last - rendered[u].since /\ instance[u].last <= clock
      BY <2>2, <2>3, <1>6 DEF UnitSound
    <3> QED BY <3>1, <2>1
  <2>4. CASE instance[u].handler
    <3>1. PICK i \in 1 .. Len(passes) : passes[i].now.unit = u
      BY <1>1, <2>4 DEF CallbacksInv
    <3>2. passes[i].now.at \in Nat
      BY <1>1, PassesTyped DEF Now
    <3>3. PassSound(i)
      BY DEF UnitInv
    <3>4. passes[i].now.at <= clock /\ rendered[u].frames <= passes[i].now.at - rendered[u].since
      BY <3>1, <3>3 DEF PassSound
    <3> QED BY <3>4, <3>2, <2>1
  <2> QED BY <2>1, <2>3, <2>4
<1> QED BY <1>2, <1>3, <1>4, <1>5, <1>6 DEF UnitsRenderOnce

\* It holds of the start, when there is no unit.
LEMMA UnitsStart ==
  ASSUME UnitInit, UnitsAssumption
  PROVE  UnitInv
<1>1. NoInstance \in Instance
  BY DEF NoInstance, Instance
<1>2. /\ \A u \in Units : instance[u] = NoInstance /\ rendered[u] = [frames |-> 0, since |-> 0]
      /\ Len(passes) = 0 /\ Len(in_loop) = 0 /\ PanicsJustly
      /\ sources = {} /\ generated = 0 /\ clock = 0
  BY DEF UnitInit, PanicsJustly
<1>3. UnitTypeOK
  BY <1>1 DEF UnitInit, UnitTypeOK
<1>4. \A u \in Units : UnitSound(u)
  BY <1>2 DEF UnitSound, NoInstance
<1>5. \A i \in 1 .. Len(passes) : PassSound(i)
  BY <1>2
<1>6. SourcesInv
  BY <1>2 DEF SourcesInv, NoInstance
<1>7. CallbacksInv /\ ListedExist
  BY <1>2 DEF CallbacksInv, ListedExist, NoInstance
<1> QED BY <1>2, <1>3, <1>4, <1>5, <1>6, <1>7 DEF UnitInv

-----------------------------------------------------------------------------
(* The guest's calls                                                       *)

\* A call that changes one unit, which is misused or whose callback does not run,
\* keeps what holds of the other units and of the passes.
LEMMA QuietUnitChanges ==
  ASSUME UnitInv, UnitsAssumption, NEW u \in Units, NEW x \in Instance,
         instance' = [instance EXCEPT ![u] = x],
         UNCHANGED <<in_loop, passes, clock, unit_panic>>,
         sources' \in SUBSET Nat, generated' \in Nat, generated <= generated',
         rendered' \in [Units -> [frames : Int, since : Nat]],
         \A v \in Units : v # u => rendered'[v] = rendered[v],
         misused' = misused \/ misused' = misused \cup {u},
         u \notin misused' => ~instance[u].handler /\ ~x.handler /\ UnitSound(u)'
  PROVE  /\ UnitTypeOK' /\ CallbacksInv' /\ PanicsJustly'
         /\ \A v \in Units \ misused' : UnitSound(v)'
         /\ \A i \in 1 .. Len(passes') : PassSound(i)'
         /\ instance'[u] = x /\ \A v \in Units : v # u => instance'[v] = instance[v]
<1>1. /\ UnitTypeOK /\ CallbacksInv /\ PanicsJustly
      /\ \A v \in Units \ misused : UnitSound(v)
      /\ \A i \in 1 .. Len(passes) : PassSound(i)
  BY DEF UnitInv
<1>2. /\ instance' \in [Units -> Instance] /\ instance'[u] = x
      /\ \A v \in Units : v # u => instance'[v] = instance[v]
  BY <1>1, OneUnit
<1>3. misused \subseteq misused' /\ misused' \in SUBSET Units /\ PanicsJustly'
  BY <1>1 DEF UnitTypeOK, PanicsJustly
<1>4. u \notin misused' => \A i \in 1 .. Len(passes) : passes[i].now.unit # u
  BY <1>3, HandlerExact
<1>5. UnitTypeOK'
  BY <1>1, <1>2, <1>3 DEF UnitTypeOK
<1>6. ASSUME NEW v \in Units \ misused', v # u PROVE UnitSound(v)'
  <2>1. UnitSound(v) /\ instance'[v] = instance[v] /\ rendered'[v] = rendered[v] /\ clock' = clock
    BY <1>1, <1>2, <1>3, <1>6
  <2>2. instance[v].source \in Nat /\ generated \in Nat
    BY <1>1 DEF UnitTypeOK, Instance
  <2>3. instance[v].source \in 1 .. generated => instance[v].source \in 1 .. generated'
    BY <2>2
  <2> QED BY <2>1, <2>3 DEF UnitSound
<1>7. ASSUME NEW i \in 1 .. Len(passes'), passes[i].now.unit \in Units \ misused' PROVE PassSound(i)'
  <2>1. PassSound(i) /\ passes[i].now.unit # u /\ passes[i].now.unit \in Units \ misused
    BY <1>1, <1>3, <1>4, <1>7
  <2> QED BY <2>1, <1>2 DEF PassSound
<1>8. ASSUME NEW i \in 1 .. Len(passes') PROVE PassSound(i)'
  BY <1>7 DEF PassSound
<1>9. CallbacksInv'
  <2>1. ASSUME NEW v \in Units \ misused', instance'[v].handler
        PROVE  \E i \in 1 .. Len(passes') : passes'[i].now.unit = v
    BY <2>1, <1>1, <1>2, <1>3 DEF CallbacksInv
  <2>2. \A i, j \in 1 .. Len(passes') :
           passes'[i].now.unit = passes'[j].now.unit /\ passes'[i].now.unit \in Units \ misused' => i = j
    BY <1>1, <1>3 DEF CallbacksInv
  <2> QED BY <2>1, <2>2 DEF CallbacksInv
<1> QED BY <1>2, <1>3, <1>5, <1>6, <1>8, <1>9

\* A component instance is made: the unit is there, and stopped.
LEMMA NewUnitStep ==
  ASSUME UnitInv, UnitsAssumption, NEW u \in Units, AudioComponentInstanceNew(u)
  PROVE  UnitInv'
<1> DEFINE x == [NoInstance EXCEPT !.exists = TRUE]
<1>1. /\ UnitTypeOK /\ SourcesInv /\ ListedExist
      /\ u \notin misused => UnitSound(u)
  BY DEF UnitInv
<1>2. /\ x \in Instance /\ x.exists /\ ~x.started /\ x.source = 0 /\ ~x.handler
  BY DEF NoInstance, Instance
<1>3. /\ instance' = [instance EXCEPT ![u] = x]
      /\ UNCHANGED <<in_loop, passes, sources, generated, clock, rendered, misused, unit_panic>>
      /\ ~instance[u].exists
  BY DEF AudioComponentInstanceNew
<1> HIDE DEF x
<1>4. u \notin misused => ~instance[u].started /\ ~instance[u].handler
  <2>1. instance[u].started \in BOOLEAN /\ instance[u].handler \in BOOLEAN
    BY <1>1 DEF UnitTypeOK, Instance
  <2> QED BY <2>1, <1>1, <1>3 DEF UnitSound
<1>5. instance'[u] = x
  BY <1>1, <1>2, <1>3, OneUnit
<1>6. UnitSound(u)'
  BY <1>2, <1>5 DEF UnitSound
<1>7. sources' \in SUBSET Nat /\ generated' \in Nat /\ generated <= generated'
      /\ rendered' \in [Units -> [frames : Int, since : Nat]]
  BY <1>1, <1>3 DEF UnitTypeOK
<1>8. /\ UnitTypeOK' /\ CallbacksInv' /\ PanicsJustly'
      /\ \A v \in Units \ misused' : UnitSound(v)'
      /\ \A i \in 1 .. Len(passes') : PassSound(i)'
      /\ \A v \in Units : v # u => instance'[v] = instance[v]
  BY <1>2, <1>3, <1>4, <1>6, <1>7, QuietUnitChanges
<1>9. SourcesInv'
  <2>1. generated \in Nat /\ instance[u].source \in Nat
    BY <1>1 DEF UnitTypeOK, Instance
  <2> QED BY <2>1, <1>1, <1>2, <1>3, <1>4, <1>5, <1>8 DEF SourcesInv
<1>10. ListedExist'
  BY <1>1, <1>2, <1>3, <1>5, <1>8 DEF ListedExist
<1> QED BY <1>1, <1>3, <1>8, <1>9, <1>10 DEF UnitInv

\* A unit that is started, or is being rendered, has what rendering needs already.
LEMMA SetPropertyStep ==
  ASSUME UnitInv, UnitsAssumption, NEW u \in Units, AudioUnitSetProperty(u)
  PROVE  UnitInv'
<1> DEFINE x == [instance[u] EXCEPT !.ready = TRUE]
<1>1. /\ UnitTypeOK /\ PanicsJustly /\ SourcesInv /\ CallbacksInv /\ ListedExist
      /\ \A v \in Units \ misused : UnitSound(v)
      /\ \A i \in 1 .. Len(passes) : PassSound(i)
  BY DEF UnitInv
<1>2. /\ x \in Instance /\ x.ready /\ x.exists = instance[u].exists
      /\ x.started = instance[u].started /\ x.source = instance[u].source
      /\ x.last = instance[u].last /\ x.handler = instance[u].handler
  BY <1>1 DEF UnitTypeOK, Instance
<1>3. /\ instance' = [instance EXCEPT ![u] = x]
      /\ UNCHANGED <<in_loop, passes, sources, generated, clock, rendered, misused, unit_panic>>
  BY DEF AudioUnitSetProperty
<1> HIDE DEF x
<1>4. /\ instance' \in [Units -> Instance] /\ instance'[u] = x
      /\ \A v \in Units : v # u => instance'[v] = instance[v]
  BY <1>1, <1>2, <1>3, OneUnit
<1>5. UnitTypeOK'
  BY <1>1, <1>3, <1>4 DEF UnitTypeOK
<1>6. ASSUME NEW v \in Units \ misused PROVE UnitSound(v)'
  BY <1>1, <1>2, <1>3, <1>4 DEF UnitSound
<1>7. ASSUME NEW i \in 1 .. Len(passes') PROVE PassSound(i)'
  <2>1. PassSound(i) /\ passes'[i] = passes[i] /\ misused' = misused
    BY <1>1, <1>3
  <2> QED BY <2>1, <1>2, <1>3, <1>4 DEF PassSound
<1>8. \A v \in Units : /\ instance'[v].started = instance[v].started
                       /\ instance'[v].source = instance[v].source
                       /\ instance'[v].handler = instance[v].handler
  BY <1>2, <1>4
<1>9. SourcesInv' /\ CallbacksInv'
  BY <1>1, <1>3, <1>8 DEF SourcesInv, CallbacksInv
<1>10. ListedExist'
  BY <1>1, <1>2, <1>3, <1>4 DEF ListedExist
<1>11. PanicsJustly'
  BY <1>1, <1>3 DEF PanicsJustly
<1> QED BY <1>1, <1>3, <1>5, <1>6, <1>7, <1>9, <1>10, <1>11 DEF UnitInv

\* A unit starts on a source that no unit has; if it is used rightly it was
\* stopped before.
LEMMA StartStep ==
  ASSUME UnitInv, UnitsAssumption, NEW u \in Units, AudioOutputUnitStart(u)
  PROVE  UnitInv'
<1> DEFINE x == [instance[u] EXCEPT !.source = generated + 1, !.last = clock, !.started = TRUE]
<1>1. /\ UnitTypeOK /\ SourcesInv /\ ListedExist
      /\ \A v \in Units \ misused : UnitSound(v)
  BY DEF UnitInv
<1>2. /\ generated \in Nat /\ clock \in Nat /\ sources \in SUBSET Nat
      /\ instance[u].started \in BOOLEAN /\ instance[u].handler \in BOOLEAN
      /\ \A v \in Units : instance[v].source \in Nat
  BY <1>1 DEF UnitTypeOK, Instance
<1>3. /\ instance[u].exists
      /\ misused' = misused \/ misused' = misused \cup {u}
      /\ u \notin misused' => u \notin misused /\ instance[u].ready /\ ~instance[u].started
      /\ generated' = generated + 1 /\ sources' = sources \cup {generated + 1}
      /\ instance' = [instance EXCEPT ![u] = x]
      /\ rendered' = [rendered EXCEPT ![u] = [frames |-> 0, since |-> clock]]
      /\ UNCHANGED <<in_loop, passes, clock, unit_panic>>
  BY DEF AudioOutputUnitStart, Misuses
<1>4. u \notin misused' => ~instance[u].handler
  BY <1>1, <1>2, <1>3 DEF UnitSound
<1>5. /\ x \in Instance /\ x.exists /\ x.ready = instance[u].ready /\ x.started
      /\ x.source = generated + 1 /\ x.last = clock /\ x.handler = instance[u].handler
  <2>1. instance[u] \in Instance /\ generated + 1 \in Nat
    BY <1>1, <1>2 DEF UnitTypeOK
  <2> QED BY <2>1, <1>2, <1>3 DEF Instance
<1> HIDE DEF x
<1>6. instance'[u] = x
  BY <1>1, <1>3, <1>5, OneUnit
<1>7. /\ rendered' \in [Units -> [frames : Int, since : Nat]]
      /\ rendered'[u] = [frames |-> 0, since |-> clock]
      /\ \A v \in Units : v # u => rendered'[v] = rendered[v]
  <2>1. [frames |-> 0, since |-> clock] \in [frames : Int, since : Nat]
    BY <1>2
  <2>2. rendered \in [Units -> [frames : Int, since : Nat]]
    BY <1>1 DEF UnitTypeOK
  <2> QED BY <2>1, <2>2, <1>3
<1>8. u \notin misused' => UnitSound(u)'
  <2>1. rendered'[u].frames = 0 /\ rendered'[u].since = clock
    BY <1>7
  <2>2. x.source \in 1 .. generated' /\ clock <= clock /\ 0 <= clock - clock
    BY <1>2, <1>3, <1>5
  <2> QED BY <2>1, <2>2, <1>3, <1>5, <1>6 DEF UnitSound
<1>9. /\ sources' \in SUBSET Nat /\ generated' \in Nat /\ generated <= generated'
      /\ u \notin misused' => ~instance[u].handler /\ ~x.handler /\ UnitSound(u)'
  BY <1>2, <1>3, <1>4, <1>5, <1>8
<1>10. /\ UnitTypeOK' /\ CallbacksInv' /\ PanicsJustly'
       /\ \A v \in Units \ misused' : UnitSound(v)'
       /\ \A i \in 1 .. Len(passes') : PassSound(i)'
       /\ \A v \in Units : v # u => instance'[v] = instance[v]
  BY <1>3, <1>5, <1>7, <1>9, QuietUnitChanges
<1>11. \A v \in Units : instance[v].source <= generated
  BY <1>1 DEF SourcesInv
<1>12. \A v \in Units : instance[v].source # generated + 1 /\ instance[v].source <= generated + 1
  BY <1>11, <1>2
<1>13. SourcesInv'
  <2>1. \A v \in Units : instance'[v].source <= generated'
    BY <1>2, <1>3, <1>5, <1>6, <1>10, <1>12
  <2>2. \A v, w \in Units :
           instance'[v].source = instance'[w].source /\ instance'[v].source # 0 => v = w
    BY <1>1, <1>5, <1>6, <1>10, <1>12 DEF SourcesInv
  <2>3. \A v \in Units \ misused' : instance'[v].started => instance'[v].source \in sources'
    BY <1>1, <1>3, <1>5, <1>6, <1>10 DEF SourcesInv
  <2>4. ASSUME misused' = {}, NEW s \in sources'
        PROVE  \E v \in Units : instance'[v].started /\ instance'[v].source = s
    <3>1. CASE s = generated + 1
      BY <3>1, <1>5, <1>6
    <3>2. CASE s # generated + 1
      <4>1. misused = {} /\ s \in sources /\ ~instance[u].started
        BY <3>2, <2>4, <1>3
      <4>2. PICK v \in Units : instance[v].started /\ instance[v].source = s
        BY <4>1, <1>1 DEF SourcesInv
      <4> QED BY <4>1, <4>2, <1>10
    <3> QED BY <3>1, <3>2
  <2> QED BY <2>1, <2>2, <2>3, <2>4 DEF SourcesInv
<1>14. ListedExist'
  BY <1>1, <1>3, <1>5, <1>6, <1>10 DEF ListedExist
<1> QED BY <1>10, <1>13, <1>14 DEF UnitInv

\* A unit stops: its source, which no other unit has, goes.
LEMMA StopStep ==
  ASSUME UnitInv, UnitsAssumption, NEW u \in Units, AudioOutputUnitStop(u)
  PROVE  UnitInv'
<1> DEFINE x == [instance[u] EXCEPT !.started = FALSE, !.source = 0]
<1>1. /\ UnitTypeOK /\ SourcesInv /\ ListedExist
      /\ \A v \in Units \ misused : UnitSound(v)
  BY DEF UnitInv
<1>2. /\ instance[u] \in Instance /\ sources \in SUBSET Nat /\ generated \in Nat
      /\ \A v \in Units : instance[v].source \in Nat
  BY <1>1 DEF UnitTypeOK, Instance
<1>3. /\ instance[u].exists
      /\ misused' = misused \/ misused' = misused \cup {u}
      /\ u \notin misused' => u \notin misused /\ ~InCallback(u)
      /\ sources' = sources \ {instance[u].source}
      /\ instance' = [instance EXCEPT ![u] = x]
      /\ UNCHANGED <<in_loop, passes, generated, clock, rendered, unit_panic>>
  BY DEF AudioOutputUnitStop, Misuses
<1>4. u \notin misused' => ~instance[u].handler
  BY <1>3, HandlerExact
<1>5. /\ x \in Instance /\ x.exists /\ ~x.started /\ x.source = 0 /\ x.handler = instance[u].handler
  BY <1>2, <1>3 DEF Instance
<1> HIDE DEF x
<1>6. instance'[u] = x
  BY <1>1, <1>3, <1>5, OneUnit
<1>7. u \notin misused' => ~instance[u].handler /\ ~x.handler /\ UnitSound(u)'
  BY <1>4, <1>5, <1>6 DEF UnitSound
<1>8. sources' \in SUBSET Nat /\ generated' \in Nat /\ generated <= generated'
      /\ rendered' \in [Units -> [frames : Int, since : Nat]]
  <2>1. \A s \in sources' : s \in Nat
    BY <1>2, <1>3
  <2>2. generated \in Nat /\ generated' = generated
    BY <1>2, <1>3
  <2>3. rendered' \in [Units -> [frames : Int, since : Nat]]
    BY <1>1, <1>3 DEF UnitTypeOK
  <2> QED BY <2>1, <2>2, <2>3
<1>9. /\ UnitTypeOK' /\ CallbacksInv' /\ PanicsJustly'
      /\ \A v \in Units \ misused' : UnitSound(v)'
      /\ \A i \in 1 .. Len(passes') : PassSound(i)'
      /\ \A v \in Units : v # u => instance'[v] = instance[v]
  BY <1>3, <1>5, <1>7, <1>8, QuietUnitChanges
<1>10. SourcesInv'
  <2>1. \A v \in Units : instance'[v].source <= generated'
    BY <1>1, <1>2, <1>3, <1>5, <1>6, <1>9 DEF SourcesInv
  <2>2. \A v, w \in Units :
           instance'[v].source = instance'[w].source /\ instance'[v].source # 0 => v = w
    BY <1>1, <1>5, <1>6, <1>9 DEF SourcesInv
  <2>3. ASSUME NEW v \in Units \ misused', instance'[v].started PROVE instance'[v].source \in sources'
    <3>1. v # u /\ v \notin misused /\ instance[v].started /\ instance'[v] = instance[v]
      BY <2>3, <1>3, <1>5, <1>6, <1>9
    <3>2. instance[v].source \in sources /\ instance[v].source \in 1 .. generated
      BY <3>1, <1>1 DEF SourcesInv, UnitSound
    <3>3. instance[v].source # 0
      BY <3>2, <1>2
    <3>4. instance[v].source # instance[u].source
      BY <3>1, <3>3, <1>1 DEF SourcesInv
    <3> QED BY <3>1, <3>2, <3>4, <1>3
  <2>4. ASSUME misused' = {}, NEW s \in sources'
        PROVE  \E v \in Units : instance'[v].started /\ instance'[v].source = s
    <3>1. misused = {} /\ s \in sources /\ s # instance[u].source
      BY <2>4, <1>3
    <3>2. PICK v \in Units : instance[v].started /\ instance[v].source = s
      BY <3>1, <1>1 DEF SourcesInv
    <3> QED BY <3>1, <3>2, <1>9
  <2> QED BY <2>1, <2>2, <2>3, <2>4 DEF SourcesInv
<1>11. ListedExist'
  BY <1>1, <1>3, <1>5, <1>6, <1>9 DEF ListedExist
<1> QED BY <1>9, <1>10, <1>11 DEF UnitInv

\* A unit is disposed of; if it is used rightly, it is stopped and nothing has it
\* to render.
LEMMA DisposeStep ==
  ASSUME UnitInv, UnitsAssumption, NEW u \in Units, AudioComponentInstanceDispose(u)
  PROVE  UnitInv'
<1>1. /\ UnitTypeOK /\ SourcesInv /\ ListedExist
      /\ \A v \in Units \ misused : UnitSound(v)
  BY DEF UnitInv
<1>2. /\ NoInstance \in Instance /\ ~NoInstance.started /\ NoInstance.source = 0 /\ ~NoInstance.handler
      /\ generated \in Nat
  BY <1>1 DEF NoInstance, Instance, UnitTypeOK
<1>3. /\ misused' = misused \/ misused' = misused \cup {u}
      /\ u \notin misused' => /\ u \notin misused /\ ~InCallback(u) /\ u \notin Range(in_loop)
                              /\ ~ToRender(u) /\ ~instance[u].started
      /\ instance' = [instance EXCEPT ![u] = NoInstance]
      /\ UNCHANGED <<in_loop, passes, sources, generated, clock, rendered, unit_panic>>
  BY DEF AudioComponentInstanceDispose, Misuses
<1>4. u \notin misused' => ~instance[u].handler
  BY <1>3, HandlerExact
<1>5. instance'[u] = NoInstance
  BY <1>1, <1>2, <1>3, OneUnit
<1>6. u \notin misused' => ~instance[u].handler /\ ~NoInstance.handler /\ UnitSound(u)'
  BY <1>2, <1>4, <1>5 DEF UnitSound
<1>7. sources' \in SUBSET Nat /\ generated' \in Nat /\ generated <= generated'
      /\ rendered' \in [Units -> [frames : Int, since : Nat]]
  BY <1>1, <1>3 DEF UnitTypeOK
<1>8. /\ UnitTypeOK' /\ CallbacksInv' /\ PanicsJustly'
      /\ \A v \in Units \ misused' : UnitSound(v)'
      /\ \A i \in 1 .. Len(passes') : PassSound(i)'
      /\ \A v \in Units : v # u => instance'[v] = instance[v]
  BY <1>2, <1>3, <1>6, <1>7, QuietUnitChanges
<1>9. SourcesInv'
  BY <1>1, <1>2, <1>3, <1>5, <1>8 DEF SourcesInv
<1>10. ListedExist'
  <2>1. ASSUME NEW k \in 1 .. Len(in_loop), in_loop[k] \notin misused'
        PROVE  in_loop[k] \in Units /\ in_loop[k] # u
    <3>1. in_loop \in Seq(Units) /\ DOMAIN in_loop = 1 .. Len(in_loop)
      BY <1>1, PassesTyped DEF UnitTypeOK
    <3> QED BY <2>1, <3>1, <1>3, ElementOfSeq DEF Range
  <2>2. ASSUME NEW i \in 1 .. Len(passes), NEW k \in 1 .. Len(passes[i].todo),
               passes[i].todo[k] \notin misused'
        PROVE  passes[i].todo[k] \in Units /\ passes[i].todo[k] # u
    <3>1. i \in DOMAIN passes /\ passes[i].todo \in Seq(Units)
      BY <1>1, PassesTyped
    <3>2. k \in DOMAIN passes[i].todo /\ passes[i].todo[k] \in Units
      BY <3>1, LenProperties, ElementOfSeq
    <3>3. u \notin misused' => u \notin Range(passes[i].todo)
      BY <3>1, <1>3 DEF ToRender
    <3> QED BY <2>2, <3>2, <3>3 DEF Range
  <2> QED BY <2>1, <2>2, <1>1, <1>3, <1>8 DEF ListedExist
<1> QED BY <1>8, <1>9, <1>10 DEF UnitInv

\* What is removed from a list leaves elements that were in it.
LEMMA RemovedFirst ==
  ASSUME NEW S, NEW s \in Seq(S), NEW e \in Range(s)
  PROVE  /\ RemoveFirst(s, e) \in Seq(S)
         /\ \A k \in 1 .. Len(RemoveFirst(s, e)) : \E j \in 1 .. Len(s) : RemoveFirst(s, e)[k] = s[j]
<1>1. Len(s) \in Nat /\ DOMAIN s = 1 .. Len(s) /\ \A j \in 1 .. Len(s) : s[j] \in S
  BY LenProperties, ElementOfSeq
<1> DEFINE I == {j \in 1 .. Len(s) : s[j] = e}
<1>2. I \in SUBSET Nat /\ I # {}
  BY <1>1 DEF Range
<1>3. PICK n \in I : \A m \in I : n <= m
  BY <1>2, LeastNatural
<1>4. Min(I) \in I
  BY <1>3 DEF Min
<1> DEFINE first == Min(I)
           a == SubSeq(s, 1, first - 1)
           b == SubSeq(s, first + 1, Len(s))
<1>5. RemoveFirst(s, e) = a \o b
  <2>1. (\E j \in 1 .. Len(s) : s[j] = e) /\ SelectInSeq(s, LAMBDA v : v = e) = first
    BY <1>2 DEF SelectInSeq
  <2> QED BY <2>1 DEF RemoveFirst, RemoveAt
<1>6. first \in 1 .. Len(s)
  BY <1>4
<1> HIDE DEF first
<1>7. /\ a \in Seq(S) /\ Len(a) = first - 1
      /\ \A k \in 1 .. first - 1 : a[k] = s[k]
  <2>1. \A k \in 1 .. first - 1 : s[k] \in S
    BY <1>1, <1>6
  <2>2. /\ SubSeq(s, 1, first - 1) \in Seq(S)
        /\ Len(SubSeq(s, 1, first - 1)) = IF 1 <= first - 1 THEN first - 1 - 1 + 1 ELSE 0
        /\ \A k \in 1 .. first - 1 - 1 + 1 : SubSeq(s, 1, first - 1)[k] = s[1 + k - 1]
    BY <1>1, <1>6, <2>1, SubSeqProperties
  <2>3. \A k \in 1 .. first - 1 : k \in 1 .. first - 1 - 1 + 1 /\ 1 + k - 1 = k
    BY <1>1, <1>6
  <2> QED BY <1>1, <1>6, <2>2, <2>3
<1>8. /\ b \in Seq(S) /\ Len(b) = Len(s) - first
      /\ \A k \in 1 .. Len(s) - first : b[k] = s[first + k]
  <2>1. \A k \in first + 1 .. Len(s) : s[k] \in S
    BY <1>1, <1>6
  <2>2. /\ SubSeq(s, first + 1, Len(s)) \in Seq(S)
        /\ Len(SubSeq(s, first + 1, Len(s))) = IF first + 1 <= Len(s) THEN Len(s) - (first + 1) + 1 ELSE 0
        /\ \A k \in 1 .. Len(s) - (first + 1) + 1 : SubSeq(s, first + 1, Len(s))[k] = s[first + 1 + k - 1]
    BY <1>1, <1>6, <2>1, SubSeqProperties
  <2>3. \A k \in 1 .. Len(s) - first : k \in 1 .. Len(s) - (first + 1) + 1 /\ first + 1 + k - 1 = first + k
    BY <1>1, <1>6
  <2>4. (IF first + 1 <= Len(s) THEN Len(s) - (first + 1) + 1 ELSE 0) = Len(s) - first
    <3>1. first \in Nat /\ Len(s) \in Nat /\ first <= Len(s)
      BY <1>1, <1>6
    <3>2. CASE first + 1 <= Len(s)
      BY <3>1, <3>2
    <3>3. CASE ~(first + 1 <= Len(s))
      BY <3>1, <3>3
    <3> QED BY <3>2, <3>3
  <2>5. Len(b) = Len(s) - first
    BY <2>2, <2>4
  <2>6. ASSUME NEW k \in 1 .. Len(s) - first PROVE b[k] = s[first + k]
    BY <2>2, <2>3
  <2> QED BY <2>2, <2>5, <2>6
<1> HIDE DEF a, b
<1>9. /\ a \o b \in Seq(S) /\ Len(a \o b) = Len(a) + Len(b)
      /\ \A k \in 1 .. Len(a) + Len(b) : (a \o b)[k] = IF k <= Len(a) THEN a[k] ELSE b[k - Len(a)]
  BY <1>7, <1>8, ConcatProperties
<1>10. ASSUME NEW k \in 1 .. Len(a \o b) PROVE \E j \in 1 .. Len(s) : (a \o b)[k] = s[j]
  <2>1. CASE k <= first - 1
    <3>1. k \in 1 .. first - 1 /\ k \in 1 .. Len(s) /\ k \in 1 .. Len(a) + Len(b) /\ k <= Len(a)
      BY <2>1, <1>1, <1>6, <1>7, <1>8, <1>9
    <3> QED BY <3>1, <1>7, <1>9
  <2>2. CASE ~(k <= first - 1)
    <3>1. /\ k - Len(a) \in 1 .. Len(s) - first /\ first + (k - Len(a)) \in 1 .. Len(s)
          /\ k \in 1 .. Len(a) + Len(b) /\ ~(k <= Len(a))
      BY <2>2, <1>1, <1>6, <1>7, <1>8, <1>9
    <3> QED BY <3>1, <1>8, <1>9
  <2> QED BY <2>1, <2>2
<1> QED BY <1>5, <1>9, <1>10

\* A unit joins the list, or leaves it: those listed exist.
LEMMA ListStep ==
  ASSUME UnitInv, UnitsAssumption, NEW u \in Units,
         AudioUnitInitialize(u) \/ AudioUnitUninitialize(u)
  PROVE  UnitInv'
<1>1. /\ UnitTypeOK /\ PanicsJustly /\ SourcesInv /\ CallbacksInv /\ ListedExist
      /\ \A v \in Units \ misused : UnitSound(v)
      /\ \A i \in 1 .. Len(passes) : PassSound(i)
  BY DEF UnitInv
<1>2. UNCHANGED <<instance, passes, sources, generated, clock, rendered, misused, unit_panic>> /\ instance[u].exists
  BY DEF AudioUnitInitialize, AudioUnitUninitialize
<1>3. in_loop \in Seq(Units) /\ \A k \in 1 .. Len(in_loop) : in_loop[k] \notin misused => instance[in_loop[k]].exists
  BY <1>1 DEF UnitTypeOK, ListedExist
<1>4. /\ in_loop' \in Seq(Units)
      /\ \A k \in 1 .. Len(in_loop') : in_loop'[k] \notin misused => instance[in_loop'[k]].exists
  <2>1. CASE AudioUnitInitialize(u)
    <3>1. in_loop' = Append(in_loop, u)
      BY <2>1 DEF AudioUnitInitialize
    <3>2. /\ Append(in_loop, u) \in Seq(Units) /\ Len(in_loop) \in Nat
          /\ Len(Append(in_loop, u)) = Len(in_loop) + 1
          /\ Append(in_loop, u)[Len(in_loop) + 1] = u
          /\ \A k \in 1 .. Len(in_loop) : Append(in_loop, u)[k] = in_loop[k]
      BY <1>3, Pushed
    <3>3. \A k \in 1 .. Len(in_loop) + 1 : k \in 1 .. Len(in_loop) \/ k = Len(in_loop) + 1
      BY <3>2
    <3> QED BY <3>1, <3>2, <3>3, <1>2, <1>3
  <2>2. CASE AudioUnitUninitialize(u)
    <3>1. in_loop' = RemoveFirst(in_loop, u) /\ u \in Range(in_loop)
      BY <2>2 DEF AudioUnitUninitialize
    <3> QED BY <3>1, <1>3, RemovedFirst
  <2> QED BY <2>1, <2>2
<1>5. UnitTypeOK'
  BY <1>1, <1>2, <1>4 DEF UnitTypeOK
<1>6. (\A v \in Units \ misused' : UnitSound(v)') /\ (\A i \in 1 .. Len(passes') : PassSound(i)')
  BY <1>1, <1>2 DEF UnitSound, PassSound
<1>7. SourcesInv' /\ CallbacksInv' /\ PanicsJustly'
  BY <1>1, <1>2 DEF SourcesInv, CallbacksInv, PanicsJustly
<1>8. ListedExist'
  BY <1>1, <1>2, <1>4 DEF ListedExist
<1> QED BY <1>1, <1>2, <1>5, <1>6, <1>7, <1>8 DEF UnitInv

-----------------------------------------------------------------------------
(* The run loop                                                            *)

\* A pass begins with a copy of the list, and renders nothing yet.
LEMMA PassBeginsStep ==
  ASSUME UnitInv, UnitsAssumption, PassBegins
  PROVE  UnitInv'
<1> DEFINE p == [todo |-> in_loop, now |-> NoRender]
<1>1. /\ UnitTypeOK /\ PanicsJustly /\ SourcesInv /\ CallbacksInv /\ ListedExist
      /\ \A v \in Units \ misused : UnitSound(v)
      /\ \A i \in 1 .. Len(passes) : PassSound(i)
  BY DEF UnitInv
<1>2. /\ passes' = Append(passes, p)
      /\ UNCHANGED <<instance, in_loop, sources, generated, clock, rendered, misused, unit_panic>>
  BY DEF PassBegins
<1>3. p \in Pass /\ p.todo = in_loop /\ p.now.unit = "none" /\ p.now.unit \notin Units
  BY <1>1, UnitsAssumption DEF UnitsAssumption, UnitTypeOK, Pass, Now, NoRender
<1> HIDE DEF p
<1>4. /\ passes' \in Seq(Pass) /\ Len(passes) \in Nat /\ Len(passes') = Len(passes) + 1
      /\ passes'[Len(passes) + 1] = p /\ \A i \in 1 .. Len(passes) : passes'[i] = passes[i]
  BY <1>1, <1>2, <1>3, Pushed DEF UnitTypeOK
<1>5. \A i \in 1 .. Len(passes') : (i \in 1 .. Len(passes) /\ passes'[i] = passes[i]) \/ passes'[i] = p
  BY <1>4
<1>6. \A i \in 1 .. Len(passes) : i \in 1 .. Len(passes')
  BY <1>4
<1>7. UnitTypeOK'
  BY <1>1, <1>2, <1>4 DEF UnitTypeOK
<1>8. ASSUME NEW i \in 1 .. Len(passes') PROVE PassSound(i)'
  BY <1>1, <1>2, <1>3, <1>5 DEF PassSound
<1>9. CallbacksInv'
  <2>1. \A v \in Units \ misused' : instance'[v].handler => \E i \in 1 .. Len(passes') : passes'[i].now.unit = v
    BY <1>1, <1>2, <1>4, <1>6 DEF CallbacksInv
  <2>2. \A i, j \in 1 .. Len(passes') :
           passes'[i].now.unit = passes'[j].now.unit /\ passes'[i].now.unit \in Units \ misused' => i = j
    BY <1>1, <1>2, <1>3, <1>5 DEF CallbacksInv
  <2> QED BY <2>1, <2>2 DEF CallbacksInv
<1>10. ListedExist'
  BY <1>1, <1>2, <1>3, <1>5 DEF ListedExist
<1>11. (\A v \in Units \ misused' : UnitSound(v)') /\ SourcesInv' /\ PanicsJustly'
  BY <1>1, <1>2 DEF UnitSound, SourcesInv, PanicsJustly
<1> QED BY <1>1, <1>2, <1>7, <1>8, <1>9, <1>10, <1>11 DEF UnitInv

\* A pass that has rendered all its units ends.
LEMMA PassEndsStep ==
  ASSUME UnitInv, UnitsAssumption, PassEnds
  PROVE  UnitInv'
<1>1. /\ UnitTypeOK /\ PanicsJustly /\ SourcesInv /\ CallbacksInv /\ ListedExist
      /\ \A v \in Units \ misused : UnitSound(v)
      /\ \A i \in 1 .. Len(passes) : PassSound(i)
  BY DEF UnitInv
<1>2. /\ passes # <<>> /\ Last(passes).now.unit = "none" /\ passes' = Front(passes)
      /\ UNCHANGED <<instance, in_loop, sources, generated, clock, rendered, misused, unit_panic>>
  BY DEF PassEnds, Rendering
<1>3. /\ passes' \in Seq(Pass) /\ Len(passes) \in Nat \ {0} /\ Len(passes') = Len(passes) - 1
      /\ Last(passes) = passes[Len(passes)] /\ \A i \in 1 .. Len(passes) - 1 : passes'[i] = passes[i]
  BY <1>1, <1>2, FrontLast DEF UnitTypeOK
<1>4. \A i \in 1 .. Len(passes') : i \in 1 .. Len(passes) /\ passes'[i] = passes[i]
  BY <1>3
<1>5. \A i \in 1 .. Len(passes) : passes[i].now.unit # "none" => i \in 1 .. Len(passes')
  BY <1>2, <1>3
<1>6. UnitTypeOK'
  BY <1>1, <1>2, <1>3 DEF UnitTypeOK
<1>7. ASSUME NEW i \in 1 .. Len(passes') PROVE PassSound(i)'
  BY <1>1, <1>2, <1>4 DEF PassSound
<1>8. CallbacksInv'
  <2>1. ASSUME NEW v \in Units \ misused', instance'[v].handler
        PROVE  \E i \in 1 .. Len(passes') : passes'[i].now.unit = v
    <3>1. PICK i \in 1 .. Len(passes) : passes[i].now.unit = v
      BY <2>1, <1>1, <1>2 DEF CallbacksInv
    <3>2. i \in 1 .. Len(passes')
      BY <3>1, <1>5, UnitsAssumption DEF UnitsAssumption
    <3> QED BY <3>1, <3>2, <1>4
  <2>2. \A i, j \in 1 .. Len(passes') :
           passes'[i].now.unit = passes'[j].now.unit /\ passes'[i].now.unit \in Units \ misused' => i = j
    BY <1>1, <1>2, <1>4 DEF CallbacksInv
  <2> QED BY <2>1, <2>2 DEF CallbacksInv
<1>9. ListedExist'
  BY <1>1, <1>2, <1>4 DEF ListedExist
<1>10. (\A v \in Units \ misused' : UnitSound(v)') /\ SourcesInv' /\ PanicsJustly'
  BY <1>1, <1>2 DEF UnitSound, SourcesInv, PanicsJustly
<1> QED BY <1>1, <1>2, <1>6, <1>7, <1>8, <1>9, <1>10 DEF UnitInv

\* Time passes: nothing that has been rendered becomes too much.
LEMMA TimeStep ==
  ASSUME UnitInv, UnitsAssumption, TimePasses
  PROVE  UnitInv'
<1>1. /\ UnitTypeOK /\ PanicsJustly /\ SourcesInv /\ CallbacksInv /\ ListedExist
      /\ \A v \in Units \ misused : UnitSound(v)
      /\ \A i \in 1 .. Len(passes) : PassSound(i)
  BY DEF UnitInv
<1>2. /\ clock \in Nat /\ clock' = clock + 1
      /\ UNCHANGED <<instance, in_loop, passes, sources, generated, rendered, misused, unit_panic>>
  BY <1>1 DEF TimePasses, UnitTypeOK
<1>3. UnitTypeOK'
  BY <1>1, <1>2 DEF UnitTypeOK
<1>4. ASSUME NEW v \in Units \ misused PROVE UnitSound(v)'
  <2>1. UnitSound(v) /\ instance[v].last \in Nat
    BY <1>1 DEF UnitTypeOK, Instance
  <2>2. instance[v].last <= clock => instance[v].last <= clock'
    BY <2>1, <1>2
  <2> QED BY <2>1, <2>2, <1>2 DEF UnitSound
<1>5. ASSUME NEW i \in 1 .. Len(passes') PROVE PassSound(i)'
  <2>1. PassSound(i) /\ passes[i].now.at \in Nat
    BY <1>1, <1>2, PassesTyped DEF Now
  <2>2. passes[i].now.at <= clock => passes[i].now.at <= clock'
    BY <2>1, <1>2
  <2> QED BY <2>1, <2>2, <1>2 DEF PassSound
<1>6. SourcesInv' /\ CallbacksInv' /\ ListedExist' /\ PanicsJustly'
  BY <1>1, <1>2 DEF SourcesInv, CallbacksInv, ListedExist, PanicsJustly
<1> QED BY <1>1, <1>2, <1>3, <1>4, <1>5, <1>6 DEF UnitInv

\* What the innermost pass has to render first is a unit that exists and is
\* ready, unless it is misused.
LEMMA NextToRender ==
  ASSUME UnitInv, passes # <<>>, Last(passes).todo # <<>>
  PROVE  LET u == Head(Last(passes).todo)
         IN  u \in Units /\ (u \notin misused => instance[u].exists /\ (Renders(u) => instance[u].ready))
<1> DEFINE n == Len(passes)
           u == Head(Last(passes).todo)
<1>1. UnitTypeOK /\ ListedExist /\ \A v \in Units \ misused : UnitSound(v)
  BY DEF UnitInv
<1>2. passes \in Seq(Pass)
  BY <1>1 DEF UnitTypeOK
<1>3. n \in Nat \ {0} /\ Last(passes) = passes[n]
  BY <1>2, FrontLast
<1>4. n \in 1 .. n
  BY <1>3
<1>5. passes[n].todo \in Seq(Units) /\ passes[n].todo # <<>>
  BY <1>1, <1>3, <1>4, PassesTyped
<1>6. /\ Len(passes[n].todo) \in Nat \ {0} /\ Head(passes[n].todo) = passes[n].todo[1]
      /\ Head(passes[n].todo) \in Units
  BY <1>5, HeadRest
<1>7. u \in Units /\ u = passes[n].todo[1] /\ 1 \in 1 .. Len(passes[n].todo)
  BY <1>3, <1>6
<1>8. u \notin misused => instance[u].exists
  BY <1>1, <1>4, <1>7 DEF ListedExist
<1>9. u \notin misused => (Renders(u) => instance[u].ready)
  BY <1>1, <1>7 DEF Renders, UnitSound
<1> HIDE DEF u
<1> QED BY <1>7, <1>8, <1>9 DEF u

\* The innermost pass changes; the others, and what they hold, do not.
LEMMA TopPass ==
  ASSUME UnitInv, passes # <<>>, NEW p \in Pass,
         \A k \in 1 .. Len(p.todo) : \E j \in 1 .. Len(Last(passes).todo) : p.todo[k] = Last(passes).todo[j],
         passes' = [passes EXCEPT ![Len(passes)] = p], UNCHANGED <<in_loop, misused>>,
         \A v \in Units : instance[v].exists => instance'[v].exists
  PROVE  /\ Len(passes) \in Nat \ {0} /\ Len(passes') = Len(passes) /\ Last(passes) = passes[Len(passes)]
         /\ passes' \in Seq(Pass) /\ passes'[Len(passes)] = p
         /\ \A i \in 1 .. Len(passes) : i # Len(passes) => passes'[i] = passes[i]
         /\ ListedExist'
<1>1. passes \in Seq(Pass)
  BY DEF UnitInv, UnitTypeOK
<1>2. Len(passes) \in Nat \ {0} /\ Last(passes) = passes[Len(passes)]
  BY <1>1, FrontLast
<1>3. /\ passes' \in Seq(Pass) /\ Len(passes') = Len(passes) /\ passes'[Len(passes)] = p
      /\ \A i \in 1 .. Len(passes) - 1 : passes'[i] = passes[i]
  BY <1>1, TopReplaced
<1>4. \A i \in 1 .. Len(passes) : i # Len(passes) => i \in 1 .. Len(passes) - 1
  BY <1>2
<1>5. ASSUME NEW i \in 1 .. Len(passes'), NEW k \in 1 .. Len(passes'[i].todo)
      PROVE  \E j \in 1 .. Len(passes[i].todo) : passes'[i].todo[k] = passes[i].todo[j]
  <2>1. CASE i = Len(passes)
    BY <2>1, <1>2, <1>3, <1>5
  <2>2. CASE i # Len(passes)
    <3>1. passes'[i] = passes[i]
      BY <2>2, <1>3, <1>4
    <3>2. k \in 1 .. Len(passes[i].todo) /\ passes'[i].todo[k] = passes[i].todo[k]
      BY <3>1
    <3> QED BY <3>2
  <2> QED BY <2>1, <2>2
<1>6. ListedExist'
  <2>1. ListedExist /\ UnitTypeOK /\ in_loop' = in_loop /\ misused' = misused
    BY DEF UnitInv
  <2>2. ASSUME NEW k \in 1 .. Len(in_loop), in_loop[k] \notin misused PROVE instance'[in_loop[k]].exists
    <3>1. in_loop[k] \in Units
      BY <2>1, ElementOfSeq DEF UnitTypeOK
    <3> QED BY <3>1, <2>1, <2>2 DEF ListedExist
  <2>3. ASSUME NEW i \in 1 .. Len(passes'), NEW k \in 1 .. Len(passes'[i].todo),
               passes'[i].todo[k] \notin misused
        PROVE  instance'[passes'[i].todo[k]].exists
    <3>1. PICK j \in 1 .. Len(passes[i].todo) : passes'[i].todo[k] = passes[i].todo[j]
      BY <1>5
    <3>2. i \in 1 .. Len(passes)
      BY <1>3
    <3>3. passes[i].todo \in Seq(Units)
      BY <2>1, <3>2, PassesTyped
    <3>4. passes[i].todo[j] \in Units
      BY <3>3, ElementOfSeq
    <3> QED BY <3>1, <3>2, <3>4, <2>1, <2>3 DEF ListedExist
  <2> QED BY <2>1, <2>2, <2>3 DEF ListedExist
<1> QED BY <1>2, <1>3, <1>4, <1>6

\* What remains of a list after its head was in it.
LEMMA RestListed ==
  ASSUME UnitInv, passes # <<>>, Last(passes).todo # <<>>
  PROVE  /\ Last(passes) \in Pass /\ Tail(Last(passes).todo) \in Seq(Units)
         /\ \A k \in 1 .. Len(Tail(Last(passes).todo)) :
               \E j \in 1 .. Len(Last(passes).todo) : Tail(Last(passes).todo)[k] = Last(passes).todo[j]
<1> DEFINE q == Last(passes).todo
<1>1. passes \in Seq(Pass)
  BY DEF UnitInv, UnitTypeOK
<1>2. Last(passes) \in Pass
  BY <1>1, FrontLast
<1>3. q \in Seq(Units) /\ q # <<>>
  BY <1>2 DEF Pass
<1> HIDE DEF q
<1>4. /\ Len(q) \in Nat \ {0} /\ Tail(q) \in Seq(Units) /\ Len(Tail(q)) = Len(q) - 1
      /\ \A k \in 1 .. Len(q) - 1 : Tail(q)[k] = q[k + 1]
  BY <1>3, HeadRest
<1>5. \A k \in 1 .. Len(Tail(q)) : k + 1 \in 1 .. Len(q) /\ k \in 1 .. Len(q) - 1
  BY <1>4
<1> QED BY <1>2, <1>4, <1>5 DEF q

\* A unit that is stopped, or whose callback runs, is passed over.
LEMMA PassOverStep ==
  ASSUME UnitInv, UnitsAssumption, passes # <<>>,
         Last(passes).now.unit = "none", Last(passes).todo # <<>>,
         passes' = [passes EXCEPT ![Len(passes)] = [Last(passes) EXCEPT !.todo = Tail(@)]],
         UNCHANGED <<instance, in_loop, sources, generated, clock, rendered, misused, unit_panic>>
  PROVE  UnitInv'
<1> DEFINE p == [Last(passes) EXCEPT !.todo = Tail(@)]
<1>1. /\ UnitTypeOK /\ PanicsJustly /\ SourcesInv /\ CallbacksInv /\ ListedExist
      /\ \A v \in Units \ misused : UnitSound(v)
      /\ \A i \in 1 .. Len(passes) : PassSound(i)
  BY DEF UnitInv
<1>2. p \in Pass /\ p.todo = Tail(Last(passes).todo) /\ p.now = Last(passes).now
  BY RestListed DEF Pass
<1>3. /\ passes' = [passes EXCEPT ![Len(passes)] = p]
      /\ \A k \in 1 .. Len(p.todo) : \E j \in 1 .. Len(Last(passes).todo) : p.todo[k] = Last(passes).todo[j]
  BY <1>2, RestListed
<1> HIDE DEF p
<1>4. /\ Len(passes) \in Nat \ {0} /\ Len(passes') = Len(passes) /\ Last(passes) = passes[Len(passes)]
      /\ passes' \in Seq(Pass) /\ passes'[Len(passes)] = p
      /\ \A i \in 1 .. Len(passes) : i # Len(passes) => passes'[i] = passes[i]
      /\ ListedExist'
  BY <1>2, <1>3, TopPass
<1>5. \A i \in 1 .. Len(passes) : passes'[i].now = passes[i].now
  BY <1>2, <1>4
<1>6. UnitTypeOK'
  BY <1>1, <1>4 DEF UnitTypeOK
<1>7. ASSUME NEW i \in 1 .. Len(passes') PROVE PassSound(i)'
  BY <1>1, <1>4, <1>5 DEF PassSound
<1>8. CallbacksInv'
  BY <1>1, <1>4, <1>5 DEF CallbacksInv
<1>9. (\A v \in Units \ misused' : UnitSound(v)') /\ SourcesInv' /\ PanicsJustly'
  BY <1>1 DEF UnitSound, SourcesInv, PanicsJustly
<1> QED BY <1>1, <1>4, <1>6, <1>7, <1>8, <1>9 DEF UnitInv

\* A unit's callback begins: what it renders is for the time since the last
\* rendering, at most, and the pass keeps the source and the time.
LEMMA CallbackBeginsStep ==
  ASSUME UnitInv, UnitsAssumption, passes # <<>>,
         Last(passes).now.unit = "none", Last(passes).todo # <<>>,
         NEW u \in Units, instance[u].started, ~instance[u].handler,
         passes' = [passes EXCEPT ![Len(passes)] =
                      [Last(passes) EXCEPT !.todo = Tail(@),
                         !.now = [unit |-> u, source |-> instance[u].source, at |-> clock]]],
         instance' = [instance EXCEPT ![u].handler = TRUE],
         rendered' = [rendered EXCEPT ![u].frames =
                        @ + (IF clock - instance[u].last < MaxFrames
                             THEN clock - instance[u].last ELSE MaxFrames)],
         UNCHANGED <<in_loop, sources, generated, clock, misused, unit_panic>>
  PROVE  UnitInv'
<1> DEFINE x == [instance[u] EXCEPT !.handler = TRUE]
           now == [unit |-> u, source |-> instance[u].source, at |-> clock]
           p == [Last(passes) EXCEPT !.todo = Tail(@), !.now = now]
           due == IF clock - instance[u].last < MaxFrames THEN clock - instance[u].last ELSE MaxFrames
           r == [rendered[u] EXCEPT !.frames = @ + due]
           n == Len(passes)
<1>1. /\ UnitTypeOK /\ PanicsJustly /\ SourcesInv /\ CallbacksInv
      /\ \A v \in Units \ misused : UnitSound(v)
      /\ \A i \in 1 .. Len(passes) : PassSound(i)
  BY DEF UnitInv
<1>2. /\ instance[u] \in Instance /\ clock \in Nat /\ instance[u].last \in Nat /\ instance[u].source \in Nat
      /\ rendered[u] \in [frames : Int, since : Nat] /\ rendered[u].frames \in Int /\ rendered[u].since \in Nat
  BY <1>1 DEF UnitTypeOK, Instance
<1>3. /\ x \in Instance /\ x.handler /\ x.exists = instance[u].exists /\ x.ready = instance[u].ready
      /\ x.started = instance[u].started /\ x.source = instance[u].source /\ x.last = instance[u].last
  BY <1>2 DEF Instance
<1>4. now \in Now /\ now.unit = u /\ now.source = instance[u].source /\ now.at = clock
  BY <1>2 DEF Now
<1>5. due \in Int /\ due <= clock - instance[u].last
  BY <1>2, UnitsAssumption DEF UnitsAssumption
<1>6. instance' = [instance EXCEPT ![u] = x] /\ rendered' = [rendered EXCEPT ![u] = r]
  OBVIOUS
<1> HIDE DEF x, now, due
<1>7. p \in Pass /\ p.todo = Tail(Last(passes).todo) /\ p.now = now
  BY <1>4, RestListed DEF Pass
<1>8. r \in [frames : Int, since : Nat] /\ r.frames = rendered[u].frames + due /\ r.since = rendered[u].since
  BY <1>2, <1>5
<1>9. /\ passes' = [passes EXCEPT ![Len(passes)] = p]
      /\ \A k \in 1 .. Len(p.todo) : \E j \in 1 .. Len(Last(passes).todo) : p.todo[k] = Last(passes).todo[j]
  BY <1>7, RestListed DEF now
<1> HIDE DEF p, r
<1>10. /\ instance' \in [Units -> Instance] /\ instance'[u] = x
       /\ \A v \in Units : v # u => instance'[v] = instance[v]
  BY <1>1, <1>3, <1>6, OneUnit
<1>11. /\ rendered' \in [Units -> [frames : Int, since : Nat]] /\ rendered'[u] = r
       /\ \A v \in Units : v # u => rendered'[v] = rendered[v]
  <2>1. rendered \in [Units -> [frames : Int, since : Nat]]
    BY <1>1 DEF UnitTypeOK
  <2> QED BY <2>1, <1>6, <1>8
<1>12. \A v \in Units : instance[v].exists => instance'[v].exists
  BY <1>3, <1>10
<1>13. /\ n \in Nat \ {0} /\ Len(passes') = n /\ Last(passes) = passes[n]
       /\ passes' \in Seq(Pass) /\ passes'[n] = p
       /\ \A i \in 1 .. n : i # n => passes'[i] = passes[i]
       /\ ListedExist'
  BY <1>7, <1>9, <1>12, TopPass
<1> HIDE DEF n
<1>14. n \in 1 .. n /\ 1 .. Len(passes') = 1 .. n /\ 1 .. Len(passes) = 1 .. n
  BY <1>13 DEF n
<1>15. u \notin misused => \A i \in 1 .. n : passes[i].now.unit # u
  BY <1>14, HandlerExact
<1>16. UnitTypeOK'
  BY <1>1, <1>10, <1>11, <1>13 DEF UnitTypeOK
<1>17. ASSUME NEW v \in Units \ misused PROVE UnitSound(v)'
  <2>1. CASE v = u
    <3>1. /\ UnitSound(u) /\ instance'[u] = x /\ rendered'[u] = r /\ clock' = clock /\ generated' = generated
      BY <2>1, <1>1, <1>10, <1>11, <1>17
    <3> QED BY <2>1, <3>1, <1>3, <1>8 DEF UnitSound
  <2>2. CASE v # u
    BY <2>2, <1>1, <1>10, <1>11 DEF UnitSound
  <2> QED BY <2>1, <2>2
<1>18. ASSUME NEW i \in 1 .. Len(passes'), passes'[i].now.unit \in Units \ misused PROVE PassSound(i)'
  <2>1. CASE i = n
    <3>0. u \in Units \ misused
      BY <2>1, <1>4, <1>7, <1>13, <1>18
    <3>1. /\ instance[u].last <= clock /\ rendered[u].since <= instance[u].last
          /\ rendered[u].frames <= instance[u].last - rendered[u].since
      BY <3>0, <1>1 DEF UnitSound
    <3>2. r.frames <= clock - r.since
      <4>1. ASSUME NEW f \in Int, NEW s \in Nat, NEW l \in Nat, NEW d \in Int,
                   f <= l - s, d <= clock - l
            PROVE  f + d <= clock - s
        BY <4>1, <1>2
      <4>2. rendered[u].frames + due <= clock - rendered[u].since
        BY <3>1, <1>2, <1>5, <4>1
      <4> QED BY <4>2, <1>8
    <3>3. clock <= clock
      BY <1>2
    <3>4. passes'[i].now = now /\ instance'[u] = x /\ rendered'[u] = r /\ clock' = clock
      BY <2>1, <1>7, <1>10, <1>11, <1>13
    <3> QED BY <3>1, <3>2, <3>3, <3>4, <1>3, <1>4 DEF PassSound
  <2>2. CASE i # n
    <3>1. /\ i \in 1 .. Len(passes) /\ passes'[i] = passes[i] /\ passes[i].now.unit # u
          /\ passes[i].now.unit \in Units \ misused
      BY <2>2, <1>13, <1>14, <1>15, <1>18
    <3>2. PassSound(i) /\ clock' = clock
      BY <3>1, <1>1
    <3>3. /\ instance'[passes[i].now.unit] = instance[passes[i].now.unit]
          /\ rendered'[passes[i].now.unit] = rendered[passes[i].now.unit]
      BY <3>1, <1>10, <1>11
    <3> QED BY <3>1, <3>2, <3>3 DEF PassSound
  <2> QED BY <2>1, <2>2
<1>19. CallbacksInv'
  <2>1. ASSUME NEW v \in Units \ misused', instance'[v].handler
        PROVE  \E i \in 1 .. Len(passes') : passes'[i].now.unit = v
    <3>1. CASE v = u
      BY <3>1, <1>4, <1>7, <1>13, <1>14
    <3>2. CASE v # u
      <4>1. PICK i \in 1 .. Len(passes) : passes[i].now.unit = v
        BY <3>2, <2>1, <1>1, <1>10 DEF CallbacksInv
      <4>2. i # n
        BY <4>1, <1>13, UnitsAssumption DEF UnitsAssumption
      <4> QED BY <4>1, <4>2, <1>13, <1>14
    <3> QED BY <3>1, <3>2
  <2>2. ASSUME NEW i \in 1 .. Len(passes'), NEW j \in 1 .. Len(passes'),
               passes'[i].now.unit = passes'[j].now.unit, passes'[i].now.unit \in Units \ misused'
        PROVE  i = j
    <3>1. u \notin misused => \A m \in 1 .. n : m # n => passes'[m].now.unit # u
      BY <1>13, <1>15
    <3>2. passes'[n].now.unit = u
      BY <1>4, <1>7, <1>13
    <3>3. CASE i = n \/ j = n
      BY <3>1, <3>2, <3>3, <2>2, <1>14
    <3>4. CASE i # n /\ j # n
      BY <3>4, <2>2, <1>1, <1>13, <1>14 DEF CallbacksInv
    <3> QED BY <3>3, <3>4
  <2> QED BY <2>1, <2>2 DEF CallbacksInv
<1>20. PanicsJustly' /\ \A i \in 1 .. Len(passes') : PassSound(i)'
  BY <1>1, <1>18 DEF PanicsJustly, PassSound
<1>21. SourcesInv'
  <2>1. \A v \in Units : instance'[v].started = instance[v].started /\ instance'[v].source = instance[v].source
    BY <1>3, <1>10
  <2> QED BY <2>1, <1>1 DEF SourcesInv
<1> QED BY <1>1, <1>13, <1>16, <1>17, <1>19, <1>21, <1>20 DEF UnitInv

\* A pass panics on a unit that is misused, and changes nothing else.
LEMMA UnitPanicsStep ==
  ASSUME UnitInv, NEW u \in Units, u \in misused, UnitPanics(u)
  PROVE  UnitInv'
BY DEF UnitPanics, UnitInv, UnitTypeOK, UnitSound, PassSound, SourcesInv, CallbacksInv, ListedExist,
       PanicsJustly

\* render_audio_unit, up to the callback.
LEMMA RenderBeginsStep ==
  ASSUME UnitInv, UnitsAssumption, RenderBegins
  PROVE  UnitInv'
<1> DEFINE u == Head(Last(passes).todo)
<1>1. passes # <<>> /\ Last(passes).now.unit = "none" /\ Last(passes).todo # <<>>
  BY DEF RenderBegins, Rendering
<1>2. u \in Units /\ (u \notin misused => instance[u].exists /\ (Renders(u) => instance[u].ready))
  BY <1>1, NextToRender
<1> DEFINE fails == ~instance[u].exists \/ (Renders(u) /\ ~instance[u].ready)
<1>3. CASE fails
  <2>1. UnitPanics(u)
    BY <1>3 DEF RenderBegins
  <2>2. u \in misused
    BY <1>2, <1>3
  <2> QED BY <1>2, <2>1, <2>2, UnitPanicsStep
<1>4. CASE ~fails /\ ~Renders(u)
  BY <1>1, <1>4, PassOverStep DEF RenderBegins
<1>5. CASE ~fails /\ Renders(u)
  <2>1. instance[u].started /\ ~instance[u].handler
    BY <1>5 DEF Renders
  <2> QED BY <1>1, <1>2, <1>5, <2>1, CallbackBeginsStep DEF RenderBegins
<1> QED BY <1>3, <1>4, <1>5

\* The callback returns: the unit still has the source it was called for, and
\* what it has rendered is no more than the time it was called at.
LEMMA RenderEndsStep ==
  ASSUME UnitInv, UnitsAssumption, RenderEnds
  PROVE  UnitInv'
<1> DEFINE n == Len(passes)
           now == Last(passes).now
           u == now.unit
           x == [instance[u] EXCEPT !.handler = FALSE, !.last = now.at]
           p == [Last(passes) EXCEPT !.now = NoRender]
           fails == now.source \notin sources \/ ~instance[u].exists
<1>1. /\ UnitTypeOK /\ PanicsJustly /\ SourcesInv /\ CallbacksInv
      /\ \A v \in Units \ misused : UnitSound(v)
      /\ \A i \in 1 .. Len(passes) : PassSound(i)
  BY DEF UnitInv
<1>2. passes # <<>> /\ u # "none"
  BY DEF RenderEnds
<1>3. n \in Nat \ {0} /\ Last(passes) = passes[n] /\ Last(passes) \in Pass
  BY <1>1, <1>2, FrontLast DEF UnitTypeOK
<1>4. n \in 1 .. n /\ n \in 1 .. Len(passes)
  BY <1>3
<1>5. now = passes[n].now /\ now \in Now /\ u \in Units /\ now.at \in Nat
  <2>1. now = passes[n].now /\ now \in Now /\ u \in Units \cup {"none"}
    BY <1>1, <1>3, <1>4, PassesTyped
  <2> QED BY <2>1, <1>2 DEF Now
<1>6. u \notin misused =>
         /\ instance[u].started /\ instance[u].handler /\ now.source = instance[u].source
         /\ instance[u].last <= now.at /\ now.at <= clock
         /\ rendered[u].frames <= now.at - rendered[u].since
  <2>1. PassSound(n)
    BY <1>1, <1>4
  <2> QED BY <2>1, <1>5 DEF PassSound
<1>7. u \notin misused => /\ instance[u].exists /\ instance[u].ready
                          /\ instance[u].source \in 1 .. generated
                          /\ rendered[u].since <= instance[u].last
  BY <1>1, <1>5, <1>6 DEF UnitSound
<1>8. u \notin misused => now.source \in sources
  BY <1>1, <1>5, <1>6 DEF SourcesInv
<1>P. CASE fails
  <2>1. UnitPanics(u)
    BY <1>P DEF RenderEnds
  <2>2. u \in misused
    BY <1>7, <1>8, <1>P
  <2> QED BY <1>5, <2>1, <2>2, UnitPanicsStep
<1> SUFFICES ASSUME ~fails PROVE UnitInv'
  BY <1>P
<1>9. /\ instance' = [instance EXCEPT ![u].handler = FALSE, ![u].last = now.at]
      /\ passes' = [passes EXCEPT ![Len(passes)].now = NoRender]
      /\ UNCHANGED <<in_loop, sources, generated, clock, rendered, misused, unit_panic>>
  BY DEF RenderEnds
<1> HIDE DEF u, now
<1>10. /\ instance[u] \in Instance /\ instance[u].last \in Nat /\ clock \in Nat
       /\ rendered[u].frames \in Int /\ rendered[u].since \in Nat
  BY <1>1, <1>5 DEF UnitTypeOK, Instance
<1>11. /\ x \in Instance /\ ~x.handler /\ x.exists = instance[u].exists /\ x.ready = instance[u].ready
       /\ x.started = instance[u].started
       /\ x.source = instance[u].source /\ x.last = now.at
  BY <1>5, <1>10 DEF Instance
<1>12. instance' = [instance EXCEPT ![u] = x]
  BY <1>9
<1>13. p \in Pass /\ p.todo = Last(passes).todo /\ p.now.unit = "none"
  BY <1>3 DEF Pass, Now, NoRender
<1>14. passes' = [passes EXCEPT ![Len(passes)] = p]
  BY <1>3, <1>9
<1>15. \A k \in 1 .. Len(p.todo) : \E j \in 1 .. Len(Last(passes).todo) : p.todo[k] = Last(passes).todo[j]
  BY <1>13
<1> HIDE DEF x, p
<1>16. /\ instance' \in [Units -> Instance] /\ instance'[u] = x
       /\ \A v \in Units : v # u => instance'[v] = instance[v]
  BY <1>1, <1>5, <1>11, <1>12, OneUnit
<1>17. (\A v \in Units : instance[v].exists => instance'[v].exists) /\ UNCHANGED <<in_loop, misused>>
  BY <1>9, <1>11, <1>16
<1>18. /\ Len(passes') = n /\ passes' \in Seq(Pass) /\ passes'[n] = p
       /\ \A i \in 1 .. n : i # n => passes'[i] = passes[i]
       /\ ListedExist'
  BY <1>2, <1>13, <1>14, <1>15, <1>17, TopPass
<1> HIDE DEF n
<1>19. 1 .. Len(passes') = 1 .. n /\ 1 .. Len(passes) = 1 .. n
  BY <1>18 DEF n
<1>20. u \notin misused => \A i \in 1 .. n : i # n => passes[i].now.unit # u
  BY <1>1, <1>4, <1>5, <1>19 DEF CallbacksInv, u
<1>21. UnitTypeOK'
  BY <1>1, <1>9, <1>16, <1>18 DEF UnitTypeOK
<1>22. ASSUME NEW v \in Units \ misused PROVE UnitSound(v)'
  <2>1. CASE v = u
    <3>1. /\ instance'[u] = x /\ rendered' = rendered /\ clock' = clock /\ generated' = generated
      BY <1>9, <1>16
    <3>2. u \notin misused /\ rendered[u].since <= now.at
      BY <2>1, <1>5, <1>6, <1>7, <1>10
    <3> QED BY <2>1, <3>1, <3>2, <1>6, <1>7, <1>11 DEF UnitSound
  <2>2. CASE v # u
    BY <2>2, <1>1, <1>9, <1>16 DEF UnitSound
  <2> QED BY <2>1, <2>2
<1>23. ASSUME NEW i \in 1 .. Len(passes'), passes'[i].now.unit \in Units \ misused PROVE PassSound(i)'
  <2>1. CASE i = n
    BY <2>1, <1>13, <1>18, <1>23, UnitsAssumption DEF UnitsAssumption
  <2>2. CASE i # n
    <3>1. /\ passes'[i] = passes[i] /\ passes[i].now.unit # u
          /\ passes[i].now.unit \in Units \ misused /\ PassSound(i)
      BY <2>2, <1>1, <1>18, <1>19, <1>20, <1>23
    <3>2. instance'[passes[i].now.unit] = instance[passes[i].now.unit]
      BY <3>1, <1>16
    <3> QED BY <3>1, <3>2, <1>9 DEF PassSound
  <2> QED BY <2>1, <2>2
<1>24. CallbacksInv'
  <2>1. ASSUME NEW v \in Units \ misused', instance'[v].handler
        PROVE  \E i \in 1 .. Len(passes') : passes'[i].now.unit = v
    <3>1. v # u
      BY <2>1, <1>11, <1>16
    <3>2. PICK i \in 1 .. Len(passes) : passes[i].now.unit = v
      BY <3>1, <2>1, <1>1, <1>9, <1>16 DEF CallbacksInv
    <3>3. i # n
      BY <3>1, <3>2, <1>5 DEF u
    <3> QED BY <3>2, <3>3, <1>18, <1>19
  <2>2. ASSUME NEW i \in 1 .. Len(passes'), NEW j \in 1 .. Len(passes'),
               passes'[i].now.unit = passes'[j].now.unit, passes'[i].now.unit \in Units \ misused'
        PROVE  i = j
    <3>1. i # n /\ j # n
      BY <2>2, <1>13, <1>18, UnitsAssumption DEF UnitsAssumption
    <3> QED BY <3>1, <2>2, <1>1, <1>9, <1>18, <1>19 DEF CallbacksInv
  <2> QED BY <2>1, <2>2 DEF CallbacksInv
<1>25. SourcesInv'
  <2>1. \A v \in Units : instance'[v].started = instance[v].started /\ instance'[v].source = instance[v].source
    BY <1>11, <1>16
  <2>2. SourcesInv /\ sources' = sources /\ generated' = generated /\ misused' = misused
    BY <1>1, <1>9
  <2> QED BY <2>1, <2>2 DEF SourcesInv
<1>26. (\A i \in 1 .. Len(passes') : PassSound(i)') /\ (\A v \in Units \ misused' : UnitSound(v)')
  BY <1>9, <1>22, <1>23 DEF PassSound
<1>27. PanicsJustly'
  BY <1>1, <1>9 DEF PanicsJustly
<1> QED BY <1>18, <1>21, <1>24, <1>25, <1>26, <1>27 DEF UnitInv

-----------------------------------------------------------------------------
(* Every behaviour                                                         *)

\* Every step keeps what holds.
LEMMA UnitsStep ==
  ASSUME UnitInv, UnitsAssumption, [UnitNext]_unitVars
  PROVE  UnitInv'
<1>1. CASE UNCHANGED unitVars
  <2>1. UNCHANGED <<instance, in_loop, passes, sources, generated, clock, rendered, misused, unit_panic>>
    BY <1>1 DEF unitVars
  <2> QED BY <2>1 DEF UnitInv, UnitTypeOK, UnitSound, PassSound, SourcesInv, CallbacksInv, ListedExist, PanicsJustly
<1>2. ASSUME NEW u \in Units, AudioComponentInstanceNew(u) PROVE UnitInv'
  BY <1>2, NewUnitStep
<1>3. ASSUME NEW u \in Units, AudioUnitSetProperty(u) PROVE UnitInv'
  BY <1>3, SetPropertyStep
<1>4. ASSUME NEW u \in Units, AudioUnitInitialize(u) \/ AudioUnitUninitialize(u) PROVE UnitInv'
  BY <1>4, ListStep
<1>5. ASSUME NEW u \in Units, AudioOutputUnitStart(u) PROVE UnitInv'
  BY <1>5, StartStep
<1>6. ASSUME NEW u \in Units, AudioOutputUnitStop(u) PROVE UnitInv'
  BY <1>6, StopStep
<1>7. ASSUME NEW u \in Units, AudioComponentInstanceDispose(u) PROVE UnitInv'
  BY <1>7, DisposeStep
<1>8. CASE PassBegins
  BY <1>8, PassBeginsStep
<1>9. CASE RenderBegins
  BY <1>9, RenderBeginsStep
<1>10. CASE RenderEnds
  BY <1>10, RenderEndsStep
<1>11. CASE PassEnds
  BY <1>11, PassEndsStep
<1>12. CASE TimePasses
  BY <1>12, TimeStep
<1> QED BY <1>1, <1>2, <1>3, <1>4, <1>5, <1>6, <1>7, <1>8, <1>9, <1>10, <1>11, <1>12 DEF UnitNext

\* For any units, sources, passes and times, and whatever the guest does, in its
\* callbacks too: render_audio_unit panics only on a unit that was misused
\* (Misuses); a unit that was not has its source, which is its own, is rendered no
\* time twice, and its flag tells whether its callback runs; and when none was, the
\* OpenAL sources are those of the started units.
THEOREM UnitsSoundForEver == UnitSpec => []UnitsRenderOnce
<1>1. UnitInit => UnitInv
  BY UnitsStart, UnitsAssumption
<1>2. UnitInv /\ [UnitNext]_unitVars => UnitInv'
  BY UnitsStep, UnitsAssumption
<1>3. UnitInv => UnitsRenderOnce
  BY Sound, UnitsAssumption
<1> QED BY <1>1, <1>2, <1>3, PTL DEF UnitSpec

-----------------------------------------------------------------------------
(* An audio queue: the invariant                                           *)

\* Callbacks do not dispose of the queue, and neither pause it nor stop it at once.
LeavesRunning == QueueCareful /\ {"Pause", "Stop", "Dispose"} \cap Inside = {}

QueueTypeOK ==
    /\ al_queue \in Seq(Buffers) /\ buffer_queue \in Seq(Buffers)
    /\ source \in {"None", "INITIAL", "PLAYING", "PAUSED", "STOPPED"}
    /\ played \in 0 .. Len(al_queue)

\* The source only plays for a queue that runs; the handler's copy of is_running
\* stays true to it until the source has been restarted; and the queue outlives
\* the handler's visit.
AudioQueueInv ==
    /\ QueueTypeOK /\ ~queue_panic
    /\ Leads(al_queue, buffer_queue)
    /\ source = "None" => al_queue = <<>>
    /\ source = "PLAYING" => is_running # "Stopped"
    /\ at # "idle" => exists
    /\ at \in {"loop", "callback", "restart"} /\ saw # "Stopped" => is_running # "Stopped"

\* What is taken from the front of both queues leaves them in step.
LEMMA RestLeads ==
  ASSUME NEW S, NEW a \in Seq(S), NEW b \in Seq(S), Leads(a, b), NEW n \in 0 .. Len(a)
  PROVE  /\ SubSeq(a, n + 1, Len(a)) \in Seq(S) /\ SubSeq(b, n + 1, Len(b)) \in Seq(S)
         /\ Len(SubSeq(a, n + 1, Len(a))) = Len(a) - n
         /\ Leads(SubSeq(a, n + 1, Len(a)), SubSeq(b, n + 1, Len(b)))
         /\ n <= Len(b)
<1>1. /\ Len(a) \in Nat /\ Len(b) \in Nat /\ Len(a) <= Len(b) /\ n \in Nat /\ n <= Len(a)
      /\ \A i \in 1 .. Len(a) : a[i] \in S /\ a[i] = b[i]
      /\ \A i \in 1 .. Len(b) : b[i] \in S
  BY LenProperties, ElementOfSeq DEF Leads
<1>2. ASSUME NEW s \in Seq(S), Len(s) \in Nat, n <= Len(s), \A i \in 1 .. Len(s) : s[i] \in S
      PROVE  /\ SubSeq(s, n + 1, Len(s)) \in Seq(S) /\ Len(SubSeq(s, n + 1, Len(s))) = Len(s) - n
             /\ \A i \in 1 .. Len(s) - n : SubSeq(s, n + 1, Len(s))[i] = s[n + i]
  <2>1. \A i \in n + 1 .. Len(s) : s[i] \in S
    BY <1>1, <1>2
  <2>2. /\ SubSeq(s, n + 1, Len(s)) \in Seq(S)
        /\ Len(SubSeq(s, n + 1, Len(s))) = IF n + 1 <= Len(s) THEN Len(s) - (n + 1) + 1 ELSE 0
        /\ \A i \in 1 .. Len(s) - (n + 1) + 1 : SubSeq(s, n + 1, Len(s))[i] = s[n + 1 + i - 1]
    BY <1>1, <1>2, <2>1, SubSeqProperties
  <2>3. \A i \in 1 .. Len(s) - n : i \in 1 .. Len(s) - (n + 1) + 1 /\ n + 1 + i - 1 = n + i
    BY <1>1, <1>2
  <2> QED BY <1>1, <1>2, <2>2, <2>3
<1> DEFINE c == SubSeq(a, n + 1, Len(a))
           d == SubSeq(b, n + 1, Len(b))
<1>3. c \in Seq(S) /\ Len(c) = Len(a) - n /\ \A i \in 1 .. Len(a) - n : c[i] = a[n + i]
  BY <1>1, <1>2
<1>4. d \in Seq(S) /\ Len(d) = Len(b) - n /\ \A i \in 1 .. Len(b) - n : d[i] = b[n + i]
  <2>1. n <= Len(b)
    BY <1>1
  <2> QED BY <1>1, <1>2, <2>1
<1> HIDE DEF c, d
<1>5. Len(c) <= Len(d)
  BY <1>1, <1>3, <1>4
<1>6. \A i \in 1 .. Len(c) : i \in 1 .. Len(a) - n /\ i \in 1 .. Len(b) - n /\ n + i \in 1 .. Len(a)
  BY <1>1, <1>3
<1>7. \A i \in 1 .. Len(c) : c[i] = d[i]
  BY <1>1, <1>3, <1>4, <1>6
<1>8. n <= Len(b)
  BY <1>1
<1> QED BY <1>3, <1>4, <1>5, <1>7, <1>8 DEF Leads, c, d

\* What is added to the shorter queue from the longer one leaves them in step.
LEMMA MoreLeads ==
  ASSUME NEW S, NEW a \in Seq(S), NEW b \in Seq(S), Leads(a, b),
         NEW n \in Len(a) .. Len(b)
  PROVE  /\ a \o SubSeq(b, Len(a) + 1, n) \in Seq(S)
         /\ Len(a \o SubSeq(b, Len(a) + 1, n)) = n
         /\ Leads(a \o SubSeq(b, Len(a) + 1, n), b)
<1> DEFINE c == SubSeq(b, Len(a) + 1, n)
           m == Len(a)
<1>1. /\ m \in Nat /\ Len(b) \in Nat /\ n \in Nat /\ m <= n /\ n <= Len(b)
      /\ \A i \in 1 .. m : a[i] = b[i]
      /\ \A i \in 1 .. Len(b) : b[i] \in S
  BY LenProperties, ElementOfSeq DEF Leads
<1>2. c \in Seq(S) /\ Len(c) = n - m /\ \A i \in 1 .. n - m : c[i] = b[m + i]
  <2>1. \A i \in m + 1 .. n : b[i] \in S
    BY <1>1
  <2>2. /\ SubSeq(b, m + 1, n) \in Seq(S)
        /\ Len(SubSeq(b, m + 1, n)) = IF m + 1 <= n THEN n - (m + 1) + 1 ELSE 0
        /\ \A i \in 1 .. n - (m + 1) + 1 : SubSeq(b, m + 1, n)[i] = b[m + 1 + i - 1]
    BY <1>1, <2>1, SubSeqProperties
  <2>3. \A i \in 1 .. n - m : i \in 1 .. n - (m + 1) + 1 /\ m + 1 + i - 1 = m + i
    BY <1>1
  <2> QED BY <1>1, <2>2, <2>3
<1> HIDE DEF c
<1>3. /\ a \o c \in Seq(S) /\ Len(a \o c) = Len(a) + Len(c)
      /\ \A i \in 1 .. Len(a) + Len(c) : (a \o c)[i] = IF i <= Len(a) THEN a[i] ELSE c[i - Len(a)]
  BY <1>2, ConcatProperties
<1>4. Len(a \o c) = n /\ Len(a) + Len(c) = n
  BY <1>1, <1>2, <1>3
<1>5. ASSUME NEW i \in 1 .. n PROVE (a \o c)[i] = b[i]
  <2>1. CASE i <= Len(a)
    <3>1. i \in 1 .. m
      BY <2>1, <1>1
    <3> QED BY <2>1, <3>1, <1>1, <1>3, <1>4
  <2>2. CASE ~(i <= Len(a))
    <3>1. i - Len(a) \in 1 .. n - m /\ m + (i - Len(a)) = i
      BY <2>2, <1>1
    <3> QED BY <2>2, <3>1, <1>2, <1>3, <1>4
  <2> QED BY <2>1, <2>2
<1>6. Leads(a \o c, b)
  BY <1>1, <1>4, <1>5 DEF Leads
<1> QED BY <1>3, <1>4, <1>6 DEF c

\* The source has processed no more than it holds.
LEMMA ProcessedBound ==
  ASSUME QueueTypeOK, NEW s
  PROVE  /\ Len(al_queue) \in Nat /\ Len(buffer_queue) \in Nat
         /\ Processed(s, al_queue, played) \in 0 .. Len(al_queue)
<1>1. /\ al_queue \in Seq(Buffers) /\ buffer_queue \in Seq(Buffers) /\ played \in 0 .. Len(al_queue)
  BY DEF QueueTypeOK
<1>2. Len(al_queue) \in Nat /\ Len(buffer_queue) \in Nat
  BY <1>1, LenProperties
<1>3. Processed(s, al_queue, played) \in {Len(al_queue), played, 0}
  BY DEF Processed
<1> QED BY <1>1, <1>2, <1>3

\* Priming keeps the queues in step: its assertion holds, and the source has no
\* fewer buffers than before.
LEMMA PrimeLeads ==
  ASSUME AudioQueueInv
  PROVE  /\ prime_ok
         /\ primed_queue \in Seq(Buffers) /\ Leads(primed_queue, buffer_queue)
         /\ Len(al_queue) <= Len(primed_queue)
         /\ primed_source \in {"INITIAL", "PLAYING", "PAUSED", "STOPPED"}
         /\ primed_source = "PLAYING" => source = "PLAYING"
<1> DEFINE n == primed_length(primed_source)
           c == Processed(primed_source, al_queue, played)
<1>1. /\ QueueTypeOK /\ Leads(al_queue, buffer_queue)
      /\ al_queue \in Seq(Buffers) /\ buffer_queue \in Seq(Buffers)
  BY DEF AudioQueueInv, QueueTypeOK
<1>2. Len(al_queue) \in Nat /\ Len(buffer_queue) \in Nat /\ c \in 0 .. Len(al_queue)
  BY <1>1, ProcessedBound
<1>3. Len(al_queue) <= Len(buffer_queue)
  BY <1>1 DEF Leads
<1> HIDE DEF c
<1>4. n \in Len(al_queue) .. Len(buffer_queue)
  <2>1. n = IF (IF primed_source = "STOPPED" THEN Len(buffer_queue) ELSE c + 2) > Len(buffer_queue)
            THEN Len(buffer_queue)
            ELSE IF (IF primed_source = "STOPPED" THEN Len(buffer_queue) ELSE c + 2) < Len(al_queue)
                 THEN Len(al_queue)
                 ELSE IF primed_source = "STOPPED" THEN Len(buffer_queue) ELSE c + 2
    BY DEF primed_length, c
  <2> HIDE DEF n
  <2> QED BY <2>1, <1>2, <1>3
<1> HIDE DEF n
<1>5. /\ primed_queue \in Seq(Buffers) /\ Len(primed_queue) = n /\ Leads(primed_queue, buffer_queue)
  BY <1>1, <1>4, MoreLeads DEF primed_queue, n
<1>6. prime_ok
  BY <1>3 DEF prime_ok
<1>7. Len(al_queue) <= Len(primed_queue)
  BY <1>2, <1>4, <1>5
<1>8. /\ primed_source \in {"INITIAL", "PLAYING", "PAUSED", "STOPPED"}
      /\ primed_source = "PLAYING" => source = "PLAYING"
  BY <1>1 DEF primed_source, QueueTypeOK
<1> QED BY <1>5, <1>6, <1>7, <1>8

\* Resetting a queue that was not only primed leaves both queues empty.
LEMMA ResetEmpties ==
  ASSUME AudioQueueInv, reset_queue, source # "INITIAL" \/ al_queue = <<>>
  PROVE  /\ al_queue' = <<>> /\ buffer_queue' = <<>> /\ played' = 0 /\ ~queue_panic'
         /\ source' \in {"None", "INITIAL", "STOPPED"}
<1> DEFINE s == StoppedState(source)
           n == unqueued(s)
<1>1. /\ QueueTypeOK /\ Leads(al_queue, buffer_queue) /\ al_queue \in Seq(Buffers)
      /\ source \in {"None", "INITIAL", "PLAYING", "PAUSED", "STOPPED"}
      /\ source = "None" => al_queue = <<>>
  BY DEF AudioQueueInv, QueueTypeOK
<1>2. /\ source' = s /\ al_queue' = SubSeq(al_queue, n + 1, Len(al_queue))
      /\ played' = 0 /\ buffer_queue' = <<>>
      /\ queue_panic' = (source # "None" /\ n > Len(buffer_queue))
  BY DEF reset_queue
<1>3. s \in {"None", "INITIAL", "STOPPED"} /\ (s = "STOPPED" \/ al_queue = <<>>)
  BY <1>1 DEF StoppedState
<1>4. Len(al_queue) \in Nat /\ Len(buffer_queue) \in Nat /\ Len(al_queue) <= Len(buffer_queue)
  BY <1>1, ProcessedBound DEF Leads
<1>5. n = Len(al_queue)
  <2>1. CASE s = "STOPPED"
    BY <2>1 DEF unqueued, Processed
  <2>2. CASE al_queue = <<>>
    <3>1. Len(al_queue) = 0 /\ n \in 0 .. Len(al_queue)
      BY <2>2, <1>1, ProcessedBound DEF unqueued
    <3> QED BY <3>1
  <2> QED BY <1>3, <2>1, <2>2
<1> HIDE DEF s, n
<1>6. (source # "None" /\ n > Len(buffer_queue)) = FALSE
  BY <1>4, <1>5
<1>7. al_queue' = <<>>
  <2>1. n \in 0 .. Len(al_queue) /\ Len(al_queue) - n = 0
    BY <1>4, <1>5
  <2>2. SubSeq(al_queue, n + 1, Len(al_queue)) \in Seq(Buffers)
        /\ Len(SubSeq(al_queue, n + 1, Len(al_queue))) = Len(al_queue) - n
    <3>1. buffer_queue \in Seq(Buffers)
      BY <1>1 DEF QueueTypeOK
    <3> QED BY <1>1, <2>1, <3>1, RestLeads
  <2> QED BY <2>1, <2>2, <1>2, EmptySeq
<1> QED BY <1>2, <1>3, <1>6, <1>7

\* Empty queues are in step.
LEMMA EmptyLeads == <<>> \in Seq(Buffers) /\ Len(<<>>) = 0 /\ 0 \in 0 .. Len(<<>>) /\ Leads(<<>>, <<>>)
BY EmptySeq DEF Leads

-----------------------------------------------------------------------------
(* An audio queue: the guest's calls and the device                        *)

\* Calls that touch neither the source nor is_running
LEMMA BufferCallsStep ==
  ASSUME AudioQueueInv,
         \/ \E b \in Buffers : AudioQueueAllocateBuffer(b) \/ AudioQueueEnqueueBuffer(b)
                               \/ AudioQueueFreeBuffer(b)
  PROVE  AudioQueueInv'
<1>1. /\ QueueTypeOK /\ ~queue_panic /\ Leads(al_queue, buffer_queue)
      /\ al_queue \in Seq(Buffers) /\ buffer_queue \in Seq(Buffers)
  BY DEF AudioQueueInv, QueueTypeOK
<1>2. UNCHANGED <<exists, is_running, source, al_queue, played, at, saw, queue_panic>>
  BY DEF AudioQueueAllocateBuffer, AudioQueueEnqueueBuffer, AudioQueueFreeBuffer, qvars, hvars
<1>3. buffer_queue' = buffer_queue \/ \E b \in Buffers : buffer_queue' = Append(buffer_queue, b)
  BY DEF AudioQueueAllocateBuffer, AudioQueueEnqueueBuffer, AudioQueueFreeBuffer
<1>4. buffer_queue' \in Seq(Buffers) /\ Leads(al_queue, buffer_queue')
  <2>1. ASSUME NEW b \in Buffers, buffer_queue' = Append(buffer_queue, b)
        PROVE  buffer_queue' \in Seq(Buffers) /\ Leads(al_queue, buffer_queue')
    <3>1. /\ buffer_queue' \in Seq(Buffers) /\ Len(buffer_queue) \in Nat
          /\ Len(buffer_queue') = Len(buffer_queue) + 1
          /\ \A i \in 1 .. Len(buffer_queue) : buffer_queue'[i] = buffer_queue[i]
      BY <1>1, <2>1, Pushed
    <3>2. Len(al_queue) \in Nat /\ Len(al_queue) <= Len(buffer_queue)
      BY <1>1, ProcessedBound DEF Leads
    <3>3. /\ Len(al_queue) <= Len(buffer_queue')
          /\ \A i \in 1 .. Len(al_queue) : i \in 1 .. Len(buffer_queue)
      BY <3>1, <3>2
    <3>4. \A i \in 1 .. Len(al_queue) : al_queue[i] = buffer_queue'[i]
      BY <3>1, <3>3, <1>1 DEF Leads
    <3> QED BY <3>1, <3>3, <3>4 DEF Leads
  <2> QED BY <1>1, <1>3, <2>1
<1> QED BY <1>2, <1>4 DEF AudioQueueInv, QueueTypeOK

\* The queue is made, or disposed of while the run loop does not visit it.
LEMMA ExistenceStep ==
  ASSUME AudioQueueInv, LeavesRunning, AudioQueueNewOutput \/ AudioQueueDispose
  PROVE  AudioQueueInv'
<1>1. at = "idle" /\ ~queue_panic
  BY DEF AudioQueueInv, AudioQueueNewOutput, AudioQueueDispose, Can, LeavesRunning
<1>2. /\ buffer_queue' = <<>> /\ source' = "None" /\ al_queue' = <<>> /\ played' = 0
      /\ UNCHANGED <<at, saw, queue_panic>>
  BY DEF AudioQueueNewOutput, AudioQueueDispose, hvars
<1> QED BY <1>1, <1>2, EmptyLeads DEF AudioQueueInv, QueueTypeOK

\* More is queued on the source.
LEMMA PrimeStep ==
  ASSUME AudioQueueInv, AudioQueuePrime
  PROVE  AudioQueueInv'
<1>1. /\ QueueTypeOK /\ prime_ok /\ Leads(al_queue, buffer_queue)
      /\ primed_queue \in Seq(Buffers) /\ Leads(primed_queue, buffer_queue)
      /\ Len(al_queue) <= Len(primed_queue)
      /\ primed_source \in {"INITIAL", "PLAYING", "PAUSED", "STOPPED"}
      /\ primed_source = "PLAYING" => source = "PLAYING"
  BY PrimeLeads DEF AudioQueueInv
<1>2. /\ queue_panic' = ~prime_ok
      /\ UNCHANGED <<exists, is_running, buffer_queue, played, at, saw>>
      /\ \/ source' = primed_source /\ al_queue' = primed_queue
         \/ source' = source /\ al_queue' = al_queue
  BY DEF AudioQueuePrime, qvars, hvars
<1>3. ~queue_panic'
  BY <1>1, <1>2
<1>4. played \in 0 .. Len(al_queue')
  <2>1. Len(al_queue) \in Nat /\ Len(primed_queue) \in Nat /\ played \in 0 .. Len(al_queue)
    BY <1>1, ProcessedBound, LenProperties DEF QueueTypeOK
  <2> QED BY <2>1, <1>1, <1>2
<1> QED BY <1>1, <1>2, <1>3, <1>4 DEF AudioQueueInv, QueueTypeOK

\* The queue runs, and its source plays unless it has nothing to play.
LEMMA StartQueueStep ==
  ASSUME AudioQueueInv, AudioQueueStart
  PROVE  AudioQueueInv'
<1>1. /\ QueueTypeOK /\ prime_ok /\ Leads(al_queue, buffer_queue)
      /\ primed_queue \in Seq(Buffers) /\ Leads(primed_queue, buffer_queue)
      /\ Len(al_queue) <= Len(primed_queue)
  BY PrimeLeads DEF AudioQueueInv
<1>2. /\ queue_panic' = ~prime_ok /\ is_running' = "Running"
      /\ UNCHANGED <<exists, buffer_queue, at, saw>>
      /\ \/ /\ al_queue' = primed_queue /\ source' = PlayedState(primed_queue)
            /\ played' = PlayedFrom(source, played)
         \/ UNCHANGED <<source, al_queue, played>>
  BY DEF AudioQueueStart, hvars
<1>3. ~queue_panic'
  BY <1>1, <1>2
<1>4. played' \in 0 .. Len(al_queue')
  <2>1. Len(al_queue) \in Nat /\ Len(primed_queue) \in Nat /\ played \in 0 .. Len(al_queue)
    BY <1>1, ProcessedBound, LenProperties DEF QueueTypeOK
  <2>2. PlayedFrom(source, played) \in {played, 0}
    BY DEF PlayedFrom
  <2> QED BY <2>1, <2>2, <1>1, <1>2
<1>5. PlayedState(primed_queue) \in {"STOPPED", "PLAYING"}
  BY DEF PlayedState
<1> QED BY <1>1, <1>2, <1>3, <1>4, <1>5 DEF AudioQueueInv, QueueTypeOK

\* A queue is paused, stopped or reset.
LEMMA StopsStep ==
  ASSUME AudioQueueInv, LeavesRunning,
         AudioQueuePause \/ AudioQueueStop \/ AudioQueueStopAsync \/ AudioQueueReset
  PROVE  AudioQueueInv'
<1>1. QueueTypeOK /\ ~queue_panic
  BY DEF AudioQueueInv
<1>2. CASE AudioQueuePause
  <2>1. at = "idle" /\ (source' = "PAUSED" \/ (source' = source /\ source # "PLAYING"))
        /\ (source' = "None" => source = "None")
    BY <1>2 DEF AudioQueuePause, Can, LeavesRunning
  <2>2. UNCHANGED <<exists, buffer_queue, al_queue, played, at, saw, queue_panic>>
    BY <1>2 DEF AudioQueuePause, hvars
  <2> QED BY <2>1, <2>2 DEF AudioQueueInv, QueueTypeOK
<1>3. CASE AudioQueueStop
  <2>1. at = "idle" /\ reset_queue /\ (source # "INITIAL" \/ al_queue = <<>>)
    BY <1>3 DEF AudioQueueStop, CanReset, Can, LeavesRunning
  <2>2. /\ al_queue' = <<>> /\ buffer_queue' = <<>> /\ played' = 0 /\ ~queue_panic'
        /\ source' \in {"None", "INITIAL", "STOPPED"}
    BY <2>1, ResetEmpties
  <2>3. UNCHANGED <<exists, at, saw>>
    BY <1>3 DEF AudioQueueStop, hvars
  <2> QED BY <2>1, <2>2, <2>3, EmptyLeads DEF AudioQueueInv, QueueTypeOK
<1>4. CASE AudioQueueStopAsync
  <2>1. is_running' = "Stopping"
        /\ UNCHANGED <<exists, buffer_queue, source, al_queue, played, at, saw, queue_panic>>
    BY <1>4 DEF AudioQueueStopAsync, hvars
  <2> QED BY <2>1 DEF AudioQueueInv, QueueTypeOK
<1>5. CASE AudioQueueReset
  <2>1. reset_queue /\ (source # "INITIAL" \/ al_queue = <<>>)
    BY <1>5 DEF AudioQueueReset, CanReset, LeavesRunning
  <2>2. /\ al_queue' = <<>> /\ buffer_queue' = <<>> /\ played' = 0 /\ ~queue_panic'
        /\ source' \in {"None", "INITIAL", "STOPPED"}
    BY <2>1, ResetEmpties
  <2>3. UNCHANGED <<exists, is_running, at, saw>>
    BY <1>5 DEF AudioQueueReset, qvars, hvars
  <2> QED BY <2>2, <2>3, EmptyLeads DEF AudioQueueInv, QueueTypeOK
<1> QED BY <1>2, <1>3, <1>4, <1>5

\* The device plays a buffer.
LEMMA PlaysStep ==
  ASSUME AudioQueueInv, al_plays
  PROVE  AudioQueueInv'
<1>1. /\ QueueTypeOK /\ played \in Nat /\ Len(al_queue) \in Nat
  BY ProcessedBound DEF AudioQueueInv, QueueTypeOK
<1>2. /\ played < Len(al_queue) /\ played' = played + 1 /\ source = "PLAYING"
      /\ source' \in {"STOPPED", "PLAYING"}
      /\ UNCHANGED <<exists, is_running, buffer_queue, al_queue, at, saw, queue_panic>>
  BY DEF al_plays, qvars, hvars
<1>3. played' \in 0 .. Len(al_queue)
  BY <1>1, <1>2
<1> QED BY <1>2, <1>3 DEF AudioQueueInv, QueueTypeOK

-----------------------------------------------------------------------------
(* An audio queue: the run loop's visits                                   *)

\* The buffers that the source has processed leave both queues.
LEMMA VisitStep ==
  ASSUME AudioQueueInv, handle_audio_queue
  PROVE  AudioQueueInv'
<1> DEFINE n == unqueued(source)
<1>1. /\ QueueTypeOK /\ Leads(al_queue, buffer_queue)
      /\ al_queue \in Seq(Buffers) /\ buffer_queue \in Seq(Buffers)
      /\ n \in 0 .. Len(al_queue) /\ Len(al_queue) \in Nat /\ Len(buffer_queue) \in Nat
  BY ProcessedBound DEF AudioQueueInv, QueueTypeOK, unqueued
<1>2. /\ exists /\ source # "None" /\ queue_panic' = (n > Len(buffer_queue))
      /\ buffer_queue' = SubSeq(buffer_queue, n + 1, Len(buffer_queue))
      /\ al_queue' = SubSeq(al_queue, n + 1, Len(al_queue))
      /\ played' = 0 /\ saw' = is_running /\ at' = "loop"
      /\ UNCHANGED <<exists, is_running, source>>
  BY DEF handle_audio_queue, qvars
<1> HIDE DEF n
<1>3. /\ al_queue' \in Seq(Buffers) /\ buffer_queue' \in Seq(Buffers)
      /\ Len(al_queue') = Len(al_queue) - n /\ Leads(al_queue', buffer_queue') /\ n <= Len(buffer_queue)
  BY <1>1, <1>2, RestLeads
<1>4. (n > Len(buffer_queue)) = FALSE /\ 0 \in 0 .. Len(al_queue')
  BY <1>1, <1>3
<1> QED BY <1>1, <1>2, <1>3, <1>4 DEF AudioQueueInv, QueueTypeOK

\* After the callbacks the queue is there still, and primed.
LEMMA VisitPrimesStep ==
  ASSUME AudioQueueInv, handle_prime
  PROVE  AudioQueueInv'
<1>1. /\ QueueTypeOK /\ prime_ok /\ ~queue_panic /\ exists
      /\ primed_queue \in Seq(Buffers) /\ Leads(primed_queue, buffer_queue)
      /\ Len(al_queue) <= Len(primed_queue)
      /\ primed_source \in {"INITIAL", "PLAYING", "PAUSED", "STOPPED"}
      /\ primed_source = "PLAYING" => source = "PLAYING"
  BY PrimeLeads DEF AudioQueueInv, handle_prime
<1>2. /\ source' = primed_source /\ al_queue' = primed_queue
      /\ at \in {"loop", "callback"} /\ at' = "restart"
      /\ UNCHANGED <<exists, is_running, buffer_queue, played, saw, queue_panic>>
  BY <1>1 DEF handle_prime, qvars
<1>3. played \in 0 .. Len(al_queue')
  <2>1. Len(al_queue) \in Nat /\ Len(primed_queue) \in Nat /\ played \in 0 .. Len(al_queue)
    BY <1>1, ProcessedBound, LenProperties DEF QueueTypeOK
  <2> QED BY <2>1, <1>1, <1>2
<1> QED BY <1>1, <1>2, <1>3 DEF AudioQueueInv, QueueTypeOK

\* The other steps of a visit: a callback, restarting the source, completing an
\* asynchronous stop, and the end.
LEMMA VisitGoesOnStep ==
  ASSUME AudioQueueInv, call_back \/ handle_restart \/ handle_stopping \/ handle_done
  PROVE  AudioQueueInv'
<1>1. QueueTypeOK /\ ~queue_panic /\ Len(al_queue) \in Nat
  BY ProcessedBound DEF AudioQueueInv
<1>2. CASE call_back
  <2>1. /\ at \in {"loop", "callback"} /\ at' = "callback"
        /\ UNCHANGED <<exists, is_running, buffer_queue, source, al_queue, played, saw, queue_panic>>
    BY <1>2 DEF call_back, qvars
  <2> QED BY <2>1 DEF AudioQueueInv, QueueTypeOK
<1>3. CASE handle_restart
  <2>1. /\ at = "restart" /\ at' = "stopping"
        /\ UNCHANGED <<exists, is_running, buffer_queue, al_queue, saw, queue_panic>>
        /\ \/ /\ saw # "Stopped" /\ source' \in {"STOPPED", "PLAYING"} /\ played' = 0
           \/ UNCHANGED <<source, played>>
    BY <1>3 DEF handle_restart, qvars, PlayedState
  <2>2. 0 \in 0 .. Len(al_queue)
    BY <1>1
  <2> QED BY <2>1, <2>2 DEF AudioQueueInv, QueueTypeOK
<1>4. CASE handle_stopping
  <2>1. CASE saw = "Stopping" /\ source = "STOPPED"
    <3>1. reset_queue /\ at' = "notify" /\ at = "stopping" /\ UNCHANGED exists
      BY <1>4, <2>1 DEF handle_stopping
    <3>2. /\ al_queue' = <<>> /\ buffer_queue' = <<>> /\ played' = 0 /\ ~queue_panic'
          /\ source' \in {"None", "INITIAL", "STOPPED"}
      BY <2>1, <3>1, ResetEmpties
    <3> QED BY <3>1, <3>2, EmptyLeads DEF AudioQueueInv, QueueTypeOK
  <2>2. CASE ~(saw = "Stopping" /\ source = "STOPPED")
    <3>1. /\ at' = "idle"
          /\ UNCHANGED <<exists, is_running, buffer_queue, source, al_queue, played, saw, queue_panic>>
      BY <1>4, <2>2 DEF handle_stopping
    <3> QED BY <3>1 DEF AudioQueueInv, QueueTypeOK
  <2> QED BY <2>1, <2>2
<1>5. CASE handle_done
  <2>1. exists /\ at' = "idle" /\ queue_panic' = ~exists
        /\ UNCHANGED <<exists, is_running, buffer_queue, source, al_queue, played, saw>>
    BY <1>5 DEF handle_done, AudioQueueInv, qvars
  <2>2. ~queue_panic'
    BY <2>1
  <2> QED BY <2>1, <2>2 DEF AudioQueueInv, QueueTypeOK
<1> QED BY <1>2, <1>3, <1>4, <1>5

\* Whatever is enqueued, primed, started, stopped and reset between two visits of
\* the run loop or in the callbacks of one, for any number of buffers: the OpenAL
\* queue stays a prefix of the guest's, no assertion or lookup of
\* handle_audio_queue fails, and the source only plays for a queue that runs.
THEOREM QueueSoundForEver ==
  ASSUME LeavesRunning
  PROVE  AudioQueueSpec => []AudioQueueSound
<1>1. AudioQueueInit => AudioQueueInv
  BY EmptyLeads DEF AudioQueueInit, AudioQueueInv, QueueTypeOK
<1>2. AudioQueueInv /\ [AudioQueueNext]_avars => AudioQueueInv'
  <2> SUFFICES ASSUME AudioQueueInv, [AudioQueueNext]_avars PROVE AudioQueueInv'
    OBVIOUS
  <2>1. CASE UNCHANGED avars
    <3>1. UNCHANGED <<exists, buffer_queue, is_running, source, al_queue, played, at, saw, queue_panic>>
      BY <2>1 DEF avars
    <3> QED BY <3>1 DEF AudioQueueInv, QueueTypeOK
  <2>2. CASE GuestCalls
    BY <2>2, BufferCallsStep, ExistenceStep, PrimeStep, StartQueueStep, StopsStep DEF GuestCalls
  <2>3. CASE Handler
    BY <2>3, VisitStep, VisitPrimesStep, VisitGoesOnStep DEF Handler
  <2>4. CASE al_plays
    BY <2>4, PlaysStep
  <2> QED BY <2>1, <2>2, <2>3, <2>4 DEF AudioQueueNext
<1>3. AudioQueueInv => AudioQueueSound
  BY LeadsIsPrefix DEF AudioQueueInv, QueueTypeOK, AudioQueueSound, QueuesInSync
<1> QED BY <1>1, <1>2, <1>3, PTL DEF AudioQueueSpec

-----------------------------------------------------------------------------
(* AVAudioPlayer: the stream of packets                                    *)

\* What a guest takes care of that plays a file with one player at a time.
PlayerCare == {"play_once", "stop_first", "resume_later", "seek_first"} \subseteq PlayerCareful

PlayerRecord ==
    [current : 0 .. Packets, seek : Nat, playing : BOOLEAN, volume : 0 .. 1, loops : Int, file : BOOLEAN]
RunStates == {"Stopped", "Running", "Stopping"}
QueueRecord ==
    [exists : BOOLEAN, running : RunStates, buffers : Seq(Seq(Nat)), volume : 0 .. 1]
SourceStates == {"INITIAL", "PLAYING", "PAUSED", "STOPPED"}
AlRecord == [state : SourceStates, queued : Nat, played : Nat]
AskedRecord == [first : 0 .. Packets, loops : Int]

\* The n-th packet to be heard, and how many there are, of what a asks for.
ExpectedOf(a, n) ==
    LET rest == Packets - a.first
    IN IF n <= rest THEN a.first + n - 1 ELSE (n - rest - 1) % Packets
AllOf(a) == Packets - a.first + a.loops * Packets

\* How many packets have been put in buffers when the player has started over
\* d times.
PutAfter(a, p, d) == p.current - a.first + d * Packets
Started(a, p, d) ==
    /\ d = 0 => a.first <= p.current
    /\ a.loops >= 0 => p.loops >= 0 /\ d + p.loops = a.loops
    /\ a.loops < 0 => p.loops = a.loops

\* Buffers end at the places of the stream that ends gives: each holds what is
\* expected from where the one before ends, and nothing is beyond what was put.
Continues(a, bufs, ends, put) ==
    /\ ends \in [0 .. Len(bufs) -> Int]
    /\ \A i \in 1 .. Len(bufs) :
          /\ ends[i] = ends[i - 1] + Len(bufs[i])
          /\ \A j \in 1 .. Len(bufs[i]) : bufs[i][j] = ExpectedOf(a, ends[i - 1] + j)
    /\ \A i \in 0 .. Len(bufs) : 0 <= ends[i] /\ ends[i] <= put
    /\ ends[Len(bufs)] = put

\* The first o buffers have been heard, h packets in all; the others, and then
\* what the player reads, continue the stream.
Stream(a, p, bufs, o, h) ==
    \E d \in Nat : \E ends \in [0 .. Len(bufs) -> Int] :
        /\ Started(a, p, d)
        /\ Continues(a, bufs, ends, PutAfter(a, p, d))
        /\ ends[o] = h

\* Multiples of the number of packets.
LEMMA TimesPackets ==
  ASSUME NEW d \in Int, NEW e \in Int
  PROVE  /\ d * Packets \in Int
         /\ (d + 1) * Packets = d * Packets + Packets
         /\ (d - 1) * Packets = d * Packets - Packets
         /\ d <= e => d * Packets <= e * Packets
         /\ d >= 0 => d * Packets >= 0
<1> DEFINE n == Packets
<1>1. n \in Nat
  BY PlayerAssumption
<1> HIDE DEF n
<1>2. /\ d * n \in Int /\ (d + 1) * n = d * n + n /\ (d - 1) * n = d * n - n
  BY <1>1
<1>3. d <= e => d * n <= e * n
  <2>1. SUFFICES ASSUME d <= e PROVE d * n <= e * n
    OBVIOUS
  <2>2. PICK k \in Nat : e = d + k
    <3>1. e - d \in Nat /\ e = d + (e - d)
      BY <2>1
    <3> QED BY <3>1
  <2>3. e * n = d * n + k * n /\ k * n >= 0
    BY <1>1, <2>2
  <2>4. d * n \in Int /\ k * n \in Int
    BY <1>1
  <2> QED BY <2>3, <2>4
<1>4. d >= 0 => d * n >= 0
  BY <1>1
<1> QED BY <1>2, <1>3, <1>4 DEF n

\* A number below Packets is what is left of it and a multiple.
LEMMA LeftOver ==
  ASSUME NEW k \in Nat, k < Packets, NEW e \in Nat
  PROVE  (k + e * Packets) % Packets = k
<1> DEFINE n == Packets
           x == k + e * n
           q == x \div n
           r == x % n
<1>1. n \in Nat /\ n > 0 /\ e * n \in Nat
  BY PlayerAssumption, TimesPackets
<1>2. x \in Nat
  BY <1>1
<1>3. q \in Int /\ r \in Int /\ x = n * q + r /\ 0 <= r /\ r < n
  <2> HIDE DEF x
  <2> QED BY <1>1, <1>2
<1>4. n * q = q * n /\ q * n \in Int
  BY <1>1, <1>3
<1>5. ASSUME q < e PROVE FALSE
  <2>1. q + 1 <= e
    BY <1>3, <1>5
  <2>2. (q + 1) * n <= e * n /\ (q + 1) * n = q * n + n
    BY <1>3, <2>1, TimesPackets
  <2> QED BY <1>1, <1>3, <1>4, <2>2
<1>6. ASSUME e < q PROVE FALSE
  <2>1. e + 1 <= q
    BY <1>3, <1>6
  <2>2. (e + 1) * n <= q * n /\ (e + 1) * n = e * n + n
    BY <1>3, <2>1, TimesPackets
  <2> QED BY <1>1, <1>3, <1>4, <2>2
<1>7. q = e
  BY <1>3, <1>5, <1>6
<1> QED BY <1>1, <1>3, <1>4, <1>7

\* What is read from packet from on.
LEMMA ReadPacketsAre ==
  ASSUME NEW from \in Nat, from < Packets
  PROVE  /\ ReadPackets(from) \in Seq(Nat) /\ Len(ReadPackets(from)) \in Nat \ {0}
         /\ from + Len(ReadPackets(from)) <= Packets
         /\ \A j \in 1 .. Len(ReadPackets(from)) : ReadPackets(from)[j] = from + j - 1
<1> DEFINE n == IF from + PacketsToRead <= Packets THEN PacketsToRead ELSE Packets - from
           s == [i \in 1 .. n |-> from + i - 1]
<1>1. n \in Nat \ {0} /\ from + n <= Packets
  BY PlayerAssumption
<1>2. ReadPackets(from) = s
  BY DEF ReadPackets
<1> HIDE DEF n
<1>3. \A i \in 1 .. n : from + i - 1 \in Nat
  BY <1>1
<1>4. s \in Seq(Nat) /\ Len(s) = n
  BY <1>1, <1>3
<1>5. \A j \in 1 .. n : s[j] = from + j - 1
  BY <1>3
<1> HIDE DEF s
<1> QED BY <1>1, <1>2, <1>4, <1>5

\* They are what is expected next.
LEMMA ExpectedNext ==
  ASSUME NEW a \in AskedRecord, NEW c \in Nat, NEW d \in Nat, d = 0 => a.first <= c,
         NEW j \in Nat \ {0}, c + j <= Packets
  PROVE  ExpectedOf(a, c - a.first + d * Packets + j) = c + j - 1
<1>1. Packets \in Nat /\ a.first \in Nat /\ a.first <= Packets /\ d * Packets \in Int
  BY PlayerAssumption, TimesPackets DEF AskedRecord
<1> DEFINE rest == Packets - a.first
           n == c - a.first + d * Packets + j
<1>2. CASE d = 0
  <2>1. d * Packets = 0
    BY <1>1, <1>2
  <2>2. n = c - a.first + j /\ n <= rest /\ a.first + n - 1 = c + j - 1
    BY <1>1, <2>1
  <2> QED BY <2>2 DEF ExpectedOf
<1>3. CASE d # 0
  <2>1. PICK e \in Nat : e = d - 1
    BY <1>3
  <2>2. e * Packets = d * Packets - Packets /\ e * Packets \in Int /\ e * Packets >= 0
    <3>1. d \in Int /\ e \in Int /\ e >= 0
      BY <2>1
    <3>2. (d - 1) * Packets = d * Packets - Packets
      BY <3>1, TimesPackets
    <3>3. e * Packets \in Int /\ e * Packets >= 0
      BY <3>1, TimesPackets
    <3> QED BY <2>1, <3>2, <3>3
  <2>3. ~(n <= rest) /\ n - rest - 1 = (c + j - 1) + e * Packets
    <3>1. PICK all, some, k, f \in Int :
             all = d * Packets /\ some = e * Packets /\ k = Packets /\ f = a.first
      BY <1>1, <2>2
    <3>2. some = all - k /\ some >= 0
      BY <2>2, <3>1
    <3>3. ~(c - f + all + j <= k - f) /\ c - f + all + j - (k - f) - 1 = (c + j - 1) + some
      <4>1. c \in Int /\ 0 <= c /\ j \in Int /\ 1 <= j
        OBVIOUS
      <4>2. all = some + k
        BY <3>1, <3>2
      <4> QED BY <3>2, <4>1, <4>2
    <3> QED BY <3>1, <3>3
  <2>4. c + j - 1 \in Nat /\ c + j - 1 < Packets
    BY <1>1
  <2>5. ((c + j - 1) + e * Packets) % Packets = c + j - 1
    BY <2>1, <2>4, LeftOver
  <2> QED BY <2>3, <2>5 DEF ExpectedOf
<1> QED BY <1>2, <1>3

\* A buffer filled from packet from on continues the stream.
LEMMA FilledContinues ==
  ASSUME NEW a \in AskedRecord, NEW bufs \in Seq(Seq(Nat)), NEW ends, NEW d \in Nat,
         NEW from \in Nat, from < Packets, d = 0 => a.first <= from,
         Continues(a, bufs, ends, from - a.first + d * Packets)
  PROVE  LET r == ReadPackets(from)
             more == [i \in 0 .. Len(bufs) + 1 |-> IF i <= Len(bufs) THEN ends[i] ELSE ends[Len(bufs)] + Len(r)]
         IN /\ Continues(a, Append(bufs, r), more, from + Len(r) - a.first + d * Packets)
            /\ \A i \in 0 .. Len(bufs) : more[i] = ends[i]
<1> DEFINE r == ReadPackets(from)
           n == Len(bufs)
           all == Append(bufs, r)
           put == from - a.first + d * Packets
           more == [i \in 0 .. n + 1 |-> IF i <= n THEN ends[i] ELSE ends[n] + Len(r)]
<1>1. /\ r \in Seq(Nat) /\ Len(r) \in Nat \ {0} /\ from + Len(r) <= Packets
      /\ \A j \in 1 .. Len(r) : r[j] = from + j - 1
  BY ReadPacketsAre
<1>2. /\ n \in Nat /\ Len(all) = n + 1 /\ all[n + 1] = r /\ \A i \in 1 .. n : all[i] = bufs[i]
  BY <1>1, AppendProperties, LenProperties
<1>3. /\ ends \in [0 .. n -> Int] /\ ends[n] = put
      /\ \A i \in 0 .. n : 0 <= ends[i] /\ ends[i] <= put
      /\ \A i \in 1 .. n : /\ ends[i] = ends[i - 1] + Len(bufs[i])
                           /\ \A j \in 1 .. Len(bufs[i]) : bufs[i][j] = ExpectedOf(a, ends[i - 1] + j)
  BY DEF Continues
<1>4. put \in Int /\ 0 <= put
  BY <1>2, <1>3
<1>5. put + Len(r) = from + Len(r) - a.first + d * Packets
  <2>1. a.first \in Int /\ d * Packets \in Int
    BY TimesPackets DEF AskedRecord
  <2> QED BY <1>1, <2>1
<1>6. \A j \in 1 .. Len(r) : r[j] = ExpectedOf(a, put + j)
  <2>1. SUFFICES ASSUME NEW j \in 1 .. Len(r) PROVE r[j] = ExpectedOf(a, put + j)
    OBVIOUS
  <2>2. j \in Nat \ {0} /\ from + j <= Packets
    <3>1. j \in Int /\ 1 <= j /\ j <= Len(r) /\ Packets \in Int
      BY <1>1, PlayerAssumption
    <3> QED BY <1>1, <3>1
  <2>3. ExpectedOf(a, put + j) = from + j - 1
    BY <2>2, ExpectedNext
  <2> QED BY <1>1, <2>3
<1> HIDE DEF r, all, put
<1>7. /\ more \in [0 .. n + 1 -> Int] /\ more[n + 1] = put + Len(r)
      /\ \A i \in 0 .. n : more[i] = ends[i]
  BY <1>1, <1>2, <1>3, <1>4
<1> HIDE DEF more
<1>8. \A i \in 0 .. n + 1 : 0 <= more[i] /\ more[i] <= put + Len(r)
  <2>1. \A i \in 0 .. n + 1 : i = n + 1 \/ i \in 0 .. n
    BY <1>2
  <2>2. ASSUME NEW i \in 0 .. n PROVE 0 <= more[i] /\ more[i] <= put + Len(r)
    <3>1. ends[i] \in Int /\ Len(r) \in Int /\ 0 <= Len(r) /\ 0 <= ends[i] /\ ends[i] <= put
      <4>1. Len(r) \in Int /\ 0 <= Len(r)
        BY <1>1
      <4> QED BY <1>3, <4>1
    <3> QED BY <1>4, <1>7, <3>1
  <2>3. 0 <= put + Len(r)
    <3>1. Len(r) \in Int /\ 0 <= Len(r)
      BY <1>1
    <3> QED BY <1>4, <3>1
  <2>4. put + Len(r) <= put + Len(r)
    <3>1. put + Len(r) \in Int
      BY <1>1, <1>4
    <3> QED BY <3>1
  <2> QED BY <1>7, <2>1, <2>2, <2>3, <2>4
<1>9. ASSUME NEW i \in 1 .. n + 1
      PROVE  /\ more[i] = more[i - 1] + Len(all[i])
             /\ \A j \in 1 .. Len(all[i]) : all[i][j] = ExpectedOf(a, more[i - 1] + j)
  <2>1. CASE i = n + 1
    <3>1. all[i] = r /\ more[i - 1] = put /\ more[i] = put + Len(r)
      BY <1>2, <1>3, <1>7, <2>1
    <3> QED BY <1>6, <3>1
  <2>2. CASE i # n + 1
    <3>1. i \in 1 .. n /\ i \in 0 .. n /\ i - 1 \in 0 .. n
      BY <1>2, <2>2
    <3>2. all[i] = bufs[i] /\ more[i - 1] = ends[i - 1] /\ more[i] = ends[i]
      BY <1>2, <1>7, <3>1
    <3> QED BY <1>3, <3>1, <3>2
  <2> QED BY <2>1, <2>2
<1>10. Continues(a, all, more, put + Len(r))
  BY <1>2, <1>7, <1>8, <1>9 DEF Continues
<1> QED BY <1>5, <1>7, <1>10 DEF r, all, more

-----------------------------------------------------------------------------
(* AVAudioPlayer: the helper                                               *)

FillState == [p : PlayerRecord, q : QueueRecord]
AtEnd(p) == p.current = Packets /\ p.loops = 0

\* What filling buffers from state b on leads to: the stream goes on, and the
\* player stops only at its end.
RefillsTo(a, b, o, h, s) ==
    /\ s.q.exists = b.q.exists
    /\ Len(b.q.buffers) <= Len(s.q.buffers)
    /\ Stream(a, s.p, s.q.buffers, o, h)
    /\ ~b.p.playing => s = b
    /\ \/ s.p.playing = b.p.playing /\ s.q.running = b.q.running
       \/ /\ b.p.playing /\ ~s.p.playing /\ AtEnd(s.p)
          /\ s.q.running = IF b.q.running = "Stopped" THEN "Stopped" ELSE "Stopping"
Refills(a, b, o, h) == {s \in FillState : RefillsTo(a, b, o, h, s)}

\* A buffer more.
LEMMA FilledStream ==
  ASSUME NEW a \in AskedRecord, NEW s \in FillState, NEW from \in Nat, from < Packets,
         NEW d \in Nat, NEW ends, NEW o \in 0 .. Len(s.q.buffers), NEW h,
         d = 0 => a.first <= from,
         a.loops >= 0 => s.p.loops >= 0 /\ d + s.p.loops = a.loops,
         a.loops < 0 => s.p.loops = a.loops,
         Continues(a, s.q.buffers, ends, from - a.first + d * Packets), ends[o] = h
  PROVE  LET t == Filled(s, from)
         IN /\ t \in FillState /\ Stream(a, t.p, t.q.buffers, o, h)
            /\ Len(t.q.buffers) = Len(s.q.buffers) + 1
            /\ t.p.playing = s.p.playing /\ t.q.running = s.q.running /\ t.q.exists = s.q.exists
<1> DEFINE r == ReadPackets(from)
           bufs == s.q.buffers
           t == Filled(s, from)
           c == from + Len(r)
           more == [i \in 0 .. Len(bufs) + 1 |-> IF i <= Len(bufs) THEN ends[i] ELSE ends[Len(bufs)] + Len(r)]
<1>1. bufs \in Seq(Seq(Nat)) /\ s.p \in PlayerRecord /\ s.q \in QueueRecord
  BY DEF FillState, QueueRecord
<1>2. r \in Seq(Nat) /\ Len(r) \in Nat \ {0} /\ c <= Packets
  BY ReadPacketsAre
<1>3. c \in 0 .. Packets /\ from <= c
  <2>1. Len(r) \in Int /\ 0 <= Len(r) /\ Packets \in Int
    BY <1>2, PlayerAssumption
  <2> QED BY <1>2, <2>1
<1>4. Continues(a, Append(bufs, r), more, c - a.first + d * Packets) /\ \A i \in 0 .. Len(bufs) : more[i] = ends[i]
  BY <1>1, FilledContinues
<1>5. /\ Append(bufs, r) \in Seq(Seq(Nat)) /\ Len(Append(bufs, r)) = Len(bufs) + 1
  BY <1>1, <1>2, AppendProperties
<1>6. t = [p |-> [s.p EXCEPT !.current = c], q |-> [s.q EXCEPT !.buffers = Append(bufs, r)]]
  BY DEF Filled
<1> HIDE DEF r, bufs, t, c, more
<1>7. [s.p EXCEPT !.current = c] \in PlayerRecord
  BY <1>1, <1>3 DEF PlayerRecord
<1>8. [s.q EXCEPT !.buffers = Append(bufs, r)] \in QueueRecord
  BY <1>1, <1>5 DEF QueueRecord
<1>9. t \in FillState
  BY <1>6, <1>7, <1>8 DEF FillState
<1>10. /\ t.p.current = c /\ t.p.loops = s.p.loops /\ t.p.playing = s.p.playing
       /\ t.q.buffers = Append(bufs, r) /\ t.q.running = s.q.running /\ t.q.exists = s.q.exists
  BY <1>1, <1>6 DEF PlayerRecord, QueueRecord
<1>11. Started(a, t.p, d)
  <2>1. d = 0 => a.first <= c
    <3>1. a.first \in Int /\ c \in Int
      BY <1>3 DEF AskedRecord
    <3> QED BY <1>3, <3>1
  <2> QED BY <1>10, <2>1 DEF Started
<1>12. Continues(a, t.q.buffers, more, PutAfter(a, t.p, d))
  BY <1>4, <1>10 DEF PutAfter
<1>13. more \in [0 .. Len(t.q.buffers) -> Int] /\ more[o] = h
  <2>1. more \in [0 .. Len(t.q.buffers) -> Int]
    BY <1>12 DEF Continues
  <2>2. o \in 0 .. Len(bufs)
    BY DEF bufs
  <2> QED BY <1>4, <2>1, <2>2
<1>14. Stream(a, t.p, t.q.buffers, o, h)
  BY <1>11, <1>12, <1>13 DEF Stream
<1> QED BY <1>5, <1>9, <1>10, <1>14 DEF t, bufs

\* The helper, called for a buffer.
LEMMA HelperKeeps ==
  ASSUME NEW a \in AskedRecord, NEW b \in FillState, NEW o \in 0 .. Len(b.q.buffers), NEW h,
         NEW s \in Refills(a, b, o, h)
  PROVE  OutputBufferHelper(s) \in Refills(a, b, o, h)
<1> DEFINE t == OutputBufferHelper(s)
           bufs == s.q.buffers
<1>1. s \in FillState /\ RefillsTo(a, b, o, h, s)
  BY DEF Refills
<1>2. /\ s.p \in PlayerRecord /\ s.q \in QueueRecord /\ bufs \in Seq(Seq(Nat))
      /\ b.q.buffers \in Seq(Seq(Nat)) /\ s.p.current \in 0 .. Packets /\ s.p.loops \in Int
  BY <1>1 DEF FillState, PlayerRecord, QueueRecord
<1>3. Len(bufs) \in Nat /\ Len(b.q.buffers) \in Nat /\ Packets \in Nat \ {0}
  BY <1>2, LenProperties, PlayerAssumption
<1>4. o \in 0 .. Len(bufs) /\ Len(b.q.buffers) <= Len(bufs)
  <2>1. Len(b.q.buffers) <= Len(bufs)
    BY <1>1 DEF RefillsTo
  <2> QED BY <1>3, <2>1
<1>5. PICK d \in Nat : \E ends \in [0 .. Len(bufs) -> Int] :
        /\ Started(a, s.p, d) /\ Continues(a, bufs, ends, PutAfter(a, s.p, d)) /\ ends[o] = h
  BY <1>1 DEF RefillsTo, Stream
<1>6. PICK ends \in [0 .. Len(bufs) -> Int] :
        /\ Started(a, s.p, d) /\ Continues(a, bufs, ends, PutAfter(a, s.p, d)) /\ ends[o] = h
  BY <1>5
<1>7. CASE ~s.p.playing
  <2>1. t = s
    BY <1>7 DEF OutputBufferHelper
  <2> QED BY <2>1
<1>8. CASE s.p.playing
  <2>1. b.p.playing /\ s.q.running = b.q.running /\ s.q.exists = b.q.exists /\ s.p.playing = b.p.playing
    BY <1>1, <1>8 DEF RefillsTo
  <2>2. ASSUME NEW u \in FillState, NEW from \in Nat, from < Packets, t = Filled(u, from),
               u.q = s.q, u.p.playing = s.p.playing,
               NEW e \in Nat, e = 0 => a.first <= from,
               a.loops >= 0 => u.p.loops >= 0 /\ e + u.p.loops = a.loops,
               a.loops < 0 => u.p.loops = a.loops,
               Continues(a, bufs, ends, from - a.first + e * Packets)
        PROVE  t \in Refills(a, b, o, h)
    <3>1. /\ t \in FillState /\ Stream(a, t.p, t.q.buffers, o, h)
          /\ Len(t.q.buffers) = Len(u.q.buffers) + 1
          /\ t.p.playing = u.p.playing /\ t.q.running = u.q.running /\ t.q.exists = u.q.exists
      <4>1. o \in 0 .. Len(u.q.buffers) /\ Continues(a, u.q.buffers, ends, from - a.first + e * Packets)
        BY <1>4, <2>2
      <4> HIDE DEF t
      <4> QED BY <1>6, <2>2, <4>1, FilledStream
    <3>2. Len(b.q.buffers) <= Len(t.q.buffers)
      <4>1. Len(t.q.buffers) = Len(bufs) + 1
        BY <2>2, <3>1
      <4> QED BY <1>3, <1>4, <4>1
    <3> HIDE DEF t
    <3> QED BY <2>1, <2>2, <3>1, <3>2 DEF Refills, RefillsTo
  <2>3. CASE s.p.current < Packets
    <3>1. t = Filled(s, s.p.current)
      BY <1>8, <2>3 DEF OutputBufferHelper
    <3>2. s.p.current \in Nat
      BY <1>2
    <3>3. /\ d = 0 => a.first <= s.p.current
          /\ a.loops >= 0 => s.p.loops >= 0 /\ d + s.p.loops = a.loops
          /\ a.loops < 0 => s.p.loops = a.loops
          /\ Continues(a, bufs, ends, s.p.current - a.first + d * Packets)
      BY <1>6 DEF Started, PutAfter
    <3>4. s \in FillState /\ s.q = s.q /\ s.p.playing = s.p.playing
      BY <1>1
    <3> HIDE DEF t, bufs
    <3>5. t \in Refills(a, b, o, h)
      BY <2>2, <2>3, <3>1, <3>2, <3>3, <3>4, Zenon
    <3> QED BY <3>5 DEF t
  <2>4. CASE ~(s.p.current < Packets) /\ s.p.loops = 0
    <3>1. t = [p |-> [s.p EXCEPT !.playing = FALSE],
               q |-> [s.q EXCEPT !.running = IF @ = "Stopped" THEN @ ELSE "Stopping"]]
      BY <1>8, <2>4 DEF OutputBufferHelper
    <3>2. s.p.current = Packets
      BY <1>2, <1>3, <2>4
    <3>3. [s.p EXCEPT !.playing = FALSE] \in PlayerRecord
      BY <1>2 DEF PlayerRecord
    <3>4. [s.q EXCEPT !.running = IF @ = "Stopped" THEN @ ELSE "Stopping"] \in QueueRecord
      BY <1>2 DEF QueueRecord, RunStates
    <3>5. t \in FillState
      BY <3>1, <3>3, <3>4 DEF FillState
    <3>6. /\ t.p.current = s.p.current /\ t.p.loops = s.p.loops /\ t.p.playing = FALSE
          /\ t.q.buffers = bufs /\ t.q.exists = s.q.exists
          /\ t.q.running = IF s.q.running = "Stopped" THEN "Stopped" ELSE "Stopping"
      <4>1. t.p = [s.p EXCEPT !.playing = FALSE] /\ t.q = [s.q EXCEPT !.running = IF @ = "Stopped" THEN @ ELSE "Stopping"]
        BY <3>1
      <4> HIDE DEF t
      <4>2. t.p.current = s.p.current /\ t.p.loops = s.p.loops /\ t.p.playing = FALSE
        BY <1>2, <4>1 DEF PlayerRecord
      <4>3. /\ t.q.buffers = bufs /\ t.q.exists = s.q.exists
            /\ t.q.running = IF s.q.running = "Stopped" THEN "Stopped" ELSE "Stopping"
        BY <1>2, <4>1 DEF QueueRecord
      <4> QED BY <4>2, <4>3
    <3> HIDE DEF t, bufs
    <3>7. Stream(a, t.p, t.q.buffers, o, h)
      BY <1>6, <3>6 DEF Stream, Started, PutAfter
    <3>8. AtEnd(t.p)
      BY <2>4, <3>2, <3>6 DEF AtEnd
    <3>9. Len(b.q.buffers) <= Len(t.q.buffers)
      BY <1>4, <3>6
    <3>10. RefillsTo(a, b, o, h, t)
      BY <2>1, <3>6, <3>7, <3>8, <3>9 DEF RefillsTo
    <3> QED BY <3>5, <3>10 DEF Refills, t
  <2>5. CASE ~(s.p.current < Packets) /\ s.p.loops # 0
    <3> DEFINE l == IF s.p.loops > 0 THEN s.p.loops - 1 ELSE s.p.loops
               u == [s EXCEPT !.p.loops = l]
    <3>1. t = Filled([s EXCEPT !.p.loops = IF @ > 0 THEN @ - 1 ELSE @], 0)
      BY <1>8, <2>5 DEF OutputBufferHelper
    <3>2. s.p.current = Packets
      BY <1>2, <1>3, <2>5
    <3>3. u = [p |-> [s.p EXCEPT !.loops = l], q |-> s.q] /\ [s EXCEPT !.p.loops = IF @ > 0 THEN @ - 1 ELSE @] = u
      <4>1. PICK p0 \in PlayerRecord, q0 \in QueueRecord : s = [p |-> p0, q |-> q0]
        BY <1>1 DEF FillState
      <4>2. p0.loops = s.p.loops /\ p0 = s.p /\ q0 = s.q
        BY <4>1
      <4>3. [s EXCEPT !.p.loops = l] = [p |-> [p0 EXCEPT !.loops = l], q |-> q0]
        BY <4>1
      <4>4. [s EXCEPT !.p.loops = IF @ > 0 THEN @ - 1 ELSE @] = [p |-> [p0 EXCEPT !.loops = l], q |-> q0]
        BY <4>1, <4>2
      <4> QED BY <4>2, <4>3, <4>4
    <3>4. l \in Int
      BY <1>2
    <3> HIDE DEF l, u
    <3>5. [s.p EXCEPT !.loops = l] \in PlayerRecord
      BY <1>2, <3>4 DEF PlayerRecord
    <3>6. u \in FillState /\ u.q = s.q /\ u.p.playing = s.p.playing /\ u.p.loops = l
      <4>1. u \in FillState /\ u.p = [s.p EXCEPT !.loops = l] /\ u.q = s.q
        BY <1>2, <3>3, <3>5 DEF FillState
      <4> QED BY <1>2, <4>1 DEF PlayerRecord
    <3>7. /\ a.loops >= 0 => u.p.loops >= 0 /\ (d + 1) + u.p.loops = a.loops
          /\ a.loops < 0 => u.p.loops = a.loops
      <4>1. /\ a.loops >= 0 => s.p.loops >= 0 /\ d + s.p.loops = a.loops
            /\ a.loops < 0 => s.p.loops = a.loops
        BY <1>6 DEF Started
      <4>2. a.loops \in Int
        BY DEF AskedRecord
      <4>3. PICK x, y \in Int : x = s.p.loops /\ y = a.loops
        BY <1>2, <4>2
      <4>4. x # 0 /\ u.p.loops = (IF x > 0 THEN x - 1 ELSE x)
        BY <2>5, <3>6, <4>3 DEF l
      <4>5. (y >= 0 => x >= 0 /\ d + x = y) /\ (y < 0 => x = y)
        BY <4>1, <4>3
      <4>6. ASSUME y >= 0 PROVE u.p.loops >= 0 /\ (d + 1) + u.p.loops = y
        <5>1. x > 0 /\ u.p.loops = x - 1
          BY <4>4, <4>5, <4>6
        <5> QED BY <4>5, <4>6, <5>1
      <4>7. ASSUME y < 0 PROVE u.p.loops = y
        BY <4>4, <4>5, <4>7
      <4> QED BY <4>3, <4>6, <4>7
    <3>8. Continues(a, bufs, ends, 0 - a.first + (d + 1) * Packets)
      <4>1. Continues(a, bufs, ends, Packets - a.first + d * Packets)
        BY <1>6, <3>2 DEF PutAfter
      <4>2. (d + 1) * Packets = d * Packets + Packets /\ d * Packets \in Int /\ a.first \in Int
        <5>1. d \in Int
          OBVIOUS
        <5>2. (d + 1) * Packets = d * Packets + Packets /\ d * Packets \in Int
          BY <5>1, TimesPackets
        <5>3. a.first \in Int
          BY <1>3 DEF AskedRecord
        <5> QED BY <5>2, <5>3
      <4>3. 0 - a.first + (d + 1) * Packets = Packets - a.first + d * Packets
        BY <1>3, <4>2
      <4> QED BY <4>1, <4>3
    <3>9. 0 \in Nat /\ 0 < Packets /\ d + 1 \in Nat /\ d + 1 # 0
      BY <1>3
    <3>10. t = Filled(u, 0)
      BY <3>1, <3>3
    <3> HIDE DEF t, bufs
    <3>11. d + 1 = 0 => a.first <= 0
      BY <3>9
    <3>12. t \in Refills(a, b, o, h)
      BY <2>2, <3>6, <3>7, <3>8, <3>9, <3>10, <3>11, Zenon
    <3> QED BY <3>12 DEF t
  <2> QED BY <2>3, <2>4, <2>5
<1> QED BY <1>7, <1>8

\* Calls of it for n buffers.
RefillLoop(s, n) ==
    LET after[i \in 0..n] == IF i = 0 THEN s ELSE OutputBufferHelper(after[i - 1])
    IN after

\* Filling n buffers again is n turns of the loop.
LEMMA RefilledIsLoop ==
  ASSUME NEW s, NEW n
  PROVE  Refilled(s, n) = RefillLoop(s, n)[n]
BY Zenon DEF Refilled, RefillLoop

\* However many buffers are filled again, the queue still holds what comes next: induction on their number.
LEMMA RefilledKeeps ==
  ASSUME NEW a \in AskedRecord, NEW b \in FillState, NEW o \in 0 .. Len(b.q.buffers), NEW h, NEW n \in Nat,
         Stream(a, b.p, b.q.buffers, o, h)
  PROVE  Refilled(b, n) \in Refills(a, b, o, h)
<1> DEFINE V == Refills(a, b, o, h)
           H == [s \in V |-> OutputBufferHelper(s)]
           loop == RefillLoop(b, n)
<1>1. b \in V
  <2>1. Len(b.q.buffers) \in Int
    <3>1. b.q.buffers \in Seq(Seq(Nat))
      BY DEF FillState, QueueRecord
    <3> QED BY <3>1, LenProperties
  <2>2. Len(b.q.buffers) <= Len(b.q.buffers)
    BY <2>1
  <2> QED BY <2>2 DEF Refills, RefillsTo
<1>2. H \in [V -> V] /\ \A s \in V : H[s] = OutputBufferHelper(s)
  <2>1. \A s \in V : OutputBufferHelper(s) \in V
    BY HelperKeeps
  <2> HIDE DEF V
  <2> QED BY <2>1
<1> HIDE DEF V, H
<1>3. PICK g : Iterates(g, n, V, b, H)
  BY <1>1, <1>2, Iteration, Zenon
<1>4. /\ g \in [0 .. n -> V] /\ g[0] = b /\ \A k \in 1 .. n : g[k] = H[g[k - 1]]
      /\ \A f : f[0] = b /\ (\A k \in 1 .. n : f[k - 1] \in V => f[k] = H[f[k - 1]]) =>
           \A k \in 0 .. n : f[k] = g[k]
  BY <1>3 DEF Iterates
<1>5. \A k \in 1 .. n : k \in 0 .. n /\ k # 0 /\ g[k - 1] \in V /\ g[k] = OutputBufferHelper(g[k - 1])
  <2>1. \A k \in 1 .. n : k \in 0 .. n /\ k - 1 \in 0 .. n /\ k # 0
    OBVIOUS
  <2> QED BY <1>2, <1>4, <2>1
<1>6. g = [k \in 0 .. n |-> IF k = 0 THEN b ELSE OutputBufferHelper(g[k - 1])]
  <2>1. ASSUME NEW k \in 0 .. n PROVE g[k] = IF k = 0 THEN b ELSE OutputBufferHelper(g[k - 1])
    <3>1. k # 0 => k \in 1 .. n
      OBVIOUS
    <3> QED BY <1>4, <1>5, <3>1
  <2> QED BY <1>4, <2>1
<1>7. loop = [k \in 0 .. n |-> IF k = 0 THEN b ELSE OutputBufferHelper(loop[k - 1])]
  BY <1>6, Zenon DEF RefillLoop
<1> HIDE DEF loop
<1>8. loop[0] = b /\ \A k \in 1 .. n : loop[k - 1] \in V => loop[k] = H[loop[k - 1]]
  <2>1. loop[0] = b
    BY <1>7
  <2>2. \A k \in 1 .. n : loop[k] = OutputBufferHelper(loop[k - 1])
    BY <1>5, <1>7
  <2> QED BY <1>2, <2>1, <2>2
<1>9. loop[n] = g[n] /\ g[n] \in V
  <2>1. \A k \in 0 .. n : loop[k] = g[k]
    BY <1>4, <1>8, Zenon
  <2>2. n \in 0 .. n
    OBVIOUS
  <2> QED BY <1>4, <2>1, <2>2, Zenon
<1> QED BY <1>9, RefilledIsLoop DEF V, loop

-----------------------------------------------------------------------------
(* AVAudioPlayer: the invariant                                            *)

PlayerTypeOK ==
    /\ player \in PlayerRecord /\ queue \in QueueRecord /\ al \in AlRecord
    /\ heard \in Seq(Nat) /\ asked \in AskedRecord /\ ended \in BOOLEAN

HeardFits ==
    /\ \A n \in 1 .. Len(heard) : heard[n] = ExpectedOf(asked, n)
    /\ asked.loops >= 0 => Len(heard) <= AllOf(asked)
    /\ ended => asked.loops >= 0 /\ Len(heard) = AllOf(asked)

\* The player plays while its queue runs, and lets it stop only at its end.
RunsAsTold ==
    /\ player.playing = (queue.running = "Running")
    /\ queue.running = "Stopping" => AtEnd(player)

\* The source is somewhere in the buffers, and from there on they continue what
\* was heard.
SourceIn(s, bufs, running) ==
    /\ s.played <= s.queued /\ s.queued <= Len(bufs)
    /\ s.state = "INITIAL" => s.queued = 0
    /\ s.state \in {"PLAYING", "PAUSED"} => s.played < s.queued
    /\ s.state = "STOPPED" => s.played = s.queued
    /\ s.state = "PLAYING" => running # "Stopped"
InOrder(a, p, q, s, h) ==
    /\ SourceIn(s, q.buffers, q.running)
    /\ Stream(a, p, q.buffers, s.played, h)

\* A queue that was paused when its source had run out has its buffers queued
\* again but not played: the next pass of the run loop drops them, and nothing
\* more is heard.  Nor is it once the buffers are all gone.
Lost(q, s) == s.state = "STOPPED" /\ s.queued = Len(q.buffers) /\ q.running = "Stopped"
Silent(q, s) == s.state = "STOPPED" /\ s.queued = 0 /\ q.buffers = <<>>

PlayerInv ==
    /\ PlayerTypeOK /\ HeardFits /\ RunsAsTold
    /\ ~queue.exists => queue = NoQueue /\ al = NewSource
    /\ queue.exists => InOrder(asked, player, queue, al, Len(heard)) \/ Lost(queue, al) \/ Silent(queue, al)
    /\ ended => queue.exists /\ Silent(queue, al)

\* The invariant says of each packet heard what the property says.
LEMMA PlayerInvHears == PlayerInv => HeardAsLooped
<1>1. SUFFICES ASSUME PlayerInv PROVE HeardAsLooped
  OBVIOUS
<1>2. DOMAIN heard = 1 .. Len(heard)
  BY <1>1, LenProperties DEF PlayerInv, PlayerTypeOK
<1>3. \A n \in 1 .. Len(heard) : heard[n] = Expected(n)
  BY <1>1 DEF PlayerInv, HeardFits, ExpectedOf, Expected
<1>4. /\ asked.loops >= 0 => Len(heard) <= Packets - asked.first + asked.loops * Packets
      /\ ended => asked.loops >= 0 /\ Len(heard) = Packets - asked.first + asked.loops * Packets
  BY <1>1 DEF PlayerInv, HeardFits, AllOf
<1> QED BY <1>2, <1>3, <1>4 DEF HeardAsLooped

\* A stream is about the player's place and loops only.
LEMMA StreamSame ==
  ASSUME NEW a, NEW p, NEW r, r.current = p.current, r.loops = p.loops,
         NEW bufs, NEW o, NEW h, Stream(a, p, bufs, o, h)
  PROVE  Stream(a, r, bufs, o, h)
BY DEF Stream, Started, PutAfter

\* No more has been put than there is, and all of it at the end.
LEMMA PutBounded ==
  ASSUME NEW a \in AskedRecord, NEW p \in PlayerRecord, NEW d \in Nat, Started(a, p, d)
  PROVE  /\ a.loops >= 0 => PutAfter(a, p, d) <= AllOf(a)
         /\ AtEnd(p) => a.loops >= 0 /\ PutAfter(a, p, d) = AllOf(a)
<1>1. PICK f, c, n, l, m \in Int : f = a.first /\ c = p.current /\ n = Packets /\ l = a.loops /\ m = p.loops
  BY PlayerAssumption DEF AskedRecord, PlayerRecord
<1>2. c <= n
  BY <1>1 DEF PlayerRecord
<1>3. PICK x, y \in Int : x = d * n /\ y = l * n /\ (d <= l => x <= y)
  BY <1>1, TimesPackets
<1>4. PutAfter(a, p, d) = c - f + x /\ AllOf(a) = n - f + y
  BY <1>1, <1>3 DEF PutAfter, AllOf
<1>5. (l >= 0 => m >= 0 /\ d + m = l) /\ (l < 0 => m = l)
  BY <1>1 DEF Started
<1>6. ASSUME l >= 0 PROVE c - f + x <= n - f + y
  <2>1. d <= l
    BY <1>5, <1>6
  <2>2. x <= y
    BY <1>3, <2>1
  <2> QED BY <1>2, <2>2
<1>7. ASSUME AtEnd(p) PROVE l >= 0 /\ c - f + x = n - f + y
  <2>1. c = n /\ m = 0
    BY <1>1, <1>7 DEF AtEnd
  <2>2. l >= 0 /\ d = l
    BY <1>5, <2>1
  <2>3. x = y
    BY <1>3, <2>2
  <2> QED BY <2>1, <2>2, <2>3
<1> QED BY <1>1, <1>4, <1>6, <1>7

\* prime_audio_queue and alSourcePlay.
LEMMA PrimedIs ==
  ASSUME NEW s \in AlRecord, NEW bufs, Len(bufs) \in Nat, s.queued <= Len(bufs)
  PROVE  /\ Primed(s, bufs) \in AlRecord
         /\ Primed(s, bufs).state = s.state /\ Primed(s, bufs).played = s.played
         /\ s.queued <= Primed(s, bufs).queued /\ Primed(s, bufs).queued <= Len(bufs)
         /\ s.state = "STOPPED" => Primed(s, bufs).queued = Len(bufs)
<1> DEFINE want == IF s.state = "STOPPED" THEN Len(bufs) ELSE s.played + 2
           most == IF want < s.queued THEN s.queued ELSE want
           many == IF most > Len(bufs) THEN Len(bufs) ELSE most
<1>1. s.queued \in Nat /\ s.played \in Nat /\ s.state \in SourceStates
  BY DEF AlRecord
<1>2. want \in Nat /\ (s.state = "STOPPED" => want = Len(bufs))
  BY <1>1
<1> HIDE DEF want
<1>3. most \in Nat /\ s.queued <= most /\ (s.state = "STOPPED" => most = Len(bufs))
  BY <1>1, <1>2
<1>4. Primed(s, bufs) = [s EXCEPT !.queued = many]
  BY DEF Primed, want
<1> HIDE DEF most
<1>5. many \in Nat /\ s.queued <= many /\ many <= Len(bufs) /\ (s.state = "STOPPED" => many = Len(bufs))
  BY <1>1, <1>3
<1> HIDE DEF many
<1>6. [s EXCEPT !.queued = many] \in AlRecord
  BY <1>5 DEF AlRecord
<1>7. [s EXCEPT !.queued = many].queued = many /\ [s EXCEPT !.queued = many].state = s.state
      /\ [s EXCEPT !.queued = many].played = s.played
  BY DEF AlRecord
<1> QED BY <1>4, <1>5, <1>6, <1>7

\* What alSourcePlay makes of a source.
LEMMA SourcePlaysIs ==
  ASSUME NEW s \in AlRecord
  PROVE  LET t == SourcePlays(s)
         IN /\ t \in AlRecord /\ t.queued = s.queued
            /\ s.queued = 0 => t.state = "STOPPED" /\ t.played = s.played
            /\ s.queued # 0 => /\ t.state = "PLAYING"
                               /\ t.played = IF s.state = "PAUSED" THEN s.played ELSE 0
BY DEF SourcePlays, AlRecord, SourceStates

\* A source that is started where it is, or at the first of its buffers.
LEMMA StartedIsIn ==
  ASSUME NEW s \in AlRecord, NEW bufs, Len(bufs) \in Nat, s.queued <= Len(bufs), s.played <= s.queued,
         s.state = "PAUSED" => s.played < s.queued, s.state # "PAUSED" => s.played = 0,
         NEW running, running # "Stopped"
  PROVE  /\ SourcePlays(s) \in AlRecord /\ SourcePlays(s).played = s.played
         /\ SourceIn(SourcePlays(s), bufs, running)
<1> DEFINE t == SourcePlays(s)
<1>1. /\ t \in AlRecord /\ t.queued = s.queued
      /\ s.queued = 0 => t.state = "STOPPED" /\ t.played = s.played
      /\ s.queued # 0 => /\ t.state = "PLAYING"
                         /\ t.played = IF s.state = "PAUSED" THEN s.played ELSE 0
  BY SourcePlaysIs
<1> HIDE DEF t
<1>2. s.queued \in Nat /\ s.played \in Nat
  BY DEF AlRecord
<1>3. t.played = s.played
  BY <1>1
<1>4. CASE s.queued = 0
  <2>1. t.state = "STOPPED" /\ t.played = t.queued
    BY <1>1, <1>2, <1>3, <1>4
  <2> QED BY <1>1, <1>2, <1>3, <1>4, <2>1 DEF SourceIn, t
<1>5. CASE s.queued # 0
  <2>1. t.state = "PLAYING" /\ t.played < t.queued
    BY <1>1, <1>2, <1>3, <1>5
  <2> QED BY <1>1, <1>2, <1>3, <1>5, <2>1 DEF SourceIn, t
<1> QED BY <1>4, <1>5

-----------------------------------------------------------------------------
(* AVAudioPlayer: its operations                                           *)

\* The types that the steps below use.
LEMMA PlayerTyped ==
  ASSUME PlayerInv
  PROVE  /\ player \in PlayerRecord /\ queue \in QueueRecord /\ al \in AlRecord
         /\ heard \in Seq(Nat) /\ asked \in AskedRecord /\ ended \in BOOLEAN
         /\ Len(heard) \in Nat /\ queue.buffers \in Seq(Seq(Nat)) /\ Len(queue.buffers) \in Nat
         /\ al.queued \in Nat /\ al.played \in Nat
<1>1. PlayerTypeOK
  BY DEF PlayerInv
<1>2. queue.buffers \in Seq(Seq(Nat)) /\ al.queued \in Nat /\ al.played \in Nat
  BY <1>1 DEF PlayerTypeOK, QueueRecord, AlRecord
<1>3. Len(queue.buffers) \in Nat
  BY <1>2, LenProperties
<1>4. Len(heard) \in Nat
  BY <1>1, LenProperties DEF PlayerTypeOK
<1> QED BY <1>1, <1>2, <1>3, <1>4 DEF PlayerTypeOK

\* What was heard still fits when nothing more is heard.
LEMMA HeardStays ==
  ASSUME PlayerInv, UNCHANGED <<heard, asked>>, ended' => ended
  PROVE  HeardFits'
BY DEF PlayerInv, HeardFits

\* A new queue fits, whatever is asked for.
LEMMA HeardNothing ==
  ASSUME heard' = <<>>, asked' \in AskedRecord, ended' = FALSE
  PROVE  HeardFits'
<1>1. Len(heard') = 0 /\ \A n \in 1 .. Len(heard') : FALSE
  BY DEF HeardFits
<1>2. ASSUME asked'.loops >= 0 PROVE 0 <= AllOf(asked')
  <2>1. asked'.loops \in Int /\ asked'.first \in Int /\ asked'.first <= Packets /\ Packets \in Int
    BY PlayerAssumption DEF AskedRecord
  <2>2. asked'.loops * Packets \in Int /\ asked'.loops * Packets >= 0
    BY <1>2, <2>1, TimesPackets
  <2> QED BY <2>1, <2>2 DEF AllOf
<1> QED BY <1>1, <1>2 DEF HeardFits

\* A call that leaves the place, the loops and what is queued alone.
LEMMA PlaceKeeps ==
  ASSUME PlayerInv, PlayerTypeOK', UNCHANGED <<al, heard, asked, ended>>,
         player'.current = player.current, player'.loops = player.loops, player'.playing = player.playing,
         queue.exists => /\ queue'.exists /\ queue'.running = queue.running /\ queue'.buffers = queue.buffers,
         ~queue.exists => queue' = queue
  PROVE  PlayerInv'
<1>1. HeardFits'
  BY HeardStays
<1>2. queue'.running = queue.running /\ queue'.buffers = queue.buffers /\ queue'.exists = queue.exists
  <2>1. queue.exists \in BOOLEAN /\ queue'.exists \in BOOLEAN
    BY DEF PlayerTypeOK, PlayerInv, QueueRecord
  <2> QED BY <2>1
<1>3. RunsAsTold'
  BY <1>2 DEF PlayerInv, RunsAsTold, AtEnd
<1>4. ~queue'.exists => queue' = NoQueue /\ al' = NewSource
  BY <1>2 DEF PlayerInv
<1>5. ASSUME InOrder(asked, player, queue, al, Len(heard)) PROVE InOrder(asked', player', queue', al', Len(heard'))
  <2>1. Stream(asked, player', queue.buffers, al.played, Len(heard))
    BY <1>5, StreamSame DEF InOrder
  <2> QED BY <1>2, <1>5, <2>1 DEF InOrder
<1>6. (Lost(queue, al) => Lost(queue', al')) /\ (Silent(queue, al) => Silent(queue', al'))
  BY <1>2 DEF Lost, Silent
<1> QED BY <1>1, <1>2, <1>3, <1>4, <1>5, <1>6 DEF PlayerInv

\* setVolume:
LEMMA SetVolumeKeeps ==
  ASSUME PlayerInv, SetVolume
  PROVE  PlayerInv'
<1>1. PICK v \in 0 .. 1 :
        /\ player' = [player EXCEPT !.volume = v]
        /\ queue' = IF queue.exists THEN [queue EXCEPT !.volume = v] ELSE queue
  BY DEF SetVolume
<1>2. UNCHANGED <<al, heard, asked, ended>>
  BY DEF SetVolume
<1>3. player \in PlayerRecord /\ queue \in QueueRecord
  BY PlayerTyped
<1>4. /\ player' \in PlayerRecord /\ player'.current = player.current /\ player'.loops = player.loops
      /\ player'.playing = player.playing
  BY <1>1, <1>3 DEF PlayerRecord
<1>5. queue' \in QueueRecord
  BY <1>1, <1>3 DEF QueueRecord
<1>6. queue.exists => /\ queue'.exists /\ queue'.running = queue.running /\ queue'.buffers = queue.buffers
  BY <1>1, <1>3 DEF QueueRecord
<1>7. ~queue.exists => queue' = queue
  BY <1>1
<1>8. PlayerTypeOK'
  BY <1>2, <1>4, <1>5 DEF PlayerInv, PlayerTypeOK
<1> QED BY <1>2, <1>4, <1>6, <1>7, <1>8, PlaceKeeps

\* While there is no queue the place and the loops may change.
LEMMA WithoutQueueKeeps ==
  ASSUME PlayerInv, ~queue.exists, UNCHANGED <<queue, al, heard, asked, ended>>,
         player' \in PlayerRecord, player'.playing = player.playing
  PROVE  PlayerInv'
<1>1. HeardFits'
  BY HeardStays
<1>2. queue.running = "Stopped" /\ ~ended
  BY DEF PlayerInv, NoQueue
<1>3. RunsAsTold' /\ PlayerTypeOK'
  BY <1>2 DEF PlayerInv, PlayerTypeOK, RunsAsTold
<1> QED BY <1>1, <1>2, <1>3 DEF PlayerInv

\* setNumberOfLoops:, which a careful guest calls when there is no queue.
LEMMA SetNumberOfLoopsKeeps ==
  ASSUME PlayerCare, PlayerInv, SetNumberOfLoops
  PROVE  PlayerInv'
<1>1. ~queue.exists /\ UNCHANGED <<queue, al, heard, asked, ended>>
  BY DEF SetNumberOfLoops, PlayerCare
<1>2. PICK n \in LoopCounts : player' = [player EXCEPT !.loops = n]
  BY DEF SetNumberOfLoops
<1>3. player \in PlayerRecord /\ n \in Int
  BY PlayerTyped, PlayerAssumption
<1>4. player' \in PlayerRecord /\ player'.playing = player.playing
  BY <1>2, <1>3 DEF PlayerRecord
<1> QED BY <1>1, <1>4, WithoutQueueKeeps

\* setCurrentTime:, likewise.
LEMMA SetCurrentTimeKeeps ==
  ASSUME PlayerCare, PlayerInv, SetCurrentTime
  PROVE  PlayerInv'
<1>1. ~queue.exists /\ UNCHANGED <<queue, al, heard, asked, ended>>
  BY DEF SetCurrentTime, PlayerCare
<1>2. PICK t \in 0 .. (Packets + 1) :
        player' = [player EXCEPT !.seek = t, !.current = IF queue.exists THEN SeekTo(t) ELSE @]
  BY DEF SetCurrentTime
<1>3. player \in PlayerRecord /\ t \in Nat
  BY PlayerTyped, PlayerAssumption
<1>4. player' = [player EXCEPT !.seek = t]
  BY <1>1, <1>2, <1>3 DEF PlayerRecord
<1>5. player' \in PlayerRecord /\ player'.playing = player.playing
  BY <1>3, <1>4 DEF PlayerRecord
<1> QED BY <1>1, <1>5, WithoutQueueKeeps

\* A stream of which nothing has been put.
LEMMA EmptyStream ==
  ASSUME NEW p \in PlayerRecord
  PROVE  LET a == [first |-> p.current, loops |-> p.loops]
         IN a \in AskedRecord /\ Stream(a, p, <<>>, 0, 0)
<1> DEFINE a == [first |-> p.current, loops |-> p.loops]
           ends == [i \in 0 .. 0 |-> 0]
<1>1. a \in AskedRecord /\ a.first = p.current /\ a.loops = p.loops
  BY DEF AskedRecord, PlayerRecord
<1>2. a.first \in Int /\ a.loops \in Int
  BY <1>1, PlayerAssumption DEF AskedRecord
<1> HIDE DEF a
<1>3. Started(a, p, 0)
  BY <1>1, <1>2 DEF Started
<1>4. PutAfter(a, p, 0) = 0
  <2>1. 0 * Packets = 0
    BY PlayerAssumption
  <2> QED BY <1>1, <1>2, <2>1 DEF PutAfter
<1>5. Len(<<>>) = 0 /\ ends \in [0 .. 0 -> Int] /\ ends[0] = 0
  OBVIOUS
<1> HIDE DEF ends
<1>6. Continues(a, <<>>, ends, 0)
  BY <1>5 DEF Continues
<1>7. Stream(a, p, <<>>, 0, 0)
  BY <1>3, <1>4, <1>5, <1>6 DEF Stream
<1> QED BY <1>1, <1>7 DEF a

\* What a player that has been prepared holds.
LEMMA PreparedIs ==
  ASSUME PlayerInv
  PROVE  LET a == [first |-> SeekTo(player.seek), loops |-> player.loops]
         IN /\ a \in AskedRecord
            /\ Prepared.p \in PlayerRecord /\ Prepared.q \in QueueRecord
            /\ Prepared.p.playing = FALSE /\ Prepared.q.exists = TRUE /\ Prepared.q.running = "Stopped"
            /\ Stream(a, Prepared.p, Prepared.q.buffers, 0, 0)
<1> DEFINE a == [first |-> SeekTo(player.seek), loops |-> player.loops]
           start == [player EXCEPT !.playing = TRUE, !.current = SeekTo(player.seek)]
           made == [exists |-> TRUE, running |-> "Stopped", buffers |-> <<>>, volume |-> player.volume]
           b == [p |-> start, q |-> made]
           full == Refilled(b, NumberBuffers)
<1>1. player \in PlayerRecord
  BY PlayerTyped
<1>2. SeekTo(player.seek) \in 0 .. Packets
  BY <1>1, PlayerAssumption DEF SeekTo, PlayerRecord
<1>3. a \in AskedRecord
  BY <1>1, <1>2 DEF AskedRecord, PlayerRecord
<1>4. start \in PlayerRecord /\ start.current = a.first /\ start.loops = a.loops /\ start.playing = TRUE
  BY <1>1, <1>2 DEF PlayerRecord
<1>5. <<>> \in Seq(Seq(Nat)) /\ Len(<<>>) = 0
  OBVIOUS
<1>6. made \in QueueRecord
  BY <1>1, <1>5 DEF QueueRecord, RunStates, PlayerRecord
<1>7. b \in FillState /\ b.p = start /\ b.q = made
  BY <1>4, <1>6 DEF FillState
<1>8. Stream(a, start, <<>>, 0, 0)
  <2>1. a = [first |-> start.current, loops |-> start.loops]
    BY <1>4
  <2> HIDE DEF start, a
  <2> QED BY <1>4, <2>1, EmptyStream
<1>9. b.q.buffers = <<>> /\ b.q.exists = TRUE /\ b.q.running = "Stopped" /\ b.p.playing = TRUE
  BY <1>4, <1>7
<1> HIDE DEF a, start, made, b
<1>10. full \in Refills(a, b, 0, 0)
  <2>1. 0 \in 0 .. Len(b.q.buffers) /\ Stream(a, b.p, b.q.buffers, 0, 0)
    BY <1>5, <1>7, <1>8, <1>9
  <2> QED BY <1>3, <1>7, <2>1, PlayerAssumption, RefilledKeeps
<1>11. full \in FillState /\ RefillsTo(a, b, 0, 0, full)
  BY <1>10 DEF Refills
<1>12. Prepared = [full EXCEPT !.p.playing = FALSE]
  BY DEF Prepared, full, b, start, made
<1> HIDE DEF full
<1>13. PICK p0 \in PlayerRecord, q0 \in QueueRecord : full = [p |-> p0, q |-> q0]
  BY <1>11 DEF FillState
<1>14. Prepared = [p |-> [p0 EXCEPT !.playing = FALSE], q |-> q0] /\ full.p = p0 /\ full.q = q0
  BY <1>12, <1>13
<1>15. /\ Prepared.p = [p0 EXCEPT !.playing = FALSE] /\ Prepared.q = q0
  BY <1>14
<1>16. /\ Prepared.p \in PlayerRecord /\ Prepared.p.playing = FALSE
       /\ Prepared.p.current = p0.current /\ Prepared.p.loops = p0.loops
  BY <1>13, <1>15 DEF PlayerRecord
<1>17. /\ q0.exists = TRUE /\ q0.running = "Stopped" /\ Stream(a, p0, q0.buffers, 0, 0)
  BY <1>9, <1>11, <1>14 DEF RefillsTo
<1>18. Stream(a, Prepared.p, q0.buffers, 0, 0)
  BY <1>16, <1>17, StreamSame
<1> QED BY <1>3, <1>13, <1>15, <1>16, <1>17, <1>18 DEF a

\* prepareToPlay makes a queue and fills it from the place that is sought.
LEMMA PrepareToPlayKeeps ==
  ASSUME PlayerInv, PrepareToPlay
  PROVE  PlayerInv'
<1>1. /\ player' = Prepared.p /\ queue' = Prepared.q
      /\ al' = NewSource /\ heard' = <<>> /\ ended' = FALSE
      /\ asked' = [first |-> SeekTo(player.seek), loops |-> player.loops]
  BY DEF PrepareToPlay, MakeQueue
<1>2. /\ asked' \in AskedRecord /\ player' \in PlayerRecord /\ queue' \in QueueRecord
      /\ player'.playing = FALSE /\ queue'.exists = TRUE /\ queue'.running = "Stopped"
      /\ Stream(asked', player', queue'.buffers, 0, 0)
  BY <1>1, PreparedIs
<1>3. al' \in AlRecord /\ al'.state = "INITIAL" /\ al'.queued = 0 /\ al'.played = 0
  BY <1>1 DEF NewSource, AlRecord, SourceStates
<1>4. HeardFits'
  BY <1>1, <1>2, HeardNothing
<1>5. PlayerTypeOK'
  <2>1. heard' \in Seq(Nat) /\ ended' \in BOOLEAN
    <3>1. <<>> \in Seq(Nat)
      OBVIOUS
    <3> QED BY <1>1, <3>1
  <2> QED BY <1>2, <1>3, <2>1 DEF PlayerTypeOK
<1>6. RunsAsTold'
  BY <1>2 DEF RunsAsTold
<1>7. Len(queue'.buffers) \in Nat /\ Len(heard') = 0
  <2>1. queue'.buffers \in Seq(Seq(Nat))
    BY <1>2 DEF QueueRecord
  <2> QED BY <1>1, <2>1, LenProperties
<1>8. InOrder(asked', player', queue', al', Len(heard'))
  BY <1>2, <1>3, <1>7 DEF InOrder, SourceIn
<1> QED BY <1>1, <1>2, <1>4, <1>5, <1>6, <1>8 DEF PlayerInv

\* play, which makes the queue if there is none.
LEMMA PlayKeeps ==
  ASSUME PlayerCare, PlayerInv, Play
  PROVE  PlayerInv'
<1> DEFINE s == IF queue.exists THEN [p |-> player, q |-> queue] ELSE Prepared
<1>1. queue.running = "Stopped" /\ ~ended /\ (al.state = "STOPPED" => al.queued = 0)
  BY DEF Play, PlayerCare
<1>2. /\ player' = [s.p EXCEPT !.playing = TRUE]
      /\ queue' = [s.q EXCEPT !.running = "Running"]
      /\ IF queue.exists
         THEN al' = SourcePlays(Primed(al, queue.buffers)) /\ UNCHANGED <<heard, asked, ended>>
         ELSE /\ al' = SourcePlays(Primed(NewSource, s.q.buffers)) /\ heard' = <<>> /\ ended' = FALSE
              /\ asked' = [first |-> SeekTo(player.seek), loops |-> player.loops]
  BY DEF Play
<1>3. /\ player \in PlayerRecord /\ queue \in QueueRecord /\ al \in AlRecord
      /\ heard \in Seq(Nat) /\ asked \in AskedRecord /\ ended \in BOOLEAN
      /\ Len(queue.buffers) \in Nat /\ al.queued \in Nat /\ al.played \in Nat
  BY PlayerTyped
<1>4. s.p \in PlayerRecord /\ s.q \in QueueRecord /\ s.q.exists = TRUE
  <2>1. queue.exists \in BOOLEAN
    BY <1>3 DEF QueueRecord
  <2> QED BY <1>3, <2>1, PreparedIs
<1> HIDE DEF s
<1>5. /\ player' \in PlayerRecord /\ player'.playing = TRUE
      /\ player'.current = s.p.current /\ player'.loops = s.p.loops
  BY <1>2, <1>4 DEF PlayerRecord
<1>6. /\ queue' \in QueueRecord /\ queue'.running = "Running" /\ queue'.exists = TRUE
      /\ queue'.buffers = s.q.buffers
  BY <1>2, <1>4 DEF QueueRecord, RunStates
<1>7. RunsAsTold'
  BY <1>5, <1>6 DEF RunsAsTold
<1>8. Len(s.q.buffers) \in Nat
  <2>1. s.q.buffers \in Seq(Seq(Nat))
    BY <1>4 DEF QueueRecord
  <2> QED BY <2>1, LenProperties
<1>9. CASE ~queue.exists
  <2> DEFINE primed == Primed(NewSource, s.q.buffers)
  <2>1. al' = SourcePlays(primed) /\ heard' = <<>> /\ ended' = FALSE
        /\ asked' = [first |-> SeekTo(player.seek), loops |-> player.loops] /\ s = Prepared
    BY <1>2, <1>9 DEF s
  <2>2. asked' \in AskedRecord /\ Stream(asked', s.p, s.q.buffers, 0, 0)
    BY <2>1, PreparedIs
  <2>3. NewSource \in AlRecord /\ NewSource.queued = 0 /\ NewSource.played = 0 /\ NewSource.state = "INITIAL"
    BY DEF NewSource, AlRecord, SourceStates
  <2>4. /\ primed \in AlRecord /\ primed.state = "INITIAL" /\ primed.played = 0
        /\ 0 <= primed.queued /\ primed.queued <= Len(s.q.buffers)
    BY <1>8, <2>3, PrimedIs
  <2> HIDE DEF primed
  <2>5. /\ SourcePlays(primed) \in AlRecord /\ SourcePlays(primed).played = 0
        /\ SourceIn(SourcePlays(primed), s.q.buffers, "Running")
    BY <1>8, <2>4, StartedIsIn
  <2>6. Stream(asked', player', queue'.buffers, 0, 0)
    BY <1>5, <1>6, <2>2, StreamSame
  <2>7. Len(heard') = 0 /\ heard' \in Seq(Nat) /\ ended' \in BOOLEAN
    <3>1. <<>> \in Seq(Nat) /\ Len(<<>>) = 0
      OBVIOUS
    <3> QED BY <2>1, <3>1
  <2>8. InOrder(asked', player', queue', al', Len(heard'))
    BY <1>6, <2>1, <2>5, <2>6, <2>7 DEF InOrder
  <2>9. PlayerTypeOK'
    BY <1>5, <1>6, <2>1, <2>2, <2>5, <2>7 DEF PlayerTypeOK
  <2>10. HeardFits'
    BY <2>1, <2>2, HeardNothing
  <2> QED BY <1>6, <1>7, <2>1, <2>8, <2>9, <2>10 DEF PlayerInv
<1>10. CASE queue.exists
  <2> DEFINE primed == Primed(al, queue.buffers)
  <2>1. al' = SourcePlays(primed) /\ UNCHANGED <<heard, asked, ended>> /\ s.p = player /\ s.q = queue
    BY <1>2, <1>10 DEF s
  <2>2. HeardFits'
    BY <2>1, HeardStays
  <2>3. ASSUME al' \in AlRecord PROVE PlayerTypeOK'
    BY <1>3, <1>5, <1>6, <2>1, <2>3 DEF PlayerTypeOK
  <2>4. CASE InOrder(asked, player, queue, al, Len(heard))
    <3>1. SourceIn(al, queue.buffers, queue.running) /\ Stream(asked, player, queue.buffers, al.played, Len(heard))
      BY <2>4 DEF InOrder
    <3>2. al.played <= al.queued /\ al.queued <= Len(queue.buffers)
      BY <3>1 DEF SourceIn
    <3>3. al.state = "PAUSED" => al.played < al.queued
      BY <3>1 DEF SourceIn
    <3>4. al.state # "PAUSED" => al.played = 0
      <4>1. al.state # "PLAYING"
        BY <1>1, <3>1 DEF SourceIn
      <4>2. al.state = "INITIAL" \/ al.state = "STOPPED" => al.queued = 0
        BY <1>1, <3>1 DEF SourceIn
      <4>3. al.state \in SourceStates
        BY <1>3 DEF AlRecord
      <4>4. al.queued = 0 => al.played = 0
        BY <1>3, <3>2
      <4> QED BY <4>1, <4>2, <4>3, <4>4 DEF SourceStates
    <3>5. /\ primed \in AlRecord /\ primed.state = al.state /\ primed.played = al.played
          /\ al.queued <= primed.queued /\ primed.queued <= Len(queue.buffers)
      BY <1>3, <3>2, PrimedIs
    <3> HIDE DEF primed
    <3>6. primed.queued \in Nat
      BY <3>5 DEF AlRecord
    <3>7. primed.played <= primed.queued /\ (primed.state = "PAUSED" => primed.played < primed.queued)
      BY <1>3, <3>2, <3>3, <3>5, <3>6
    <3>8. /\ SourcePlays(primed) \in AlRecord /\ SourcePlays(primed).played = al.played
          /\ SourceIn(SourcePlays(primed), queue.buffers, "Running")
      <4>1. (primed.state # "PAUSED" => primed.played = 0) /\ "Running" # "Stopped"
        BY <3>4, <3>5
      <4>2. /\ SourcePlays(primed) \in AlRecord /\ SourcePlays(primed).played = primed.played
            /\ SourceIn(SourcePlays(primed), queue.buffers, "Running")
        BY <1>3, <3>5, <3>7, <4>1, StartedIsIn
      <4> QED BY <3>5, <4>2
    <3>9. Stream(asked', player', queue'.buffers, al.played, Len(heard'))
      BY <1>5, <1>6, <2>1, <3>1, StreamSame
    <3>10. InOrder(asked', player', queue', al', Len(heard'))
      BY <1>6, <2>1, <3>8, <3>9 DEF InOrder
    <3>11. PlayerTypeOK'
      BY <2>1, <2>3, <3>8
    <3> QED BY <1>1, <1>6, <1>7, <2>1, <2>2, <3>10, <3>11 DEF PlayerInv
  <2>5. CASE Lost(queue, al) \/ Silent(queue, al)
    <3>1. al.state = "STOPPED" /\ al.queued = 0 /\ Len(queue.buffers) = 0 /\ queue.buffers = <<>>
      <4>1. queue.buffers \in Seq(Seq(Nat))
        BY <1>3 DEF QueueRecord
      <4>2. al.state = "STOPPED" /\ al.queued = 0
        BY <1>1, <2>5 DEF Lost, Silent
      <4>3. Len(queue.buffers) = 0
        BY <2>5, <4>1, <4>2 DEF Lost, Silent
      <4> QED BY <4>1, <4>2, <4>3, EmptySeq
    <3>2. /\ primed \in AlRecord /\ primed.queued = 0
      <4>1. al.queued <= Len(queue.buffers)
        BY <3>1
      <4>2. primed \in AlRecord /\ (al.state = "STOPPED" => primed.queued = Len(queue.buffers))
        BY <1>3, <4>1, PrimedIs
      <4> QED BY <3>1, <4>2
    <3> HIDE DEF primed
    <3>3. /\ SourcePlays(primed) \in AlRecord /\ SourcePlays(primed).queued = 0
          /\ SourcePlays(primed).state = "STOPPED"
      BY <3>2, SourcePlaysIs
    <3>4. Silent(queue', al')
      BY <1>6, <2>1, <3>1, <3>3 DEF Silent
    <3>5. PlayerTypeOK'
      BY <2>1, <2>3, <3>3
    <3> QED BY <1>1, <1>6, <1>7, <2>1, <2>2, <3>4, <3>5 DEF PlayerInv
  <2> QED BY <1>10, <2>4, <2>5 DEF PlayerInv
<1> QED BY <1>9, <1>10

\* pause
LEMMA PauseKeeps ==
  ASSUME PlayerInv, Pause
  PROVE  PlayerInv'
<1>1. /\ player' = [player EXCEPT !.playing = FALSE]
      /\ queue' = [queue EXCEPT !.running = "Stopped"]
      /\ al' = IF al.state = "PLAYING" THEN [al EXCEPT !.state = "PAUSED"] ELSE al
      /\ UNCHANGED <<heard, asked, ended>>
  BY DEF Pause
<1>2. player \in PlayerRecord /\ queue \in QueueRecord /\ al \in AlRecord
  BY PlayerTyped
<1>3. /\ player' \in PlayerRecord /\ player'.playing = FALSE
      /\ player'.current = player.current /\ player'.loops = player.loops
  BY <1>1, <1>2 DEF PlayerRecord
<1>4. /\ queue' \in QueueRecord /\ queue'.running = "Stopped" /\ queue'.exists = queue.exists
      /\ queue'.buffers = queue.buffers
  BY <1>1, <1>2 DEF QueueRecord, RunStates
<1>5. /\ al' \in AlRecord /\ al'.queued = al.queued /\ al'.played = al.played
      /\ al'.state = IF al.state = "PLAYING" THEN "PAUSED" ELSE al.state
  BY <1>1, <1>2 DEF AlRecord, SourceStates
<1>6. HeardFits'
  BY <1>1, HeardStays
<1>7. PlayerTypeOK' /\ RunsAsTold'
  BY <1>1, <1>3, <1>4, <1>5 DEF PlayerInv, PlayerTypeOK, RunsAsTold
<1>8. ASSUME ~queue.exists PROVE queue' = NoQueue /\ al' = NewSource
  <2>1. queue = NoQueue /\ al = NewSource
    BY <1>8 DEF PlayerInv
  <2> QED BY <1>1, <2>1 DEF NoQueue, NewSource
<1>9. ASSUME InOrder(asked, player, queue, al, Len(heard)) PROVE InOrder(asked', player', queue', al', Len(heard'))
  <2>1. Stream(asked, player', queue.buffers, al.played, Len(heard))
    BY <1>3, <1>9, StreamSame DEF InOrder
  <2>2. SourceIn(al', queue.buffers, "Stopped")
    BY <1>5, <1>9 DEF InOrder, SourceIn
  <2> QED BY <1>1, <1>4, <1>5, <2>1, <2>2 DEF InOrder
<1>10. (Lost(queue, al) => Lost(queue', al')) /\ (Silent(queue, al) => Silent(queue', al'))
  BY <1>4, <1>5 DEF Lost, Silent
<1> QED BY <1>1, <1>4, <1>6, <1>7, <1>8, <1>9, <1>10 DEF PlayerInv

\* The queue is disposed of.
LEMMA StopKeeps ==
  ASSUME PlayerInv, Stop \/ Dealloc
  PROVE  PlayerInv'
<1>1. queue' = NoQueue /\ al' = NewSource /\ UNCHANGED <<heard, asked>> /\ ended' = FALSE
  BY DEF Stop, Dealloc
<1>2. player \in PlayerRecord /\ heard \in Seq(Nat) /\ asked \in AskedRecord
  BY PlayerTyped
<1>3. player' \in PlayerRecord /\ player'.playing = FALSE
  <2>1. CASE Stop
    <3>1. player' = [current |-> 0, seek |-> 0, playing |-> FALSE, volume |-> 1,
                     loops |-> player.loops, file |-> player.file]
      BY <2>1 DEF Stop
    <3> QED BY <1>2, <3>1, PlayerAssumption DEF PlayerRecord
  <2>2. CASE Dealloc
    <3>1. player' = [player EXCEPT !.file = FALSE, !.playing = FALSE]
      BY <2>2 DEF Dealloc
    <3> QED BY <1>2, <3>1 DEF PlayerRecord
  <2> QED BY <2>1, <2>2
<1>4. queue' \in QueueRecord /\ al' \in AlRecord
  <2>1. <<>> \in Seq(Seq(Nat))
    OBVIOUS
  <2>2. NoQueue \in QueueRecord
    BY <2>1 DEF NoQueue, QueueRecord, RunStates
  <2>3. NewSource \in AlRecord
    BY DEF NewSource, AlRecord, SourceStates
  <2> QED BY <1>1, <2>2, <2>3
<1>5. PlayerTypeOK'
  BY <1>1, <1>2, <1>3, <1>4 DEF PlayerTypeOK
<1>6. queue'.running = "Stopped" /\ ~queue'.exists
  BY <1>1 DEF NoQueue
<1>7. HeardFits'
  BY <1>1, HeardStays
<1> QED BY <1>1, <1>3, <1>5, <1>6, <1>7 DEF PlayerInv, RunsAsTold

-----------------------------------------------------------------------------
(* AVAudioPlayer: the device and the run loop                              *)

\* The device plays a buffer to its end: its packets are heard.
LEMMA DevicePlaysKeeps ==
  ASSUME PlayerInv, DevicePlays
  PROVE  PlayerInv'
<1> DEFINE bufs == queue.buffers
           o == al.played
           h == Len(heard)
           r == bufs[o + 1]
<1>1. /\ al.state = "PLAYING" /\ al.played < al.queued /\ heard' = heard \o r
      /\ al' = [al EXCEPT !.played = @ + 1,
                          !.state = IF al.played + 1 = al.queued THEN "STOPPED" ELSE "PLAYING"]
      /\ UNCHANGED <<player, queue, asked, ended>>
  BY DEF DevicePlays
<1>2. /\ player \in PlayerRecord /\ queue \in QueueRecord /\ al \in AlRecord
      /\ heard \in Seq(Nat) /\ asked \in AskedRecord /\ ended \in BOOLEAN
      /\ h \in Nat /\ bufs \in Seq(Seq(Nat)) /\ Len(bufs) \in Nat
      /\ al.queued \in Nat /\ o \in Nat
  BY PlayerTyped
<1>3. queue.exists /\ ~ended
  BY <1>1 DEF PlayerInv, NewSource, Silent
<1>4. /\ SourceIn(al, bufs, queue.running) /\ Stream(asked, player, bufs, o, h)
  BY <1>1, <1>3 DEF PlayerInv, InOrder, Lost, Silent
<1>5. o + 1 \in 1 .. Len(bufs) /\ o + 1 <= al.queued /\ al.queued <= Len(bufs)
  <2>1. al.queued <= Len(bufs)
    BY <1>4 DEF SourceIn
  <2> QED BY <1>1, <1>2, <2>1
<1>6. r \in Seq(Nat) /\ Len(r) \in Nat
  <2>1. r \in Seq(Nat)
    BY <1>2, <1>5, ElementOfSeq
  <2> QED BY <2>1, LenProperties
<1>7. PICK d \in Nat : \E ends \in [0 .. Len(bufs) -> Int] :
        /\ Started(asked, player, d) /\ Continues(asked, bufs, ends, PutAfter(asked, player, d)) /\ ends[o] = h
  BY <1>4 DEF Stream
<1>8. PICK ends \in [0 .. Len(bufs) -> Int] :
        /\ Started(asked, player, d) /\ Continues(asked, bufs, ends, PutAfter(asked, player, d)) /\ ends[o] = h
  BY <1>7
<1>9. /\ ends[o + 1] = ends[(o + 1) - 1] + Len(r)
      /\ \A j \in 1 .. Len(r) : r[j] = ExpectedOf(asked, ends[(o + 1) - 1] + j)
      /\ ends[o + 1] <= PutAfter(asked, player, d)
  <2>1. o + 1 \in 0 .. Len(bufs)
    BY <1>2, <1>5
  <2> QED BY <1>5, <1>8, <2>1 DEF Continues
<1>10. ends[o + 1] = h + Len(r) /\ \A j \in 1 .. Len(r) : r[j] = ExpectedOf(asked, h + j)
  <2>1. (o + 1) - 1 = o
    BY <1>2
  <2> QED BY <1>8, <1>9, <2>1
<1> HIDE DEF r, bufs, o, h
<1>11. /\ heard' \in Seq(Nat) /\ Len(heard') = h + Len(r)
       /\ \A i \in 1 .. h : heard'[i] = heard[i]
       /\ \A i \in h + 1 .. h + Len(r) : heard'[i] = r[i - h]
  BY <1>1, <1>2, <1>6, ConcatProperties DEF h
<1>12. HeardFits'
  <2>1. ASSUME NEW n \in 1 .. Len(heard') PROVE heard'[n] = ExpectedOf(asked, n)
    <3>1. CASE n <= h
      <4>1. n \in 1 .. h
        BY <1>2, <3>1
      <4>2. heard[n] = ExpectedOf(asked, n)
        BY <4>1 DEF PlayerInv, HeardFits, h
      <4> QED BY <1>11, <4>1, <4>2
    <3>2. CASE ~(n <= h)
      <4>1. n \in h + 1 .. h + Len(r) /\ n - h \in 1 .. Len(r) /\ h + (n - h) = n
        BY <1>2, <1>6, <1>11, <3>2
      <4>2. r[n - h] = ExpectedOf(asked, h + (n - h))
        BY <1>10, <4>1
      <4> QED BY <1>11, <4>1, <4>2
    <3> QED BY <3>1, <3>2
  <2>2. ASSUME asked.loops >= 0 PROVE Len(heard') <= AllOf(asked)
    <3>1. PutAfter(asked, player, d) <= AllOf(asked)
      BY <1>2, <1>8, <2>2, PutBounded
    <3>2. PICK x, y, f, c, m, n \in Int :
             /\ x = d * Packets /\ y = asked.loops * Packets /\ f = asked.first /\ c = player.current
             /\ m = Packets /\ n = ends[o + 1]
      <4>1. asked.loops \in Int /\ asked.first \in Int /\ player.current \in Int /\ Packets \in Int /\ d \in Int
        BY <1>2, PlayerAssumption DEF AskedRecord, PlayerRecord
      <4>2. d * Packets \in Int /\ asked.loops * Packets \in Int
        BY <4>1, TimesPackets
      <4>3. ends[o + 1] \in Int
        BY <1>2, <1>6, <1>10
      <4> QED BY <4>1, <4>2, <4>3
    <3>3. PutAfter(asked, player, d) = c - f + x /\ AllOf(asked) = m - f + y
      BY <3>2 DEF PutAfter, AllOf
    <3>4. n <= c - f + x /\ c - f + x <= m - f + y
      BY <1>9, <3>1, <3>2, <3>3
    <3>5. n <= m - f + y
      BY <3>4
    <3> QED BY <1>10, <1>11, <3>2, <3>3, <3>5
  <2> QED BY <1>1, <1>3, <2>1, <2>2 DEF HeardFits
<1>13. /\ al' \in AlRecord /\ al'.played = o + 1 /\ al'.queued = al.queued
       /\ al'.state = IF o + 1 = al.queued THEN "STOPPED" ELSE "PLAYING"
  <2>1. o + 1 \in Nat /\ al.played = o
    BY <1>2 DEF o
  <2>2. PICK x, y, z : al = [state |-> x, queued |-> y, played |-> z] /\ y \in Nat /\ z = o
    BY <1>2, <2>1 DEF AlRecord
  <2>3. al' = [state |-> IF o + 1 = al.queued THEN "STOPPED" ELSE "PLAYING", queued |-> y, played |-> o + 1]
    BY <1>1, <2>1, <2>2
  <2> QED BY <2>1, <2>2, <2>3 DEF AlRecord, SourceStates
<1>14. PlayerTypeOK'
  BY <1>1, <1>2, <1>11, <1>13 DEF PlayerTypeOK
<1>15. SourceIn(al', bufs, queue.running)
  <2>1. queue.running # "Stopped"
    BY <1>1, <1>4 DEF SourceIn
  <2>2. al'.state = "PLAYING" => al'.played < al'.queued
    BY <1>2, <1>5, <1>13
  <2> QED BY <1>5, <1>13, <2>1, <2>2 DEF SourceIn
<1>16. Stream(asked, player, bufs, o + 1, Len(heard'))
  BY <1>8, <1>10, <1>11 DEF Stream
<1>17. InOrder(asked', player', queue', al', Len(heard'))
  BY <1>1, <1>13, <1>15, <1>16 DEF InOrder, bufs
<1>18. RunsAsTold'
  BY <1>1 DEF PlayerInv, RunsAsTold, AtEnd
<1> QED BY <1>1, <1>3, <1>12, <1>14, <1>17, <1>18 DEF PlayerInv

\* Buffers that have been heard are taken away.
LEMMA StreamDropped ==
  ASSUME NEW a, NEW p, NEW bufs \in Seq(Seq(Nat)), NEW o \in 0 .. Len(bufs), NEW h, Stream(a, p, bufs, o, h)
  PROVE  Stream(a, p, SubSeq(bufs, o + 1, Len(bufs)), 0, h)
<1> DEFINE left == SubSeq(bufs, o + 1, Len(bufs))
           n == Len(bufs)
<1>1. n \in Nat /\ o \in Int /\ 0 <= o /\ o <= n
  BY LenProperties
<1>2. Len(left) = n - o /\ \A i \in 1 .. n - o : left[i] = bufs[o + i]
  <2>1. o + 1 \in Int /\ n \in Int /\ \A i \in o + 1 .. n : bufs[i] \in Seq(Nat)
    BY <1>1, ElementOfSeq
  <2>2. /\ Len(left) = IF o + 1 <= n THEN n - (o + 1) + 1 ELSE 0
        /\ \A i \in 1 .. n - (o + 1) + 1 : left[i] = bufs[(o + 1) + i - 1]
    BY <2>1, SubSeqProperties
  <2>3. Len(left) = n - o /\ n - (o + 1) + 1 = n - o
    BY <1>1, <2>2
  <2>4. \A i \in 1 .. n - o : (o + 1) + i - 1 = o + i
    BY <1>1
  <2> QED BY <2>2, <2>3, <2>4
<1>3. PICK d \in Nat : \E ends \in [0 .. n -> Int] :
        /\ Started(a, p, d) /\ Continues(a, bufs, ends, PutAfter(a, p, d)) /\ ends[o] = h
  BY DEF Stream
<1>4. PICK ends \in [0 .. n -> Int] :
        /\ Started(a, p, d) /\ Continues(a, bufs, ends, PutAfter(a, p, d)) /\ ends[o] = h
  BY <1>3
<1> DEFINE put == PutAfter(a, p, d)
           later == [i \in 0 .. n - o |-> ends[o + i]]
<1>5. /\ \A i \in 1 .. n : /\ ends[i] = ends[i - 1] + Len(bufs[i])
                           /\ \A j \in 1 .. Len(bufs[i]) : bufs[i][j] = ExpectedOf(a, ends[i - 1] + j)
      /\ \A i \in 0 .. n : 0 <= ends[i] /\ ends[i] <= put
      /\ ends[n] = put
  BY <1>4 DEF Continues
<1>6. \A i \in 0 .. n - o : o + i \in 0 .. n
  BY <1>1
<1>7. /\ later \in [0 .. n - o -> Int] /\ \A i \in 0 .. n - o : later[i] = ends[o + i]
  BY <1>4, <1>6
<1> HIDE DEF later, left, put
<1>8. later[0] = h /\ later[n - o] = put
  <2>1. o + 0 = o /\ o + (n - o) = n /\ 0 \in 0 .. n - o /\ n - o \in 0 .. n - o
    BY <1>1
  <2> QED BY <1>4, <1>5, <1>7, <2>1
<1>9. ASSUME NEW i \in 1 .. n - o
      PROVE  /\ later[i] = later[i - 1] + Len(left[i])
             /\ \A j \in 1 .. Len(left[i]) : left[i][j] = ExpectedOf(a, later[i - 1] + j)
  <2>1. /\ i \in 0 .. n - o /\ i - 1 \in 0 .. n - o /\ o + i \in 1 .. n /\ o + (i - 1) = (o + i) - 1
    BY <1>1
  <2>2. later[i] = ends[o + i] /\ later[i - 1] = ends[(o + i) - 1] /\ left[i] = bufs[o + i]
    BY <1>2, <1>7, <2>1
  <2> QED BY <1>5, <2>1, <2>2
<1>10. \A i \in 0 .. n - o : 0 <= later[i] /\ later[i] <= put
  BY <1>5, <1>6, <1>7
<1>11. Continues(a, left, later, put)
  BY <1>2, <1>7, <1>8, <1>9, <1>10 DEF Continues
<1> QED BY <1>2, <1>4, <1>7, <1>8, <1>11 DEF Stream, left, put

\* The source, once the buffers it has played are taken back and others queued.
LEMMA QueuedAgain ==
  ASSUME NEW s \in AlRecord, NEW used \in Nat, used <= s.queued,
         NEW bufs, Len(bufs) \in Nat, s.queued - used <= Len(bufs)
  PROVE  LET src == Primed([s EXCEPT !.played = 0, !.queued = @ - used], bufs)
         IN /\ src \in AlRecord /\ src.state = s.state /\ src.played = 0
            /\ s.queued - used <= src.queued /\ src.queued <= Len(bufs)
            /\ s.state = "STOPPED" => src.queued = Len(bufs)
<1> DEFINE t == [s EXCEPT !.played = 0, !.queued = @ - used]
<1>1. s.queued \in Nat /\ s.queued - used \in Nat
  <2>1. s.queued \in Nat
    BY DEF AlRecord
  <2> QED BY <2>1
<1>2. t \in AlRecord /\ t.state = s.state /\ t.played = 0 /\ t.queued = s.queued - used
  BY <1>1 DEF AlRecord
<1> HIDE DEF t
<1>3. t.queued <= Len(bufs)
  BY <1>2
<1>4. /\ Primed(t, bufs) \in AlRecord
      /\ Primed(t, bufs).state = t.state /\ Primed(t, bufs).played = t.played
      /\ t.queued <= Primed(t, bufs).queued /\ Primed(t, bufs).queued <= Len(bufs)
      /\ t.state = "STOPPED" => Primed(t, bufs).queued = Len(bufs)
  BY <1>2, <1>3, PrimedIs
<1> QED BY <1>2, <1>4 DEF t

\* What the run loop does with a queue, in the terms of the model.
HandleLeft(used) == [queue EXCEPT !.buffers = SubSeq(@, used + 1, Len(@))]
HandleUsed == IF al.state = "STOPPED" THEN al.queued ELSE al.played
HandleSource(used, bufs) == Primed([al EXCEPT !.played = 0, !.queued = @ - used], bufs)
HandleAgain(src) ==
    IF queue.running # "Stopped" /\ al.state = "STOPPED" THEN SourcePlays(src) ELSE src

\* A visit of the queue's handler, in named parts.
LEMMA HandleIs ==
  ASSUME Handle
  PROVE  LET s == Refilled([p |-> player, q |-> HandleLeft(HandleUsed)], HandleUsed)
             again == HandleAgain(HandleSource(HandleUsed, s.q.buffers))
             finish == queue.running = "Stopping" /\ again.state = "STOPPED"
         IN /\ queue.exists /\ al.queued > 0
            /\ player' = s.p
            /\ queue' = IF finish THEN [s.q EXCEPT !.running = "Stopped", !.buffers = <<>>] ELSE s.q
            /\ al' = again /\ ended' = (ended \/ finish)
            /\ UNCHANGED <<heard, asked>>
BY DEF Handle, HandleLeft, HandleUsed, HandleSource, HandleAgain

\* A queue whose buffers have come back in order.
LEMMA HandleInOrder ==
  ASSUME PlayerInv, Handle, InOrder(asked, player, queue, al, Len(heard))
  PROVE  PlayerInv'
<1> DEFINE h == Len(heard)
           used == HandleUsed
           left == HandleLeft(used)
           b == [p |-> player, q |-> left]
           s == Refilled(b, used)
           src == HandleSource(used, s.q.buffers)
           again == HandleAgain(src)
           finish == queue.running = "Stopping" /\ again.state = "STOPPED"
<1>1. /\ queue.exists /\ al.queued > 0
      /\ player' = s.p
      /\ queue' = IF finish THEN [s.q EXCEPT !.running = "Stopped", !.buffers = <<>>] ELSE s.q
      /\ al' = again /\ ended' = (ended \/ finish)
      /\ UNCHANGED <<heard, asked>>
  BY HandleIs
<1>2. /\ player \in PlayerRecord /\ queue \in QueueRecord /\ al \in AlRecord
      /\ heard \in Seq(Nat) /\ asked \in AskedRecord /\ ended \in BOOLEAN
      /\ h \in Nat /\ queue.buffers \in Seq(Seq(Nat)) /\ Len(queue.buffers) \in Nat
      /\ al.queued \in Nat /\ al.played \in Nat
  BY PlayerTyped
<1>3. /\ SourceIn(al, queue.buffers, queue.running) /\ Stream(asked, player, queue.buffers, al.played, h)
  BY DEF InOrder
<1>4. used = al.played /\ used <= al.queued /\ al.queued <= Len(queue.buffers)
  BY <1>3 DEF SourceIn, HandleUsed
<1>5. ended = FALSE
  <2>1. ~ended
    BY <1>1, <1>2 DEF PlayerInv, Silent
  <2> QED BY <1>2, <2>1
<1>6. used \in 0 .. Len(queue.buffers) /\ used \in Nat
  BY <1>2, <1>4
<1> HIDE DEF used
<1>7. /\ left \in QueueRecord /\ left.running = queue.running /\ left.exists = queue.exists
      /\ left.buffers = SubSeq(queue.buffers, used + 1, Len(queue.buffers))
      /\ Len(left.buffers) = Len(queue.buffers) - used
  <2> DEFINE rest == SubSeq(queue.buffers, used + 1, Len(queue.buffers))
  <2>1. used + 1 \in Int /\ Len(queue.buffers) \in Int
        /\ \A i \in used + 1 .. Len(queue.buffers) : queue.buffers[i] \in Seq(Nat)
    BY <1>2, <1>6, ElementOfSeq
  <2>2. /\ rest \in Seq(Seq(Nat))
        /\ Len(rest) = IF used + 1 <= Len(queue.buffers) THEN Len(queue.buffers) - (used + 1) + 1 ELSE 0
    BY <2>1, SubSeqProperties
  <2>3. Len(rest) = Len(queue.buffers) - used
    BY <1>2, <1>6, <2>2
  <2>4. left = [queue EXCEPT !.buffers = rest]
    BY DEF HandleLeft
  <2> HIDE DEF rest, left
  <2>5. left \in QueueRecord /\ left.running = queue.running /\ left.exists = queue.exists /\ left.buffers = rest
    BY <1>2, <2>2, <2>4 DEF QueueRecord
  <2> QED BY <2>3, <2>5 DEF rest
<1> HIDE DEF left
<1>8. b \in FillState /\ b.p = player /\ b.q = left
  BY <1>2, <1>7 DEF FillState
<1>9. Stream(asked, player, left.buffers, 0, h)
  BY <1>2, <1>3, <1>4, <1>6, <1>7, StreamDropped
<1> HIDE DEF b, h
<1>10. s \in Refills(asked, b, 0, h)
  <2>1. 0 \in 0 .. Len(b.q.buffers)
    BY <1>2, <1>4, <1>6, <1>7, <1>8
  <2>2. Stream(asked, b.p, b.q.buffers, 0, h)
    BY <1>8, <1>9
  <2> QED BY <1>2, <1>6, <1>8, <2>1, <2>2, RefilledKeeps
<1> HIDE DEF s
<1>11. s \in FillState /\ RefillsTo(asked, b, 0, h, s)
  BY <1>10 DEF Refills
<1>12. /\ s.p \in PlayerRecord /\ s.q \in QueueRecord /\ s.q.buffers \in Seq(Seq(Nat)) /\ Len(s.q.buffers) \in Nat
  <2>1. s.p \in PlayerRecord /\ s.q \in QueueRecord /\ s.q.buffers \in Seq(Seq(Nat))
    BY <1>11 DEF FillState, QueueRecord
  <2> QED BY <2>1, LenProperties
<1>13. /\ s.q.exists = TRUE /\ Len(left.buffers) <= Len(s.q.buffers)
       /\ Stream(asked, s.p, s.q.buffers, 0, h)
       /\ ~player.playing => s = b
       /\ \/ s.p.playing = player.playing /\ s.q.running = queue.running
          \/ /\ player.playing /\ ~s.p.playing /\ AtEnd(s.p)
             /\ s.q.running = IF queue.running = "Stopped" THEN "Stopped" ELSE "Stopping"
  <2>1. queue.exists = TRUE
    BY <1>1, <1>2 DEF QueueRecord
  <2> QED BY <1>7, <1>8, <1>11, <2>1 DEF RefillsTo
<1>14. /\ s.p.playing = (s.q.running = "Running") /\ (s.q.running = "Stopping" => AtEnd(s.p))
       /\ queue.running # "Stopped" => s.q.running # "Stopped"
  <2>1. player.playing = (queue.running = "Running") /\ (queue.running = "Stopping" => AtEnd(player))
    BY DEF PlayerInv, RunsAsTold
  <2>2. CASE s.p.playing = player.playing /\ s.q.running = queue.running
    <3>1. ASSUME s.q.running = "Stopping" PROVE AtEnd(s.p)
      <4>1. ~player.playing /\ AtEnd(player)
        BY <2>1, <2>2, <3>1
      <4> QED BY <1>8, <1>13, <4>1
    <3> QED BY <2>1, <2>2, <3>1
  <2>3. CASE /\ player.playing /\ ~s.p.playing /\ AtEnd(s.p)
             /\ s.q.running = IF queue.running = "Stopped" THEN "Stopped" ELSE "Stopping"
    <3>1. s.p.playing = FALSE
      BY <1>12, <2>3 DEF PlayerRecord
    <3> QED BY <2>1, <2>3, <3>1
  <2> QED BY <1>13, <2>2, <2>3
<1>15. al.queued - used <= Len(s.q.buffers)
  <2>1. Len(queue.buffers) - used <= Len(s.q.buffers)
    BY <1>7, <1>13
  <2> QED BY <1>2, <1>4, <1>6, <1>12, <2>1
<1>16. /\ src \in AlRecord /\ src.state = al.state /\ src.played = 0
       /\ al.queued - used <= src.queued /\ src.queued <= Len(s.q.buffers)
       /\ al.state = "STOPPED" => src.queued = Len(s.q.buffers)
  BY <1>2, <1>4, <1>6, <1>12, <1>15, QueuedAgain DEF HandleSource
<1> HIDE DEF src
<1>17. src.queued \in Nat
  BY <1>16 DEF AlRecord
<1>18. ASSUME ~finish, again \in AlRecord,
              InOrder(asked, s.p, s.q, again, h) \/ Lost(s.q, again)
       PROVE  PlayerInv'
  <2>1. player' = s.p /\ queue' = s.q /\ al' = again /\ ended' = FALSE /\ UNCHANGED <<heard, asked>>
    BY <1>1, <1>5, <1>18
  <2> HIDE DEF again, finish
  <2>2. PlayerTypeOK'
    BY <1>2, <1>12, <1>18, <2>1 DEF PlayerTypeOK
  <2>3. HeardFits'
    BY <1>5, <2>1, HeardStays
  <2>4. RunsAsTold'
    BY <1>14, <2>1 DEF RunsAsTold
  <2>5. InOrder(asked', player', queue', al', Len(heard')) \/ Lost(queue', al')
    BY <1>18, <2>1 DEF h
  <2> QED BY <1>13, <2>1, <2>2, <2>3, <2>4, <2>5 DEF PlayerInv
<1>19. CASE al.state # "STOPPED"
  <2>1. again = src
    BY <1>19 DEF HandleAgain
  <2>2. al.state \in {"PLAYING", "PAUSED"}
    <3>1. al.state # "INITIAL"
      BY <1>1, <1>2, <1>3 DEF SourceIn
    <3> QED BY <1>2, <1>19, <3>1 DEF AlRecord, SourceStates
  <2>3. 0 < src.queued
    <3>1. used < al.queued
      BY <1>3, <1>4, <2>2 DEF SourceIn
    <3> QED BY <1>2, <1>6, <1>16, <1>17, <3>1
  <2>4. SourceIn(src, s.q.buffers, s.q.running)
    <3>1. al.state = "PLAYING" => s.q.running # "Stopped"
      BY <1>3, <1>14 DEF SourceIn
    <3> QED BY <1>16, <1>17, <1>19, <2>2, <2>3, <3>1 DEF SourceIn
  <2>5. InOrder(asked, s.p, s.q, src, h)
    BY <1>13, <1>16, <2>4 DEF InOrder
  <2>6. ~finish
    BY <1>16, <1>19, <2>1
  <2> HIDE DEF again, finish
  <2> QED BY <1>16, <1>18, <2>1, <2>5, <2>6
<1>20. CASE al.state = "STOPPED" /\ queue.running = "Stopped"
  <2>1. again = src
    BY <1>20 DEF HandleAgain
  <2>2. s.q.running = "Stopped"
    BY <1>13, <1>20
  <2>3. Lost(s.q, src)
    BY <1>16, <1>20, <2>2 DEF Lost
  <2>4. ~finish
    BY <1>20
  <2> HIDE DEF again, finish
  <2> QED BY <1>16, <1>18, <2>1, <2>3, <2>4
<1>21. CASE al.state = "STOPPED" /\ queue.running # "Stopped"
  <2>1. again = SourcePlays(src)
    BY <1>21 DEF HandleAgain
  <2>2. s.q.running # "Stopped"
    BY <1>14, <1>21
  <2>3. /\ again \in AlRecord /\ again.played = 0 /\ SourceIn(again, s.q.buffers, s.q.running)
    <3>1. /\ src.state # "PAUSED" /\ src.played <= src.queued
          /\ (src.state = "PAUSED" => src.played < src.queued)
          /\ (src.state # "PAUSED" => src.played = 0)
      BY <1>16, <1>17, <1>21
    <3>2. /\ SourcePlays(src) \in AlRecord /\ SourcePlays(src).played = src.played
          /\ SourceIn(SourcePlays(src), s.q.buffers, s.q.running)
      BY <1>12, <1>16, <2>2, <3>1, StartedIsIn
    <3> QED BY <1>16, <2>1, <3>2
  <2>4. InOrder(asked, s.p, s.q, again, h)
    BY <1>13, <2>3 DEF InOrder
  <2>5. CASE ~finish
    <3> HIDE DEF again, finish
    <3> QED BY <1>18, <2>3, <2>4, <2>5
  <2>6. CASE finish
    <3>1. queue.running = "Stopping" /\ again.state = "STOPPED"
      BY <2>6
    <3>2. src.queued = 0 /\ again.queued = 0
      BY <1>16, <1>17, <2>1, <3>1, SourcePlaysIs
    <3> HIDE DEF again
    <3>3. Len(s.q.buffers) = 0 /\ s.q.buffers = <<>>
      BY <1>12, <1>16, <1>21, <3>2, EmptySeq
    <3>4. ~player.playing /\ s = b
      BY <1>13, <3>1 DEF PlayerInv, RunsAsTold
    <3>5. s.p = player /\ AtEnd(player) /\ player.playing = FALSE
      BY <1>2, <1>8, <3>1, <3>4 DEF PlayerInv, RunsAsTold, PlayerRecord
    <3>6. /\ player' = player /\ queue' = [s.q EXCEPT !.running = "Stopped", !.buffers = <<>>]
          /\ al' = again /\ ended' = TRUE /\ UNCHANGED <<heard, asked>>
      BY <1>1, <2>6, <3>5
    <3>7. /\ queue' \in QueueRecord /\ queue'.running = "Stopped" /\ queue'.buffers = <<>> /\ queue'.exists = TRUE
      <4>1. <<>> \in Seq(Seq(Nat))
        OBVIOUS
      <4> QED BY <1>12, <1>13, <3>6, <4>1 DEF QueueRecord, RunStates
    <3>8. Silent(queue', al')
      BY <3>1, <3>2, <3>6, <3>7 DEF Silent
    <3>9. PlayerTypeOK'
      BY <1>2, <2>3, <3>6, <3>7 DEF PlayerTypeOK
    <3>10. RunsAsTold'
      BY <3>5, <3>6, <3>7 DEF RunsAsTold
    <3>11. asked.loops >= 0 /\ h = AllOf(asked)
      <4>1. PICK d \in Nat : \E ends \in [0 .. Len(s.q.buffers) -> Int] :
              /\ Started(asked, s.p, d) /\ Continues(asked, s.q.buffers, ends, PutAfter(asked, s.p, d)) /\ ends[0] = h
        BY <1>13 DEF Stream
      <4>2. PICK ends \in [0 .. Len(s.q.buffers) -> Int] :
              /\ Started(asked, s.p, d) /\ Continues(asked, s.q.buffers, ends, PutAfter(asked, s.p, d)) /\ ends[0] = h
        BY <4>1
      <4>3. h = PutAfter(asked, s.p, d)
        BY <3>3, <4>2 DEF Continues
      <4>4. asked.loops >= 0 /\ PutAfter(asked, s.p, d) = AllOf(asked)
        BY <1>2, <3>5, <4>2, PutBounded
      <4> QED BY <4>3, <4>4
    <3>12. HeardFits'
      <4>1. \A n \in 1 .. Len(heard) : heard[n] = ExpectedOf(asked, n)
        BY DEF PlayerInv, HeardFits
      <4>2. h <= AllOf(asked)
        BY <1>2, <3>11 DEF h
      <4> QED BY <3>6, <3>11, <4>1, <4>2 DEF HeardFits, h
    <3> QED BY <3>6, <3>7, <3>8, <3>9, <3>10, <3>12 DEF PlayerInv
  <2> QED BY <2>5, <2>6
<1> QED BY <1>19, <1>20, <1>21

\* A queue whose buffers are lost.
LEMMA HandleLost ==
  ASSUME PlayerInv, Handle, Lost(queue, al)
  PROVE  PlayerInv'
<1> DEFINE n == Len(queue.buffers)
           left == HandleLeft(n)
           b == [p |-> player, q |-> left]
           s == Refilled(b, n)
           src == HandleSource(n, s.q.buffers)
           a == [first |-> player.current, loops |-> player.loops]
<1>1. al.state = "STOPPED" /\ al.queued = n /\ queue.running = "Stopped"
  BY DEF Lost
<1>2. /\ player \in PlayerRecord /\ queue \in QueueRecord /\ al \in AlRecord
      /\ heard \in Seq(Nat) /\ asked \in AskedRecord /\ ended \in BOOLEAN
      /\ n \in Nat /\ queue.buffers \in Seq(Seq(Nat))
  BY PlayerTyped
<1>3. HandleUsed = n /\ HandleAgain(src) = src
  BY <1>1 DEF HandleUsed, HandleAgain
<1>4. /\ queue.exists /\ al.queued > 0 /\ player' = s.p /\ queue' = s.q
      /\ al' = src /\ ended' = (ended \/ FALSE) /\ UNCHANGED <<heard, asked>>
  BY <1>1, <1>3, HandleIs
<1>5. ended = FALSE
  <2>1. ~ended
    BY <1>1, <1>4, <1>2 DEF PlayerInv, Silent
  <2> QED BY <1>2, <2>1
<1>6. /\ left \in QueueRecord /\ left.buffers = <<>> /\ left.running = "Stopped" /\ left.exists = TRUE
  <2>1. SubSeq(queue.buffers, n + 1, n) = <<>>
    <3>1. n + 1 \in Int /\ n \in Int /\ n < n + 1
      BY <1>2
    <3> QED BY <3>1, SubSeqEmpty
  <2>2. left = [queue EXCEPT !.buffers = <<>>]
    BY <2>1 DEF HandleLeft
  <2>3. <<>> \in Seq(Seq(Nat))
    OBVIOUS
  <2> HIDE DEF left
  <2> QED BY <1>1, <1>2, <1>4, <2>2, <2>3 DEF QueueRecord
<1> HIDE DEF left
<1>7. b \in FillState /\ b.p = player /\ b.q = left
  BY <1>2, <1>6 DEF FillState
<1>8. a \in AskedRecord /\ Stream(a, player, <<>>, 0, 0)
  BY <1>2, EmptyStream
<1> HIDE DEF a, b
<1>9. s \in Refills(a, b, 0, 0)
  <2>1. Len(<<>>) = 0
    OBVIOUS
  <2>2. 0 \in 0 .. Len(b.q.buffers) /\ Stream(a, b.p, b.q.buffers, 0, 0)
    BY <1>6, <1>7, <1>8, <2>1
  <2> QED BY <1>2, <1>7, <1>8, <2>2, RefilledKeeps
<1> HIDE DEF s
<1>10. s = b
  <2>1. ~player.playing
    BY <1>1 DEF PlayerInv, RunsAsTold
  <2> QED BY <1>7, <1>9, <2>1 DEF Refills, RefillsTo
<1>11. s.p = player /\ s.q = left /\ Len(s.q.buffers) = 0
  <2>1. Len(<<>>) = 0
    OBVIOUS
  <2> QED BY <1>6, <1>7, <1>10, <2>1
<1>12. src \in AlRecord /\ src.state = "STOPPED" /\ src.queued = 0
  <2>1. n <= al.queued /\ al.queued - n <= Len(s.q.buffers) /\ Len(s.q.buffers) \in Nat
    BY <1>1, <1>2, <1>11
  <2> QED BY <1>1, <1>2, <1>11, <2>1, QueuedAgain DEF HandleSource
<1> HIDE DEF src
<1>13. Silent(queue', al')
  BY <1>4, <1>6, <1>11, <1>12 DEF Silent
<1>14. PlayerTypeOK'
  BY <1>2, <1>4, <1>5, <1>6, <1>11, <1>12 DEF PlayerTypeOK
<1>15. HeardFits'
  BY <1>4, <1>5, HeardStays
<1>16. RunsAsTold'
  <2>1. player.playing = FALSE
    BY <1>1 DEF PlayerInv, RunsAsTold
  <2> QED BY <1>4, <1>6, <1>11, <2>1 DEF RunsAsTold
<1> QED BY <1>4, <1>5, <1>6, <1>11, <1>13, <1>14, <1>15, <1>16 DEF PlayerInv

\* Such a visit, after which the order of what is to be heard is the same.
LEMMA HandleKeeps ==
  ASSUME PlayerInv, Handle
  PROVE  PlayerInv'
<1>1. queue.exists /\ al.queued > 0
  BY HandleIs
<1>2. InOrder(asked, player, queue, al, Len(heard)) \/ Lost(queue, al)
  BY <1>1 DEF PlayerInv, Silent
<1> QED BY <1>2, HandleInOrder, HandleLost

\* A new player has nothing to be heard.
LEMMA PlayerStarts == PlayerInit => PlayerInv
<1> SUFFICES ASSUME PlayerInit PROVE PlayerInv
  OBVIOUS
<1>1. /\ player = [current |-> 0, seek |-> 0, playing |-> FALSE, volume |-> 1, loops |-> 0, file |-> TRUE]
      /\ queue = NoQueue /\ al = NewSource
      /\ heard = <<>> /\ asked = [first |-> 0, loops |-> 0] /\ ended = FALSE
  BY DEF PlayerInit
<1>2. player \in PlayerRecord /\ asked \in AskedRecord
  BY <1>1, PlayerAssumption DEF PlayerRecord, AskedRecord
<1>3. queue \in QueueRecord /\ al \in AlRecord
  <2>1. <<>> \in Seq(Seq(Nat))
    OBVIOUS
  <2>2. queue \in QueueRecord
    BY <1>1, <2>1 DEF NoQueue, QueueRecord, RunStates
  <2> QED BY <1>1, <2>2 DEF NewSource, AlRecord, SourceStates
<1>4. heard \in Seq(Nat) /\ Len(heard) = 0
  <2>1. <<>> \in Seq(Nat) /\ Len(<<>>) = 0
    OBVIOUS
  <2> QED BY <1>1, <2>1
<1>5. HeardFits
  <2>1. AllOf(asked) = Packets
    <3>1. asked.first = 0 /\ asked.loops = 0 /\ 0 * Packets = 0
      BY <1>1, PlayerAssumption
    <3> QED BY <3>1, PlayerAssumption DEF AllOf
  <2> QED BY <1>1, <1>4, <2>1, PlayerAssumption DEF HeardFits
<1>6. RunsAsTold /\ ~queue.exists
  BY <1>1 DEF RunsAsTold, NoQueue
<1> QED BY <1>1, <1>2, <1>3, <1>4, <1>5, <1>6 DEF PlayerInv, PlayerTypeOK

\* Every step of a player.
LEMMA PlayerStepKeeps == PlayerCare /\ PlayerInv /\ [PlayerNext]_playerVars => PlayerInv'
<1> SUFFICES ASSUME PlayerCare, PlayerInv, [PlayerNext]_playerVars PROVE PlayerInv'
  OBVIOUS
<1>1. CASE SetNumberOfLoops
  BY <1>1, SetNumberOfLoopsKeeps
<1>2. CASE SetVolume
  BY <1>2, SetVolumeKeeps
<1>3. CASE SetCurrentTime
  BY <1>3, SetCurrentTimeKeeps
<1>4. CASE PrepareToPlay
  BY <1>4, PrepareToPlayKeeps
<1>5. CASE Play
  BY <1>5, PlayKeeps
<1>6. CASE Pause
  BY <1>6, PauseKeeps
<1>7. CASE Stop \/ Dealloc
  BY <1>7, StopKeeps
<1>8. CASE DevicePlays
  BY <1>8, DevicePlaysKeeps
<1>9. CASE Handle
  BY <1>9, HandleKeeps
<1>10. CASE UNCHANGED playerVars
  BY <1>10 DEF playerVars, PlayerInv, PlayerTypeOK, HeardFits, RunsAsTold
<1> QED BY <1>1, <1>2, <1>3, <1>4, <1>5, <1>6, <1>7, <1>8, <1>9, <1>10 DEF PlayerNext

\* For any file, buffers and numbers of loops: the packets of the file are heard
\* in their order, each once in a loop, from the place the guest set; no more of
\* them than it asked for, and all of them when the sound has come to its end by
\* itself (numberOfLoops, play, pause and the helper of av_audio_player.rs).
THEOREM PlayedAsAsked ==
  ASSUME PlayerCare
  PROVE  PlayerSpec => []HeardAsLooped
<1>1. PlayerInit => PlayerInv
  BY PlayerStarts
<1>2. PlayerInv /\ [PlayerNext]_playerVars => PlayerInv'
  BY PlayerStepKeeps
<1>3. PlayerInv => HeardAsLooped
  BY PlayerInvHears
<1> QED BY <1>1, <1>2, <1>3, PTL DEF PlayerSpec
==============================================================================
