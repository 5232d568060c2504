--------------------------- MODULE RunLoopProofs ---------------------------
(***************************************************************************)
(* What TLAPS proves of the run loop, for every number of timers and every *)
(* depth of nested loops and callbacks: timers are counted exactly, held   *)
(* while they are valid, never called while they are being called, and on  *)
(* schedule.  And of the layers that the loop draws: each animation ends   *)
(* once and its delegate is told so, and each change reaches the screen.   *)
(* And of the events it hands to the app: the touches in progress are what *)
(* the user holds down.                                                    *)
(***************************************************************************)
EXTENDS RunLoop, Composition, Touches, SequenceLemmas

----------------------------------------------------------------------------
(* The invariant *)

Count(p) == IF p THEN 1 ELSE 0

Object == [refs : Nat, due_by : Nat \cup {None}, start : Nat,
           is_running_callback : BOOLEAN, run_loop : BOOLEAN,
           pool : Nat \cup {None}, held : BOOLEAN]

Frame == [kind : {"loop", "fire"}, at : {"top", "timers", "callback", "sleep"},
          todo : SUBSET Timers, cur : Timers \cup {None}]

\* The object o of timer t, which the run loop holds or not, of which c copies
\* are to be handled and which h loops are calling, is what it should be at
\* this time but for k references that nobody answers for.
Fits(t, o, valid, c, h, k, time) ==
    /\ o \in Object
    /\ o.refs = k + c + 2 * h + Count(valid) + Count(o.held) + Count(o.pool # None)
    /\ valid <=> o.run_loop /\ o.due_by # None
    /\ h <= 1 /\ (o.is_running_callback <=> h = 1)
    /\ o.refs = 0 => o = Freed
    /\ o.refs > 0 /\ ~o.run_loop => o.due_by # None
    /\ c > 0 \/ h > 0 => o.run_loop
    /\ o.due_by # None => /\ (o.due_by - o.start) % Interval[t] = 0
                          /\ o.due_by <= time + Interval[t]

\* What the calls in progress are like
FrameFits(f) ==
    /\ f \in Frame
    /\ f.kind = "fire" => f.at = "callback" /\ f.todo = {} /\ f.cur \in Timers
    /\ f.kind = "loop" => (f.at = "callback" <=> f.cur \in Timers)
    /\ f.at \in {"top", "sleep"} => f.todo = {}

TimersInv ==
    /\ now \in Nat /\ timers \subseteq Timers /\ panic = FALSE
    /\ stack \in Seq(Frame)
    /\ objects \in [Timers -> Object]
    /\ \A i \in DOMAIN stack : FrameFits(stack[i])
    /\ \A t \in Timers :
          Fits(t, objects[t], t \in timers, Copies(t), Handling(t), 0, now)
    /\ \A i \in DOMAIN stack : stack[i].kind = "fire" =>
          objects[stack[i].cur].held = TRUE /\ objects[stack[i].cur].run_loop = TRUE

----------------------------------------------------------------------------
(* One timer *)

\* A timer's object by its fields
LEMMA ObjectFields ==
  ASSUME NEW o \in Object
  PROVE  /\ o = [refs |-> o.refs, due_by |-> o.due_by, start |-> o.start,
                 is_running_callback |-> o.is_running_callback,
                 run_loop |-> o.run_loop, pool |-> o.pool, held |-> o.held]
         /\ o.refs \in Nat /\ o.due_by \in Nat \cup {None} /\ o.start \in Nat
         /\ o.is_running_callback \in BOOLEAN /\ o.run_loop \in BOOLEAN
         /\ o.pool \in Nat \cup {None} /\ o.held \in BOOLEAN
BY DEF Object

\* A count of nothing is nothing.
LEMMA Counts == \A p \in BOOLEAN : Count(p) \in Nat /\ (Count(p) = 0 <=> ~p) /\ Count(p) <= 1
BY DEF Count

\* A release gives up one of the references nobody answers for: the last one
\* is never released while somebody owns the timer.
LEMMA ReleaseFits ==
  ASSUME NEW t, NEW o, NEW valid \in BOOLEAN, NEW c \in Nat, NEW h \in Nat, NEW k \in Nat,
         NEW time, Fits(t, o, valid, c, h, k + 1, time)
  PROVE  /\ Fits(t, Released(o), valid, c, h, k, time)
         /\ o.held = TRUE => Released(o).held = TRUE /\ Released(o).run_loop = o.run_loop
<1>1. /\ o \in Object /\ o.refs \in Nat
      /\ o.refs = (k + 1) + c + 2 * h + Count(valid) + Count(o.held) + Count(o.pool # None)
      /\ o.held \in BOOLEAN
  BY ObjectFields DEF Fits
<1>2. /\ Count(valid) \in Nat /\ Count(o.held) \in Nat /\ Count(o.pool # None) \in Nat
      /\ Count(valid) = 0 => ~valid
      /\ Count(o.held) = 0 => o.held # TRUE
      /\ Count(o.pool # None) = 0 => o.pool = None
  BY <1>1, Counts
<1>3. CASE o.refs = 1
  <2>1. /\ k = 0 /\ c = 0 /\ h = 0 /\ Count(valid) = 0 /\ Count(o.held) = 0
        /\ Count(o.pool # None) = 0
    BY <1>1, <1>2, <1>3
  <2>2. Released(o) = Freed /\ ~valid /\ o.held # TRUE
    BY <1>2, <1>3, <2>1 DEF Released
  <2>3. /\ Freed \in Object /\ Freed.refs = 0 /\ Freed.run_loop = FALSE /\ Freed.due_by = None
        /\ Freed.held = FALSE /\ Freed.pool = None /\ Freed.is_running_callback = FALSE
    BY DEF Freed, Object
  <2>4. Count(Freed.held) = 0 /\ Count(Freed.pool # None) = 0
    BY <2>3 DEF Count
  <2>5. Fits(t, Freed, valid, c, h, k, time)
    BY <2>1, <2>2, <2>3, <2>4 DEF Fits
  <2> QED BY <2>2, <2>5
<1>4. CASE o.refs # 1
  <2> DEFINE r == [o EXCEPT !.refs = @ - 1]
  <2>1. o.refs > 1
    BY <1>1, <1>2, <1>4
  <2>2. /\ r \in Object /\ r.refs = o.refs - 1 /\ r.due_by = o.due_by /\ r.start = o.start
        /\ r.is_running_callback = o.is_running_callback /\ r.run_loop = o.run_loop
        /\ r.pool = o.pool /\ r.held = o.held
    BY <1>1, <2>1, ObjectFields DEF Object
  <2>3. Released(o) = r
    BY <1>4 DEF Released
  <2> HIDE DEF r
  <2>4. r.refs = k + c + 2 * h + Count(valid) + Count(r.held) + Count(r.pool # None)
        /\ r.refs > 0
    <3>1. Count(r.held) = Count(o.held) /\ Count(r.pool # None) = Count(o.pool # None)
      BY <2>2
    <3> QED BY <1>1, <1>2, <2>1, <2>2, <3>1
  <2>5. Fits(t, r, valid, c, h, k, time)
    BY <1>1, <2>1, <2>2, <2>4 DEF Fits
  <2> QED BY <2>2, <2>3, <2>5
<1> QED BY <1>3, <1>4

\* A retain of a timer that is alive adds one.
LEMMA RetainFits ==
  ASSUME NEW t, NEW o, NEW valid \in BOOLEAN, NEW c \in Nat, NEW h \in Nat, NEW k \in Nat,
         NEW time, Fits(t, o, valid, c, h, k, time), o.refs > 0
  PROVE  /\ Fits(t, Retained(o), valid, c, h, k + 1, time)
         /\ Retained(o).refs > 0
         /\ Retained(o).held = o.held /\ Retained(o).run_loop = o.run_loop
         /\ Retained(o).pool = o.pool /\ Retained(o).due_by = o.due_by
         /\ Retained(o).start = o.start
         /\ Retained(o).is_running_callback = o.is_running_callback
<1> DEFINE r == Retained(o)
<1>1. /\ o \in Object /\ o.refs \in Nat
      /\ o.refs = k + c + 2 * h + Count(valid) + Count(o.held) + Count(o.pool # None)
      /\ Count(valid) \in Nat /\ Count(o.held) \in Nat /\ Count(o.pool # None) \in Nat
  BY ObjectFields, Counts DEF Fits
<1>2. /\ r \in Object /\ r.refs = o.refs + 1 /\ r.due_by = o.due_by /\ r.start = o.start
      /\ r.is_running_callback = o.is_running_callback /\ r.run_loop = o.run_loop
      /\ r.pool = o.pool /\ r.held = o.held
  BY <1>1, ObjectFields DEF Object, Retained
<1> HIDE DEF r
<1>3. r.refs = (k + 1) + c + 2 * h + Count(valid) + Count(r.held) + Count(r.pool # None)
      /\ r.refs > 0
  <2>1. Count(r.held) = Count(o.held) /\ Count(r.pool # None) = Count(o.pool # None)
    BY <1>2
  <2> QED BY <1>1, <1>2, <2>1
<1>4. Fits(t, r, valid, c, h, k + 1, time)
  BY <1>1, <1>2, <1>3 DEF Fits
<1> QED BY <1>2, <1>3, <1>4 DEF r

\* Owners who give up their reference leave it to be released.
LEMMA OwnerLeaves ==
  ASSUME NEW t, NEW o, NEW valid \in BOOLEAN, NEW c \in Nat, NEW h \in Nat, NEW k \in Nat,
         NEW time, Fits(t, o, valid, c, h, k, time)
  PROVE  /\ o.pool # None => Fits(t, [o EXCEPT !.pool = None], valid, c, h, k + 1, time)
         /\ o.held = TRUE => Fits(t, [o EXCEPT !.held = FALSE], valid, c, h, k + 1, time)
         /\ valid => Fits(t, [o EXCEPT !.due_by = None], FALSE, c, h, k + 1, time)
         /\ c > 0 => Fits(t, o, valid, c - 1, h, k + 1, time)
         /\ h > 0 => Fits(t, [o EXCEPT !.is_running_callback = FALSE], valid, c, 0, k + 2, time)
<1>1. /\ o \in Object /\ o.refs \in Nat
      /\ o.refs = k + c + 2 * h + Count(valid) + Count(o.held) + Count(o.pool # None)
      /\ Count(valid) \in Nat /\ Count(o.held) \in Nat /\ Count(o.pool # None) \in Nat
      /\ o.held \in BOOLEAN
  BY ObjectFields, Counts DEF Fits
<1>2. Count(TRUE) = 1 /\ Count(FALSE) = 0 /\ Count(None # None) = 0
  BY DEF Count
<1>3. ASSUME o.pool # None
      PROVE  Fits(t, [o EXCEPT !.pool = None], valid, c, h, k + 1, time)
  <2> DEFINE r == [o EXCEPT !.pool = None]
  <2>1. /\ r \in Object /\ r.refs = o.refs /\ r.due_by = o.due_by /\ r.start = o.start
        /\ r.is_running_callback = o.is_running_callback /\ r.run_loop = o.run_loop
        /\ r.pool = None /\ r.held = o.held
    BY <1>1, ObjectFields DEF Object
  <2> HIDE DEF r
  <2>2. Count(o.pool # None) = 1 /\ Count(r.pool # None) = 0 /\ Count(r.held) = Count(o.held)
    BY <1>2, <1>3, <2>1 DEF Count
  <2>3. r.refs = (k + 1) + c + 2 * h + Count(valid) + Count(r.held) + Count(r.pool # None)
        /\ r.refs > 0
    BY <1>1, <2>1, <2>2
  <2>4. Fits(t, r, valid, c, h, k + 1, time)
    BY <1>1, <2>1, <2>3 DEF Fits
  <2> QED BY <2>4 DEF r
<1>4. ASSUME o.held = TRUE
      PROVE  Fits(t, [o EXCEPT !.held = FALSE], valid, c, h, k + 1, time)
  <2> DEFINE r == [o EXCEPT !.held = FALSE]
  <2>1. /\ r \in Object /\ r.refs = o.refs /\ r.due_by = o.due_by /\ r.start = o.start
        /\ r.is_running_callback = o.is_running_callback /\ r.run_loop = o.run_loop
        /\ r.pool = o.pool /\ r.held = FALSE
    BY <1>1, ObjectFields DEF Object
  <2> HIDE DEF r
  <2>2. Count(o.held) = 1 /\ Count(r.held) = 0 /\ Count(r.pool # None) = Count(o.pool # None)
    BY <1>2, <1>4, <2>1
  <2>3. r.refs = (k + 1) + c + 2 * h + Count(valid) + Count(r.held) + Count(r.pool # None)
        /\ r.refs > 0
    BY <1>1, <2>1, <2>2
  <2>4. Fits(t, r, valid, c, h, k + 1, time)
    BY <1>1, <2>1, <2>3 DEF Fits
  <2> QED BY <2>4 DEF r
<1>5. ASSUME valid
      PROVE  Fits(t, [o EXCEPT !.due_by = None], FALSE, c, h, k + 1, time)
  <2> DEFINE r == [o EXCEPT !.due_by = None]
  <2>1. /\ r \in Object /\ r.refs = o.refs /\ r.due_by = None /\ r.start = o.start
        /\ r.is_running_callback = o.is_running_callback /\ r.run_loop = o.run_loop
        /\ r.pool = o.pool /\ r.held = o.held
    BY <1>1, ObjectFields DEF Object
  <2> HIDE DEF r
  <2>2. /\ Count(valid) = 1 /\ Count(r.held) = Count(o.held)
        /\ Count(r.pool # None) = Count(o.pool # None)
    BY <1>5, <2>1 DEF Count
  <2>3. o.run_loop = TRUE /\ r.run_loop = TRUE
    BY <1>1, <1>5, <2>1, ObjectFields DEF Fits
  <2>4. ASSUME NEW v \in BOOLEAN, ~v
        PROVE  Fits(t, r, v, c, h, k + 1, time)
    <3>1. Count(v) = 0
      BY <2>4 DEF Count
    <3>2. r.refs = (k + 1) + c + 2 * h + Count(v) + Count(r.held) + Count(r.pool # None)
          /\ r.refs > 0
      BY <1>1, <2>1, <2>2, <3>1
    <3> QED BY <1>1, <2>1, <2>3, <2>4, <3>2 DEF Fits
  <2> QED BY <2>4 DEF r
<1>6. ASSUME c > 0
      PROVE  Fits(t, o, valid, c - 1, h, k + 1, time)
  <2>1. o.refs = (k + 1) + (c - 1) + 2 * h + Count(valid) + Count(o.held) + Count(o.pool # None)
    BY <1>1, <1>6
  <2> QED BY <1>6, <2>1 DEF Fits
<1>7. ASSUME h > 0
      PROVE  Fits(t, [o EXCEPT !.is_running_callback = FALSE], valid, c, 0, k + 2, time)
  <2> DEFINE r == [o EXCEPT !.is_running_callback = FALSE]
  <2>1. /\ r \in Object /\ r.refs = o.refs /\ r.due_by = o.due_by /\ r.start = o.start
        /\ r.is_running_callback = FALSE /\ r.run_loop = o.run_loop
        /\ r.pool = o.pool /\ r.held = o.held
    BY <1>1, ObjectFields DEF Object
  <2> HIDE DEF r
  <2>2. h = 1
    BY <1>7 DEF Fits
  <2>3. Count(r.held) = Count(o.held) /\ Count(r.pool # None) = Count(o.pool # None)
    BY <2>1
  <2>4. r.refs = (k + 2) + c + 2 * 0 + Count(valid) + Count(r.held) + Count(r.pool # None)
        /\ r.refs > 0
    BY <1>1, <2>1, <2>2, <2>3
  <2>5. Fits(t, r, valid, c, 0, k + 2, time)
    BY <1>1, <1>7, <2>1, <2>4 DEF Fits
  <2> QED BY <2>5 DEF r
<1> QED BY <1>3, <1>4, <1>5, <1>6, <1>7

----------------------------------------------------------------------------
(* The calls in progress *)

\* Two sets of positions that differ at the top only
LEMMA TopCounts ==
  ASSUME NEW n \in Nat \ {0}, NEW A \in SUBSET (1 .. n), NEW C \in SUBSET (1 .. n),
         \A i \in 1 .. n - 1 : i \in A <=> i \in C
  PROVE  /\ Cardinality(A) \in Nat /\ Cardinality(C) \in Nat
         /\ Cardinality(C) + Count(n \in A) = Cardinality(A) + Count(n \in C)
<1>1. IsFiniteSet(A) /\ IsFiniteSet(C)
  <2>1. IsFiniteSet(1 .. n)
    BY FS_Interval
  <2> QED BY <2>1, FS_Subset
<1>2. A \ {n} = C \ {n}
  <2>1. \A i \in 1 .. n : i # n => i \in 1 .. n - 1
    OBVIOUS
  <2> QED BY <2>1
<1>3. ASSUME NEW X \in SUBSET (1 .. n), IsFiniteSet(X)
      PROVE  /\ Cardinality(X) \in Nat /\ Cardinality(X \ {n}) \in Nat
             /\ Cardinality(X) = Cardinality(X \ {n}) + Count(n \in X)
  <2>1. Cardinality(X) \in Nat /\ Cardinality(X \ {n}) \in Nat
    BY <1>3, FS_CardinalityType, FS_RemoveElement
  <2>2. CASE n \in X
    <3>1. Cardinality(X \ {n}) = Cardinality(X) - 1
      BY <1>3, <2>2, FS_RemoveElement
    <3> QED BY <2>1, <2>2, <3>1 DEF Count
  <2>3. CASE n \notin X
    <3>1. X \ {n} = X
      BY <2>3
    <3>2. Cardinality(X \ {n}) = Cardinality(X)
      BY <3>1, Zenon
    <3>3. Cardinality(X) = Cardinality(X \ {n}) + 0
      BY <2>1, <3>2
    <3>4. Count(n \in X) = 0
      BY <2>3, Zenon DEF Count
    <3> QED BY <2>1, <3>3, <3>4, Zenon
  <2> QED BY <2>1, <2>2, <2>3
<1>4. /\ Cardinality(A) \in Nat /\ Cardinality(A \ {n}) \in Nat
      /\ Cardinality(A) = Cardinality(A \ {n}) + Count(n \in A)
  BY <1>1, <1>3
<1>5. /\ Cardinality(C) \in Nat
      /\ Cardinality(C) = Cardinality(A \ {n}) + Count(n \in C)
  BY <1>1, <1>2, <1>3
<1>6. Count(n \in A) \in Nat /\ Count(n \in C) \in Nat
  BY DEF Count
<1> QED BY <1>4, <1>5, <1>6

Calls(f, t) == f.kind = "loop" /\ f.cur = t

ListedIn(s, t) == Cardinality({i \in DOMAIN s : t \in s[i].todo})
CallsIn(s, t) == Cardinality({i \in DOMAIN s : Calls(s[i], t)})

\* A call that begins, one that goes on, and one that ends
LEMMA StackCounts ==
  ASSUME NEW s \in Seq(Frame), NEW t
  PROVE  /\ ListedIn(s, t) \in Nat /\ CallsIn(s, t) \in Nat
         /\ \A f \in Frame :
               /\ ListedIn(Append(s, f), t) = ListedIn(s, t) + Count(t \in f.todo)
               /\ CallsIn(Append(s, f), t) = CallsIn(s, t) + Count(Calls(f, t))
         /\ s # <<>> => \A f \in Frame :
               /\ ListedIn([s EXCEPT ![Len(s)] = f], t) + Count(t \in s[Len(s)].todo)
                     = ListedIn(s, t) + Count(t \in f.todo)
               /\ CallsIn([s EXCEPT ![Len(s)] = f], t) + Count(Calls(s[Len(s)], t))
                     = CallsIn(s, t) + Count(Calls(f, t))
         /\ s # <<>> =>
               /\ ListedIn(Front(s), t) + Count(t \in s[Len(s)].todo) = ListedIn(s, t)
               /\ CallsIn(Front(s), t) + Count(Calls(s[Len(s)], t)) = CallsIn(s, t)
<1> DEFINE A(q) == {i \in DOMAIN q : t \in q[i].todo}
           C(q) == {i \in DOMAIN q : Calls(q[i], t)}
<1>1. /\ ListedIn(s, t) = Cardinality(A(s)) /\ CallsIn(s, t) = Cardinality(C(s))
      /\ \A q : ListedIn(q, t) = Cardinality(A(q)) /\ CallsIn(q, t) = Cardinality(C(q))
  BY DEF ListedIn, CallsIn
<1>2. Len(s) \in Nat /\ DOMAIN s = 1 .. Len(s)
  BY LenProperties
<1>3. Count(FALSE) = 0 /\ \A p \in BOOLEAN : ~p => Count(p) = 0
  BY DEF Count
<1>4. ListedIn(s, t) \in Nat /\ CallsIn(s, t) \in Nat
  <2>1. IsFiniteSet(1 .. Len(s))
    BY <1>2, FS_Interval
  <2>2. A(s) \subseteq 1 .. Len(s) /\ C(s) \subseteq 1 .. Len(s)
    BY <1>2
  <2> QED BY <1>1, <2>1, <2>2, FS_Subset, FS_CardinalityType
<1>5. ASSUME NEW f \in Frame
      PROVE  /\ ListedIn(Append(s, f), t) = ListedIn(s, t) + Count(t \in f.todo)
             /\ CallsIn(Append(s, f), t) = CallsIn(s, t) + Count(Calls(f, t))
  <2> DEFINE q == Append(s, f)
             n == Len(s) + 1
  <2>1. /\ DOMAIN q = 1 .. n /\ q[n] = f /\ n \in Nat \ {0} /\ n - 1 = Len(s)
        /\ \A i \in 1 .. n - 1 : q[i] = s[i]
    BY <1>2, Pushed
  <2> HIDE DEF q, n
  <2>2. /\ A(s) \in SUBSET (1 .. n) /\ A(q) \in SUBSET (1 .. n)
        /\ C(s) \in SUBSET (1 .. n) /\ C(q) \in SUBSET (1 .. n)
        /\ n \notin A(s) /\ n \notin C(s)
        /\ n \in A(q) <=> t \in f.todo
        /\ n \in C(q) <=> Calls(f, t)
        /\ \A i \in 1 .. n - 1 : (i \in A(s) <=> i \in A(q)) /\ (i \in C(s) <=> i \in C(q))
    BY <1>2, <2>1
  <2> HIDE DEF A, C
  <2>3. /\ Cardinality(A(q)) + Count(n \in A(s)) = Cardinality(A(s)) + Count(n \in A(q))
        /\ Cardinality(C(q)) + Count(n \in C(s)) = Cardinality(C(s)) + Count(n \in C(q))
        /\ Cardinality(A(q)) \in Nat /\ Cardinality(C(q)) \in Nat
    BY <2>1, <2>2, TopCounts
  <2>4. /\ Count(n \in A(s)) = 0 /\ Count(n \in C(s)) = 0
        /\ Count(n \in A(q)) = Count(t \in f.todo) /\ Count(n \in C(q)) = Count(Calls(f, t))
    BY <2>2 DEF Count
  <2> QED BY <1>1, <2>3, <2>4 DEF q
<1>6. ASSUME s # <<>>, NEW f \in Frame
      PROVE  /\ ListedIn([s EXCEPT ![Len(s)] = f], t) + Count(t \in s[Len(s)].todo)
                   = ListedIn(s, t) + Count(t \in f.todo)
             /\ CallsIn([s EXCEPT ![Len(s)] = f], t) + Count(Calls(s[Len(s)], t))
                   = CallsIn(s, t) + Count(Calls(f, t))
  <2> DEFINE q == [s EXCEPT ![Len(s)] = f]
             n == Len(s)
  <2>1. /\ DOMAIN q = 1 .. n /\ q[n] = f /\ n \in Nat \ {0} /\ DOMAIN s = 1 .. n
        /\ \A i \in 1 .. n - 1 : q[i] = s[i]
    <3>1. n \in Nat \ {0}
      BY <1>6, FrontLast
    <3>2. DOMAIN q = 1 .. n /\ q[n] = f /\ \A i \in 1 .. n - 1 : q[i] = s[i]
      BY <1>6, TopReplaced
    <3> QED BY <1>2, <3>1, <3>2
  <2> HIDE DEF q, n
  <2>2. /\ A(s) \in SUBSET (1 .. n) /\ A(q) \in SUBSET (1 .. n)
        /\ C(s) \in SUBSET (1 .. n) /\ C(q) \in SUBSET (1 .. n)
        /\ n \in A(s) <=> t \in s[n].todo
        /\ n \in C(s) <=> Calls(s[n], t)
        /\ n \in A(q) <=> t \in f.todo
        /\ n \in C(q) <=> Calls(f, t)
        /\ \A i \in 1 .. n - 1 : (i \in A(s) <=> i \in A(q)) /\ (i \in C(s) <=> i \in C(q))
    BY <2>1
  <2> HIDE DEF A, C
  <2>3. /\ Cardinality(A(q)) + Count(n \in A(s)) = Cardinality(A(s)) + Count(n \in A(q))
        /\ Cardinality(C(q)) + Count(n \in C(s)) = Cardinality(C(s)) + Count(n \in C(q))
    <3>1. Cardinality(A(q)) + Count(n \in A(s)) = Cardinality(A(s)) + Count(n \in A(q))
      BY <2>1, <2>2, TopCounts
    <3>2. Cardinality(C(q)) + Count(n \in C(s)) = Cardinality(C(s)) + Count(n \in C(q))
      BY <2>1, <2>2, TopCounts
    <3> QED BY <3>1, <3>2
  <2>4. /\ Count(n \in A(s)) = Count(t \in s[n].todo) /\ Count(n \in C(s)) = Count(Calls(s[n], t))
        /\ Count(n \in A(q)) = Count(t \in f.todo) /\ Count(n \in C(q)) = Count(Calls(f, t))
    BY <2>2 DEF Count
  <2> QED BY <1>1, <2>3, <2>4 DEF q, n
<1>7. ASSUME s # <<>>
      PROVE  /\ ListedIn(Front(s), t) + Count(t \in s[Len(s)].todo) = ListedIn(s, t)
             /\ CallsIn(Front(s), t) + Count(Calls(s[Len(s)], t)) = CallsIn(s, t)
  <2> DEFINE q == Front(s)
             n == Len(s)
  <2>1. /\ DOMAIN q = 1 .. n - 1 /\ n \in Nat \ {0} /\ DOMAIN s = 1 .. n
        /\ \A i \in 1 .. n - 1 : q[i] = s[i]
    BY <1>7, FrontLast
  <2> HIDE DEF q, n
  <2>2. /\ A(s) \in SUBSET (1 .. n) /\ A(q) \in SUBSET (1 .. n)
        /\ C(s) \in SUBSET (1 .. n) /\ C(q) \in SUBSET (1 .. n)
        /\ n \in A(s) <=> t \in s[n].todo
        /\ n \in C(s) <=> Calls(s[n], t)
        /\ n \notin A(q) /\ n \notin C(q)
        /\ \A i \in 1 .. n - 1 : (i \in A(s) <=> i \in A(q)) /\ (i \in C(s) <=> i \in C(q))
    BY <2>1
  <2> HIDE DEF A, C
  <2>3. /\ Cardinality(A(q)) + Count(n \in A(s)) = Cardinality(A(s)) + Count(n \in A(q))
        /\ Cardinality(C(q)) + Count(n \in C(s)) = Cardinality(C(s)) + Count(n \in C(q))
        /\ Cardinality(A(s)) \in Nat /\ Cardinality(C(s)) \in Nat
    BY <2>1, <2>2, TopCounts
  <2>4. /\ Count(n \in A(s)) = Count(t \in s[n].todo) /\ Count(n \in C(s)) = Count(Calls(s[n], t))
        /\ Count(n \in A(q)) = 0 /\ Count(n \in C(q)) = 0
    BY <2>2 DEF Count
  <2> QED BY <1>1, <2>3, <2>4 DEF q, n
<1> QED BY <1>4, <1>5, <1>6, <1>7

\* The same of the stack of the run loop
LEMMA CallCounts == \A t : Copies(t) = ListedIn(stack, t) /\ Handling(t) = CallsIn(stack, t)
BY DEF Copies, Handling, ListedIn, CallsIn, Calls

\* A step that leaves the stack alone, with new objects and timers that fit
LEMMA ObjectsStep ==
  ASSUME TimersInv, NEW objs \in [Timers -> Object], objects' = objs,
         timers' \subseteq Timers, stack' = stack, now' = now, panic' = FALSE,
         \A t \in Timers : /\ Fits(t, objs[t], t \in timers', Copies(t), Handling(t), 0, now)
                           /\ objects[t].held = TRUE /\ objects[t].run_loop = TRUE =>
                                 \/ objs[t].held = TRUE /\ objs[t].run_loop = TRUE
                                 \/ \A i \in DOMAIN stack :
                                       stack[i].kind = "fire" => stack[i].cur # t
  PROVE  TimersInv'
<1>1. \A t : Copies(t)' = Copies(t) /\ Handling(t)' = Handling(t)
  BY DEF Copies, Handling
<1>2. \A i \in DOMAIN stack : stack[i].kind = "fire" => stack[i].cur \in Timers
  BY DEF TimersInv, FrameFits
<1>3. \A t \in Timers : Fits(t, objects'[t], t \in timers', Copies(t)', Handling(t)', 0, now')
  BY <1>1
<1>4. \A i \in DOMAIN stack' : stack'[i].kind = "fire" =>
          objects'[stack'[i].cur].held = TRUE /\ objects'[stack'[i].cur].run_loop = TRUE
  BY <1>2 DEF TimersInv
<1> QED BY <1>3, <1>4 DEF TimersInv

----------------------------------------------------------------------------
(* What the operations do to one timer *)

\* A timer that a message in progress relies on stays held and in the loop.
Kept(o, r) == o.held = TRUE /\ o.run_loop = TRUE => r.held = TRUE /\ r.run_loop = TRUE

\* A new timer has its pool for an owner.
LEMMA NewFits ==
  ASSUME NEW t \in Timers, NEW valid \in BOOLEAN, NEW c \in Nat, NEW h \in Nat, ~valid, c = 0, h = 0,
         now \in Nat, CurrentPool \in Nat
  PROVE  /\ Fits(t, NewTimer(t), valid, c, h, 0, now)
         /\ NewTimer(t).refs > 0 /\ NewTimer(t).run_loop = FALSE
<1> DEFINE r == NewTimer(t)
<1>1. Interval[t] \in Nat \ {0} /\ None \notin Nat
  BY RunLoopAssumption
<1>2. /\ r \in Object /\ r.refs = 1 /\ r.due_by = now + Interval[t] /\ r.start = now
      /\ r.is_running_callback = FALSE /\ r.run_loop = FALSE
      /\ r.pool = CurrentPool /\ r.held = FALSE
  <2>1. r = [refs |-> 1, due_by |-> now + Interval[t], start |-> now,
             is_running_callback |-> FALSE, run_loop |-> FALSE, pool |-> CurrentPool,
             held |-> FALSE]
    BY DEF NewTimer
  <2>2. now + Interval[t] \in Nat
    BY <1>1
  <2> HIDE DEF r
  <2> QED BY <2>1, <2>2 DEF Object
<1> HIDE DEF r
<1>3. r.due_by - r.start = Interval[t] /\ Interval[t] % Interval[t] = 0
  <2>1. r.due_by - r.start = Interval[t]
    BY <1>1, <1>2
  <2>2. \A i \in Nat \ {0} : i % i = 0
    OBVIOUS
  <2> QED BY <1>1, <2>1, <2>2
<1>4. r.due_by <= now + Interval[t] /\ r.due_by # None /\ r.pool # None
  BY <1>1, <1>2
<1>5. Count(valid) = 0 /\ Count(r.held) = 0 /\ Count(r.pool # None) = 1
  BY <1>2, <1>4 DEF Count
<1>6. r.refs = 0 + c + 2 * h + Count(valid) + Count(r.held) + Count(r.pool # None)
  BY <1>2, <1>5
<1>7. Fits(t, r, valid, c, h, 0, now)
  BY <1>2, <1>3, <1>4, <1>6 DEF Fits
<1> QED BY <1>2, <1>7 DEF r

\* The run loop becomes an owner of a timer that is added.
LEMMA JoinFits ==
  ASSUME NEW t, NEW o, NEW valid \in BOOLEAN, NEW c \in Nat, NEW h \in Nat, NEW time,
         Fits(t, o, valid, c, h, 0, time), o.refs > 0, o.run_loop = FALSE,
         NEW added \in BOOLEAN, added = TRUE
  PROVE  Fits(t, [Retained(o) EXCEPT !.run_loop = TRUE], added, c, h, 0, time)
<1> DEFINE q == Retained(o)
           r == [q EXCEPT !.run_loop = TRUE]
<1>1. Fits(t, q, valid, c, h, 0 + 1, time) /\ q.refs > 0 /\ q.run_loop = FALSE
  BY RetainFits
<1> HIDE DEF q
<1>2. /\ q \in Object /\ q.refs \in Nat
      /\ q.refs = (0 + 1) + c + 2 * h + Count(valid) + Count(q.held) + Count(q.pool # None)
      /\ ~valid /\ q.due_by # None
  BY <1>1, ObjectFields DEF Fits
<1>3. /\ r \in Object /\ r.refs = q.refs /\ r.due_by = q.due_by /\ r.start = q.start
      /\ r.is_running_callback = q.is_running_callback /\ r.run_loop = TRUE
      /\ r.pool = q.pool /\ r.held = q.held
  BY <1>2, ObjectFields DEF Object
<1> HIDE DEF r
<1>4. /\ Count(valid) = 0 /\ Count(added) = 1 /\ Count(r.held) = Count(q.held)
      /\ Count(r.pool # None) = Count(q.pool # None)
      /\ Count(q.held) \in Nat /\ Count(q.pool # None) \in Nat
  BY <1>2, <1>3 DEF Count
<1>5. r.refs = 0 + c + 2 * h + Count(added) + Count(r.held) + Count(r.pool # None)
  BY <1>2, <1>3, <1>4
<1>6. /\ h <= 1 /\ (q.is_running_callback <=> h = 1)
      /\ q.due_by # None => /\ (q.due_by - q.start) % Interval[t] = 0
                            /\ q.due_by <= time + Interval[t]
  BY <1>1 DEF Fits
<1>7. Fits(t, r, added, c, h, 0, time)
  <2>1. added <=> r.run_loop /\ r.due_by # None
    BY <1>2, <1>3
  <2>2. r.refs = 0 => r = Freed
    BY <1>1, <1>3
  <2>3. r.due_by # None => /\ (r.due_by - r.start) % Interval[t] = 0
                           /\ r.due_by <= time + Interval[t]
    BY <1>3, <1>6
  <2>4. h <= 1 /\ (r.is_running_callback <=> h = 1)
    BY <1>3, <1>6
  <2> QED BY <1>3, <1>5, <2>1, <2>2, <2>3, <2>4 DEF Fits
<1> QED BY <1>7 DEF r, q

\* The run loop gives up a timer that is invalidated.
LEMMA LeaveFits ==
  ASSUME NEW t, NEW o, NEW valid \in BOOLEAN, NEW c \in Nat, NEW h \in Nat, NEW time,
         Fits(t, o, valid, c, h, 0, time), valid,
         NEW left \in BOOLEAN, ~left
  PROVE  /\ Fits(t, Released([o EXCEPT !.due_by = None]), left, c, h, 0, time)
         /\ Kept(o, Released([o EXCEPT !.due_by = None]))
<1> DEFINE r == [o EXCEPT !.due_by = None]
<1>1. left = FALSE
  OBVIOUS
<1>2. Fits(t, r, left, c, h, 0 + 1, time)
  BY <1>1, OwnerLeaves
<1>3. r.held = o.held /\ r.run_loop = o.run_loop
  BY ObjectFields DEF Fits, Object
<1> HIDE DEF r
<1>4. /\ Fits(t, Released(r), left, c, h, 0, time)
      /\ r.held = TRUE => Released(r).held = TRUE /\ Released(r).run_loop = r.run_loop
  BY <1>2, ReleaseFits
<1> QED BY <1>3, <1>4 DEF Kept, r

\* The guest becomes an owner of a timer that it retains.
LEMMA HoldFits ==
  ASSUME NEW t, NEW o, NEW valid \in BOOLEAN, NEW c \in Nat, NEW h \in Nat, NEW time,
         Fits(t, o, valid, c, h, 0, time), o.refs > 0, o.held = FALSE
  PROVE  Fits(t, [Retained(o) EXCEPT !.held = TRUE], valid, c, h, 0, time)
<1> DEFINE q == Retained(o)
           r == [q EXCEPT !.held = TRUE]
<1>1. Fits(t, q, valid, c, h, 0 + 1, time) /\ q.refs > 0 /\ q.held = FALSE
  BY RetainFits
<1> HIDE DEF q
<1>2. /\ q \in Object /\ q.refs \in Nat
      /\ q.refs = (0 + 1) + c + 2 * h + Count(valid) + Count(q.held) + Count(q.pool # None)
  BY <1>1, ObjectFields DEF Fits
<1>3. /\ r \in Object /\ r.refs = q.refs /\ r.due_by = q.due_by /\ r.start = q.start
      /\ r.is_running_callback = q.is_running_callback /\ r.run_loop = q.run_loop
      /\ r.pool = q.pool /\ r.held = TRUE
  BY <1>2, ObjectFields DEF Object
<1> HIDE DEF r
<1>4. /\ Count(q.held) = 0 /\ Count(r.held) = 1 /\ Count(valid) \in Nat
      /\ Count(r.pool # None) = Count(q.pool # None) /\ Count(q.pool # None) \in Nat
  BY <1>1, <1>3 DEF Count
<1>5. r.refs = 0 + c + 2 * h + Count(valid) + Count(r.held) + Count(r.pool # None)
  BY <1>2, <1>3, <1>4
<1>6. Fits(t, r, valid, c, h, 0, time)
  BY <1>1, <1>2, <1>3, <1>5 DEF Fits
<1> QED BY <1>6 DEF r, q

\* What the release of pool d does to a timer.
DrainedObject(o, d) == IF o.pool = d THEN Released([o EXCEPT !.pool = None]) ELSE o

\* Whoever else owns the timer keeps it, and as due as it was.
LEMMA DrainsFits ==
  ASSUME NEW d \in Nat, NEW t, NEW o, NEW valid \in BOOLEAN, NEW c \in Nat, NEW h \in Nat,
         NEW k \in Nat, NEW time, Fits(t, o, valid, c, h, k, time)
  PROVE  /\ Fits(t, DrainedObject(o, d), valid, c, h, k, time)
         /\ Kept(o, DrainedObject(o, d))
         /\ o.held = TRUE => DrainedObject(o, d).due_by = o.due_by
<1>1. CASE o.pool # d
  BY <1>1 DEF DrainedObject, Kept
<1>2. CASE o.pool = d
  <2> DEFINE r == [o EXCEPT !.pool = None]
  <2>1. o.pool # None
    BY <1>2, RunLoopAssumption
  <2>2. Fits(t, r, valid, c, h, k + 1, time)
    BY <2>1, OwnerLeaves
  <2>3. r.held = o.held /\ r.run_loop = o.run_loop /\ r.due_by = o.due_by /\ r.refs = o.refs
    BY ObjectFields DEF Fits, Object
  <2> HIDE DEF r
  <2>4. /\ Fits(t, Released(r), valid, c, h, k, time)
        /\ r.held = TRUE => Released(r).held = TRUE /\ Released(r).run_loop = r.run_loop
    BY <2>2, ReleaseFits
  <2>5. ASSUME r.held = TRUE PROVE Released(r).due_by = r.due_by
    <3>1. Released(r) # Freed
      BY <2>4, <2>5 DEF Freed
    <3>2. Released(r) = [r EXCEPT !.refs = @ - 1]
      BY <3>1 DEF Released
    <3> QED BY <2>2, <3>2, ObjectFields DEF Fits, Object
  <2> QED BY <1>2, <2>3, <2>4, <2>5 DEF DrainedObject, Kept, r
<1> QED BY <1>1, <1>2

\* The same, a part at a time
LEMMA DrainFits ==
  ASSUME NEW d \in Nat, NEW t, NEW o, NEW valid \in BOOLEAN, NEW c \in Nat, NEW h \in Nat,
         NEW k \in Nat, NEW time, Fits(t, o, valid, c, h, k, time)
  PROVE  Fits(t, DrainedObject(o, d), valid, c, h, k, time)
BY DrainsFits

\* A timer that is relied on is kept.
LEMMA DrainKeeps ==
  ASSUME NEW d \in Nat, NEW t, NEW o, NEW valid \in BOOLEAN, NEW c \in Nat, NEW h \in Nat,
         NEW k \in Nat, NEW time, Fits(t, o, valid, c, h, k, time)
  PROVE  Kept(o, DrainedObject(o, d))
BY DrainsFits

\* run_run_loop releases a copy that it has dealt with.
LEMMA CopyFits ==
  ASSUME NEW t, NEW o, NEW valid \in BOOLEAN, NEW c \in Nat, NEW h \in Nat, NEW time,
         Fits(t, o, valid, c, h, 0, time), c > 0
  PROVE  Fits(t, Released(o), valid, c - 1, h, 0, time) /\ Kept(o, Released(o))
<1>1. Fits(t, o, valid, c - 1, h, 0 + 1, time) /\ c - 1 \in Nat
  <2>1. Fits(t, o, valid, c - 1, h, 0 + 1, time)
    BY OwnerLeaves
  <2> QED BY <2>1
<1>2. /\ Fits(t, Released(o), valid, c - 1, h, 0, time)
      /\ o.held = TRUE => Released(o).held = TRUE /\ Released(o).run_loop = o.run_loop
  BY <1>1, ReleaseFits
<1> QED BY <1>2 DEF Kept

\* A timer whose copy is still to be handled and that is not being called is in
\* no call at all.
LEMMA NotCalled ==
  ASSUME NEW t, NEW o, NEW valid \in BOOLEAN, NEW c \in Nat, NEW h \in Nat, NEW time,
         Fits(t, o, valid, c, h, 0, time), c > 0, o.is_running_callback = FALSE
  PROVE  h = 0 /\ o.run_loop = TRUE /\ (o.due_by # None => valid)
BY ObjectFields DEF Fits

\* The copy that handle_timer is given becomes the call that it makes.
LEMMA CallFits ==
  ASSUME NEW t, NEW o, NEW valid \in BOOLEAN, NEW c \in Nat, NEW h \in Nat, NEW time,
         Fits(t, o, valid, c, h, 0, time), c > 0, o.is_running_callback = FALSE
  PROVE  \A r : r = [Retained(o) EXCEPT !.is_running_callback = TRUE] =>
            Fits(t, r, valid, c - 1, h + 1, 0, time)
<1> SUFFICES ASSUME NEW r, r = [Retained(o) EXCEPT !.is_running_callback = TRUE]
             PROVE  Fits(t, r, valid, c - 1, h + 1, 0, time)
  OBVIOUS
<1> DEFINE q == Retained(o)
<1>1. /\ o \in Object /\ o.refs \in Nat /\ h = 0 /\ o.run_loop = TRUE
      /\ o.refs = 0 + c + 2 * h + Count(valid) + Count(o.held) + Count(o.pool # None)
      /\ Count(valid) \in Nat /\ Count(o.held) \in Nat /\ Count(o.pool # None) \in Nat
      /\ valid <=> o.run_loop /\ o.due_by # None
      /\ o.due_by # None => /\ (o.due_by - o.start) % Interval[t] = 0
                            /\ o.due_by <= time + Interval[t]
  BY ObjectFields, Counts DEF Fits
<1>2. /\ q \in Object /\ q.refs = o.refs + 1 /\ q.due_by = o.due_by /\ q.start = o.start
      /\ q.run_loop = o.run_loop /\ q.pool = o.pool /\ q.held = o.held
  BY <1>1, ObjectFields DEF Object, Retained
<1>3. /\ r \in Object /\ r.refs = q.refs /\ r.due_by = q.due_by /\ r.start = q.start
      /\ r.is_running_callback = TRUE /\ r.run_loop = q.run_loop
      /\ r.pool = q.pool /\ r.held = q.held
  <2>1. r = [q EXCEPT !.is_running_callback = TRUE]
    OBVIOUS
  <2> HIDE DEF q
  <2> QED BY <1>2, <2>1, ObjectFields DEF Object
<1> HIDE DEF q
<1>4. Count(r.held) = Count(o.held) /\ Count(r.pool # None) = Count(o.pool # None)
  BY <1>2, <1>3
<1>5. /\ r.refs = 0 + (c - 1) + 2 * (h + 1) + Count(valid) + Count(r.held)
                 + Count(r.pool # None)
      /\ r.refs > 0 /\ c - 1 \in Nat
  BY <1>1, <1>2, <1>3, <1>4
<1>6. /\ valid <=> r.run_loop /\ r.due_by # None
      /\ r.due_by # None => /\ (r.due_by - r.start) % Interval[t] = 0
                            /\ r.due_by <= time + Interval[t]
      /\ r.run_loop = TRUE
  BY <1>1, <1>2, <1>3
<1>7. Fits(t, r, valid, c - 1, h + 1, 0, time)
  BY <1>1, <1>3, <1>5, <1>6 DEF Fits
<1> QED BY <1>7

\* The call leaves the timer as due as it was.
LEMMA CallKeeps ==
  ASSUME NEW o \in Object, NEW r, r = [Retained(o) EXCEPT !.is_running_callback = TRUE]
  PROVE  Kept(o, r) /\ r.due_by = o.due_by /\ r.start = o.start
<1> DEFINE q == Retained(o)
<1>1. /\ q.refs = o.refs + 1 /\ q.due_by = o.due_by /\ q.start = o.start
      /\ q.run_loop = o.run_loop /\ q.pool = o.pool /\ q.held = o.held /\ q \in Object
  BY ObjectFields DEF Object, Retained
<1>2. r = [q EXCEPT !.is_running_callback = TRUE]
  OBVIOUS
<1> HIDE DEF q
<1>3. /\ r.due_by = q.due_by /\ r.start = q.start
      /\ r.run_loop = q.run_loop /\ r.held = q.held
  BY <1>1, <1>2, ObjectFields DEF Object
<1> QED BY <1>1, <1>3 DEF Kept

\* The next firing is on schedule and no more than an interval away.
LEMMA Advances ==
  ASSUME NEW I \in Nat \ {0}, NEW due \in Nat, NEW start \in Nat, NEW n \in Nat,
         due <= n, (due - start) % I = 0
  PROVE  /\ due + I * AdvanceBy(n - due, I) \in Nat
         /\ due + I * AdvanceBy(n - due, I) <= n + I
         /\ ((due + I * AdvanceBy(n - due, I)) - start) % I = 0
<1> DEFINE x == (n - due) + I - 1
           w == x \div I
           a == AdvanceBy(n - due, I)
<1>1. x \in Nat
  OBVIOUS
<1>2. w \in Nat /\ I * w <= x
  <2> HIDE DEF x
  <2>1. \A y \in Nat : \A i \in Nat \ {0} : y \div i \in Nat /\ i * (y \div i) <= y
    OBVIOUS
  <2> QED BY <1>1, <2>1
<1>3. a \in {1, w} /\ a >= 1 /\ a >= w
  <2> HIDE DEF w
  <2>1. \E m \in {1, w} : \A y \in {1, w} : m >= y
    <3>1. CASE w >= 1
      BY <1>2, <3>1
    <3>2. CASE w < 1
      BY <1>2, <3>2
    <3> QED BY <1>2, <3>1, <3>2
  <2>2. Max({1, w}) \in {1, w} /\ \A y \in {1, w} : Max({1, w}) >= y
    BY <2>1 DEF Max
  <2>3. a = Max({1, w})
    BY DEF AdvanceBy, w
  <2> QED BY <2>2, <2>3
<1>4. a \in Nat /\ I * a <= (n - due) + I
  <2>1. CASE a = 1
    BY <2>1
  <2>2. CASE a = w
    <3> HIDE DEF w, a
    <3> QED BY <1>2, <2>2
  <2> QED BY <1>3, <2>1, <2>2
<1> HIDE DEF a
<1>5. I * a \in Nat /\ due + I * a \in Nat /\ due + I * a <= n + I
  <2>1. I * a \in Nat
    BY <1>4
  <2> DEFINE p == I * a
  <2> HIDE DEF p
  <2>2. p \in Nat /\ p <= (n - due) + I
    BY <1>4, <2>1 DEF p
  <2>3. due + p \in Nat /\ due + p <= n + I
    BY <2>2
  <2> QED BY <2>1, <2>3 DEF p
<1>6. ((due + I * a) - start) % I = 0
  <2> DEFINE e == due - start
             q == e \div I
  <2>1. e \in Int /\ q \in Int /\ e = I * q
    <3>1. \A y \in Int : \A i \in Nat \ {0} : y % i = 0 => y \div i \in Int /\ y = i * (y \div i)
      OBVIOUS
    <3>2. e \in Int
      OBVIOUS
    <3> HIDE DEF e
    <3> QED BY <3>1, <3>2 DEF e
  <2> HIDE DEF q
  <2>2. (due + I * a) - start = I * (q + a) /\ q + a \in Int
    <3>1. I * (q + a) = I * q + I * a
      BY <1>4, <2>1
    <3>2. (due + I * a) - start = (due - start) + I * a
      BY <1>5
    <3> QED BY <1>4, <2>1, <3>1, <3>2
  <2>3. \A z \in Int : \A i \in Nat \ {0} : (i * z) % i = 0
    OBVIOUS
  <2> QED BY <2>2, <2>3
<1> QED BY <1>5, <1>6 DEF a

\* A timer that is advanced fits as it did.
LEMMA AdvanceFits ==
  ASSUME NEW t \in Timers, NEW o, NEW valid \in BOOLEAN, NEW c \in Nat, NEW h \in Nat,
         NEW time \in Nat, Fits(t, o, valid, c, h, 0, time), h > 0,
         o.due_by # None, o.due_by <= time
  PROVE  LET r == [o EXCEPT !.due_by = o.due_by
                              + Interval[t] * AdvanceBy(time - o.due_by, Interval[t])]
         IN  Fits(t, r, valid, c, h, 0, time) /\ Kept(o, r)
<1> DEFINE d == o.due_by + Interval[t] * AdvanceBy(time - o.due_by, Interval[t])
           r == [o EXCEPT !.due_by = d]
<1>1. /\ o \in Object /\ o.refs \in Nat /\ o.due_by \in Nat /\ o.start \in Nat
      /\ o.refs = 0 + c + 2 * h + Count(valid) + Count(o.held) + Count(o.pool # None)
      /\ o.run_loop = TRUE
      /\ (o.due_by - o.start) % Interval[t] = 0
      /\ h <= 1 /\ (o.is_running_callback <=> h = 1)
      /\ Count(valid) \in Nat /\ Count(o.held) \in Nat /\ Count(o.pool # None) \in Nat
  BY ObjectFields, Counts DEF Fits
<1>2. Interval[t] \in Nat \ {0} /\ None \notin Nat /\ valid
  BY <1>1, RunLoopAssumption DEF Fits
<1>3. d \in Nat /\ d <= time + Interval[t] /\ (d - o.start) % Interval[t] = 0
  <2> DEFINE I == Interval[t]
             due == o.due_by
             start == o.start
  <2>1. /\ I \in Nat \ {0} /\ due \in Nat /\ start \in Nat /\ due <= time
        /\ (due - start) % I = 0
    BY <1>1, <1>2
  <2> HIDE DEF I, due, start
  <2>2. /\ due + I * AdvanceBy(time - due, I) \in Nat
        /\ due + I * AdvanceBy(time - due, I) <= time + I
        /\ ((due + I * AdvanceBy(time - due, I)) - start) % I = 0
    BY <2>1, Advances
  <2>3. d = due + I * AdvanceBy(time - due, I)
    BY DEF d, I, due
  <2> HIDE DEF d
  <2>4. d \in Nat /\ d <= time + I /\ (d - start) % I = 0
    BY <2>2, <2>3
  <2> QED BY <2>4 DEF I, start
<1> HIDE DEF d
<1>4. /\ r \in Object /\ r.refs = o.refs /\ r.due_by = d /\ r.start = o.start
      /\ r.is_running_callback = o.is_running_callback /\ r.run_loop = o.run_loop
      /\ r.pool = o.pool /\ r.held = o.held
  BY <1>1, <1>3, ObjectFields DEF Object
<1> HIDE DEF r
<1>5. r.refs = 0 + c + 2 * h + Count(valid) + Count(r.held) + Count(r.pool # None) /\ r.refs > 0
  <2>1. Count(r.held) = Count(o.held) /\ Count(r.pool # None) = Count(o.pool # None)
    BY <1>4
  <2>2. o.refs > 0
    <3>1. h = 1
      BY <1>1
    <3>2. c + 2 * h + Count(valid) + Count(o.held) + Count(o.pool # None) > 0
      BY <1>1, <3>1
    <3> QED BY <1>1, <3>2
  <2>3. r.refs = o.refs
    BY <1>4
  <2>4. o.refs = 0 + c + 2 * h + Count(valid) + Count(o.held) + Count(o.pool # None)
    BY <1>1
  <2> QED BY <2>1, <2>2, <2>3, <2>4
<1>6. Fits(t, r, valid, c, h, 0, time)
  <2>1. r.due_by # None /\ (r.due_by - r.start) % Interval[t] = 0
        /\ r.due_by <= time + Interval[t]
    BY <1>2, <1>3, <1>4
  <2>2. valid <=> r.run_loop /\ r.due_by # None
    BY <1>1, <1>2, <1>4, <2>1
  <2>3. h <= 1 /\ (r.is_running_callback <=> h = 1) /\ r.run_loop
    BY <1>1, <1>4
  <2> QED BY <1>4, <1>5, <2>1, <2>2, <2>3 DEF Fits
<1>7. Kept(o, r)
  BY <1>4 DEF Kept
<1> QED BY <1>6, <1>7 DEF r, d

\* What handle_timer does to a timer that is due: the copy becomes the call,
\* and the timer is advanced or leaves the loop.
LEMMA HandleFits ==
  ASSUME NEW t \in Timers, NEW o, NEW v \in BOOLEAN, NEW w \in BOOLEAN,
         NEW c \in Nat, NEW h \in Nat, NEW time \in Nat, c > 0,
         Fits(t, o, v, c, h, 0, time), o.is_running_callback = FALSE,
         o.due_by # None, o.due_by <= time,
         NEW q, q = [Retained(o) EXCEPT !.is_running_callback = TRUE], NEW r,
         \/ ~w /\ r = Released([q EXCEPT !.due_by = None])
         \/ w /\ r = [q EXCEPT !.due_by = o.due_by
                         + Interval[t] * AdvanceBy(time - o.due_by, Interval[t])]
  PROVE  Fits(t, r, w, c - 1, h + 1, 0, time) /\ Kept(o, r)
<1> DEFINE d == c - 1
           e == h + 1
<1>1. /\ v /\ d \in Nat /\ e \in Nat /\ e > 0 /\ o \in Object
  <2>1. v /\ o \in Object
    BY NotCalled DEF Fits
  <2> QED BY <2>1
<1>2. Fits(t, q, v, d, e, 0, time)
  BY CallFits
<1>3. Kept(o, q) /\ q.due_by = o.due_by
  BY <1>1, CallKeeps
<1> HIDE DEF d, e
<1>4. CASE ~w
  <2>1. r = Released([q EXCEPT !.due_by = None])
    BY <1>4
  <2>2. Fits(t, r, w, d, e, 0, time) /\ Kept(q, r)
    BY <1>1, <1>2, <1>4, <2>1, LeaveFits
  <2> QED BY <1>3, <2>2 DEF Kept, d, e
<1>5. CASE w
  <2>1. r = [q EXCEPT !.due_by = q.due_by
                + Interval[t] * AdvanceBy(time - q.due_by, Interval[t])]
    BY <1>3, <1>5
  <2>2. q.due_by # None /\ q.due_by <= time
    BY <1>3
  <2>3. Fits(t, r, v, d, e, 0, time) /\ Kept(q, r)
    BY <1>1, <1>2, <2>1, <2>2, AdvanceFits
  <2>4. v = w
    BY <1>1, <1>5
  <2>5. Fits(t, r, w, d, e, 0, time)
    BY <2>3, <2>4
  <2> QED BY <1>3, <2>3, <2>5 DEF Kept, d, e
<1> QED BY <1>4, <1>5

\* The call leaves the timer to those who rely on it.
LEMMA HandleKeeps ==
  ASSUME NEW o \in Object, NEW q, q = [Retained(o) EXCEPT !.is_running_callback = TRUE],
         NEW due, NEW r, r # Freed,
         r = Released([q EXCEPT !.due_by = None]) \/ r = [q EXCEPT !.due_by = due]
  PROVE  Kept(o, r)
<1>1. q \in Object /\ q.run_loop = o.run_loop /\ q.held = o.held
  <2> DEFINE p == Retained(o)
  <2>1. /\ p.refs = o.refs + 1 /\ p.run_loop = o.run_loop /\ p.held = o.held
        /\ p \in Object
    BY ObjectFields DEF Object, Retained
  <2>2. q = [p EXCEPT !.is_running_callback = TRUE]
    OBVIOUS
  <2> HIDE DEF p
  <2>3. q \in Object /\ q.run_loop = p.run_loop /\ q.held = p.held
    BY <2>1, <2>2, ObjectFields DEF Object
  <2> QED BY <2>1, <2>3
<1>2. CASE r = [q EXCEPT !.due_by = due]
  BY <1>1, <1>2 DEF Kept, Object
<1>3. CASE r = Released([q EXCEPT !.due_by = None])
  <2> DEFINE p == [q EXCEPT !.due_by = None]
  <2>1. p \in Object /\ p.run_loop = q.run_loop /\ p.held = q.held
    BY <1>1, ObjectFields DEF Object
  <2> HIDE DEF p
  <2>2. r = [p EXCEPT !.refs = @ - 1]
    BY <1>3 DEF Released, p
  <2> QED BY <1>1, <2>1, <2>2 DEF Kept, Object
<1> QED BY <1>2, <1>3

\* Time passes.
LEMMA TimePasses ==
  ASSUME NEW t \in Timers, NEW o, NEW valid, NEW c, NEW h, NEW time \in Nat,
         Fits(t, o, valid, c, h, 0, time)
  PROVE  Fits(t, o, valid, c, h, 0, time + 1)
<1>1. Interval[t] \in Nat \ {0} /\ None \notin Nat
  BY RunLoopAssumption
<1>2. o.due_by # None => o.due_by <= (time + 1) + Interval[t]
  <2>1. o.due_by # None => o.due_by \in Nat /\ o.due_by <= time + Interval[t]
    BY ObjectFields DEF Fits
  <2> QED BY <1>1, <2>1
<1> QED BY <1>2 DEF Fits

----------------------------------------------------------------------------
(* Steps of the guest *)

\* The pools are numbered.
LEMMA PoolNumber == ASSUME TimersInv PROVE Pool(stack) \in Nat /\ CurrentPool \in Nat
<1>1. DOMAIN stack = 1 .. Len(stack) /\ Len(stack) \in Nat
  BY LenProperties DEF TimersInv
<1>2. IsFiniteSet({i \in DOMAIN stack : stack[i].at = "callback"})
  <2>1. IsFiniteSet(1 .. Len(stack))
    BY <1>1, FS_Interval
  <2> QED BY <1>1, <2>1, FS_Subset
<1>3. Pool(stack) \in Nat
  BY <1>2, FS_CardinalityType DEF Pool
<1> QED BY <1>3 DEF CurrentPool

\* What the invariant says of one timer
LEMMA TimerFacts ==
  ASSUME TimersInv, NEW t \in Timers
  PROVE  /\ Copies(t) \in Nat /\ Handling(t) \in Nat
         /\ Fits(t, objects[t], t \in timers, Copies(t), Handling(t), 0, now)
         /\ objects[t] \in Object /\ objects[t].refs \in Nat
         /\ (objects[t].held = TRUE => objects[t].refs > 0)
         /\ objects[t].refs = 0 =>
               /\ Copies(t) = 0 /\ Handling(t) = 0 /\ t \notin timers /\ objects[t] = Freed
<1>1. Copies(t) \in Nat /\ Handling(t) \in Nat
  BY StackCounts, CallCounts DEF TimersInv
<1>2. Fits(t, objects[t], t \in timers, Copies(t), Handling(t), 0, now)
  BY DEF TimersInv
<1> DEFINE o == objects[t]
           v == t \in timers
           c == Copies(t)
           h == Handling(t)
<1> HIDE DEF o, v, c, h
<1>3. v \in BOOLEAN /\ c \in Nat /\ h \in Nat /\ Fits(t, o, v, c, h, 0, now)
  BY <1>1, <1>2 DEF o, v, c, h
<1>4. /\ o \in Object /\ o.refs \in Nat
      /\ o.refs = 0 + c + 2 * h + Count(v) + Count(o.held) + Count(o.pool # None)
      /\ Count(v) \in Nat /\ Count(o.held) \in Nat /\ Count(o.pool # None) \in Nat
      /\ Count(v) = 0 => ~v
      /\ o.refs = 0 => o = Freed
  BY <1>3, ObjectFields, Counts DEF Fits
<1>5. ASSUME o.refs = 0 PROVE c = 0 /\ h = 0 /\ ~v /\ o = Freed
  <2>1. c = 0 /\ h = 0 /\ Count(v) = 0
    BY <1>3, <1>4, <1>5
  <2> QED BY <1>4, <1>5, <2>1
<1>6. o.held = TRUE => o.refs > 0
  BY <1>4 DEF Freed
<1> QED BY <1>1, <1>2, <1>4, <1>5, <1>6 DEF o, v, c, h

\* A step that changes timer u only
LEMMA OneObject ==
  ASSUME TimersInv, NEW u \in Timers, NEW o,
         objects' = [objects EXCEPT ![u] = o], stack' = stack, now' = now, panic' = FALSE,
         timers' \subseteq Timers, \A t \in Timers \ {u} : t \in timers' <=> t \in timers,
         Fits(u, o, u \in timers', Copies(u), Handling(u), 0, now),
         \/ Kept(objects[u], o)
         \/ \A i \in DOMAIN stack : stack[i].kind = "fire" => stack[i].cur # u
  PROVE  TimersInv'
<1> DEFINE objs == [objects EXCEPT ![u] = o]
<1>1. o \in Object
  BY DEF Fits
<1>2. objects \in [Timers -> Object]
  BY DEF TimersInv
<1>3. objs \in [Timers -> Object] /\ objs[u] = o /\ \A t \in Timers \ {u} : objs[t] = objects[t]
  BY <1>1, <1>2
<1> HIDE DEF objs
<1>4. ASSUME NEW t \in Timers
      PROVE  /\ Fits(t, objs[t], t \in timers', Copies(t), Handling(t), 0, now)
             /\ objects[t].held = TRUE /\ objects[t].run_loop = TRUE =>
                   \/ objs[t].held = TRUE /\ objs[t].run_loop = TRUE
                   \/ \A i \in DOMAIN stack : stack[i].kind = "fire" => stack[i].cur # t
  <2>1. CASE t = u
    BY <1>3, <2>1 DEF Kept
  <2>2. CASE t # u
    <3>1. Fits(t, objects[t], t \in timers, Copies(t), Handling(t), 0, now)
      BY TimerFacts
    <3>2. (t \in timers') = (t \in timers)
      BY <2>2
    <3>3. objs[t] = objects[t]
      BY <1>3, <2>2
    <3>4. Fits(t, objs[t], t \in timers', Copies(t), Handling(t), 0, now)
      BY <3>1, <3>2, <3>3
    <3> QED BY <3>3, <3>4
  <2> QED BY <2>1, <2>2
<1>5. objects' = objs
  BY DEF objs
<1> QED BY <1>3, <1>4, <1>5, ObjectsStep

\* A new timer, in no run loop yet
LEMMA CreateStep ==
  ASSUME TimersInv, NEW t \in Timers, timerWithTimeInterval(t)
  PROVE  TimersInv'
<1>1. /\ objects' = [objects EXCEPT ![t] = NewTimer(t)] /\ objects[t].refs = 0
      /\ now' = now /\ timers' = timers /\ stack' = stack /\ panic' = FALSE
  <2>1. objects[t].refs \in Nat /\ panic = FALSE
    BY TimerFacts DEF TimersInv
  <2> QED BY <2>1 DEF timerWithTimeInterval, Alive
<1>2. Copies(t) = 0 /\ Handling(t) = 0 /\ t \notin timers /\ Kept(objects[t], NewTimer(t))
  <2>1. Copies(t) = 0 /\ Handling(t) = 0 /\ t \notin timers /\ objects[t] = Freed
    BY <1>1, TimerFacts
  <2> QED BY <2>1 DEF Kept, Freed
<1> DEFINE v == t \in timers
<1> HIDE DEF v
<1>3. v \in BOOLEAN /\ ~v /\ now \in Nat
  BY <1>2 DEF v, TimersInv
<1>4. Fits(t, NewTimer(t), v, Copies(t), Handling(t), 0, now)
  BY <1>2, <1>3, PoolNumber, NewFits
<1>5. Fits(t, NewTimer(t), t \in timers', Copies(t), Handling(t), 0, now)
  BY <1>1, <1>4 DEF v
<1>6. timers' \subseteq Timers /\ \A u \in Timers \ {t} : u \in timers' <=> u \in timers
  BY <1>1 DEF TimersInv
<1> QED BY <1>1, <1>2, <1>5, <1>6, OneObject

\* A timer joins the run loop.
LEMMA AddStep ==
  ASSUME TimersInv, NEW t \in Timers, addTimer(t)
  PROVE  TimersInv'
<1> DEFINE r == [Retained(objects[t]) EXCEPT !.run_loop = TRUE]
           v == t \in timers
           w == t \in timers \cup {t}
<1>1. /\ objects' = [objects EXCEPT ![t] = r] /\ objects[t].refs > 0
      /\ objects[t].run_loop = FALSE
      /\ now' = now /\ timers' = timers \cup {t} /\ stack' = stack
      /\ panic' = (t \in timers)
  BY TimerFacts, ObjectFields DEF addTimer, Alive, TimersInv
<1>2. Fits(t, objects[t], v, Copies(t), Handling(t), 0, now)
  BY TimerFacts
<1>3. t \notin timers
  BY <1>1, <1>2 DEF Fits
<1> HIDE DEF v, w
<1>4. v \in BOOLEAN /\ w \in BOOLEAN /\ w = TRUE
  BY DEF v, w
<1>5. Fits(t, r, w, Copies(t), Handling(t), 0, now)
  BY <1>1, <1>2, <1>4, TimerFacts, JoinFits
<1> HIDE DEF r
<1>6. Fits(t, r, t \in timers', Copies(t), Handling(t), 0, now)
  BY <1>1, <1>5 DEF w
<1>7. timers' \subseteq Timers /\ \A u \in Timers \ {t} : u \in timers' <=> u \in timers
  BY <1>1 DEF TimersInv
<1>8. Kept(objects[t], r)
  BY <1>1 DEF Kept
<1>9. panic' = FALSE
  <2>1. (t \in timers) = FALSE
    BY <1>3
  <2>2. panic' = (t \in timers)
    BY <1>1
  <2> QED BY <2>1, <2>2
<1> QED BY <1>1, <1>6, <1>7, <1>8, <1>9, OneObject

\* A new timer that joins the run loop at once
LEMMA ScheduleStep ==
  ASSUME TimersInv, NEW t \in Timers, scheduledTimerWithTimeInterval(t)
  PROVE  TimersInv'
<1> DEFINE n == NewTimer(t)
           r == [Retained(n) EXCEPT !.run_loop = TRUE]
           v == t \in timers
           w == t \in timers \cup {t}
<1>1. /\ objects' = [objects EXCEPT ![t] = r] /\ objects[t].refs = 0
      /\ now' = now /\ timers' = timers \cup {t} /\ stack' = stack
      /\ panic' = (t \in timers)
  <2>1. objects[t].refs \in Nat
    BY TimerFacts
  <2> QED BY <2>1 DEF scheduledTimerWithTimeInterval, Alive
<1>2. Copies(t) = 0 /\ Handling(t) = 0 /\ t \notin timers /\ Kept(objects[t], r)
  <2>1. Copies(t) = 0 /\ Handling(t) = 0 /\ t \notin timers /\ objects[t] = Freed
    BY <1>1, TimerFacts
  <2> QED BY <2>1 DEF Kept, Freed
<1> HIDE DEF v, w
<1>3. v \in BOOLEAN /\ ~v /\ now \in Nat /\ w \in BOOLEAN /\ w = TRUE
  BY <1>2 DEF v, w, TimersInv
<1>4. Fits(t, n, v, Copies(t), Handling(t), 0, now) /\ n.refs > 0 /\ n.run_loop = FALSE
  BY <1>2, <1>3, PoolNumber, NewFits
<1> HIDE DEF n
<1>5. Fits(t, r, w, Copies(t), Handling(t), 0, now)
  BY <1>3, <1>4, TimerFacts, JoinFits
<1> HIDE DEF r
<1>6. Fits(t, r, t \in timers', Copies(t), Handling(t), 0, now)
  BY <1>1, <1>5 DEF w
<1>7. timers' \subseteq Timers /\ \A u \in Timers \ {t} : u \in timers' <=> u \in timers
  BY <1>1 DEF TimersInv
<1>8. panic' = FALSE
  <2>1. (t \in timers) = FALSE
    BY <1>2
  <2>2. panic' = (t \in timers)
    BY <1>1
  <2> QED BY <2>1, <2>2
<1> QED BY <1>1, <1>2, <1>6, <1>7, <1>8, OneObject

\* A timer is invalidated.
LEMMA InvalidateStep ==
  ASSUME TimersInv, NEW t \in Timers, invalidate(t)
  PROVE  TimersInv'
<1> DEFINE r == Released([objects[t] EXCEPT !.due_by = None])
           v == t \in timers
           w == t \in timers \ {t}
<1>1. /\ objects' = [objects EXCEPT ![t] = r] /\ objects[t].run_loop
      /\ objects[t].due_by # None
      /\ now' = now /\ timers' = timers \ {t} /\ stack' = stack
      /\ panic' = (objects[t].due_by # None /\ t \notin timers)
  BY DEF invalidate, Invalidated, RemoveFails
<1>2. Fits(t, objects[t], v, Copies(t), Handling(t), 0, now)
  BY TimerFacts
<1>3. t \in timers
  BY <1>1, <1>2 DEF Fits
<1> HIDE DEF v, w
<1>4. v \in BOOLEAN /\ v /\ w \in BOOLEAN /\ ~w
  BY <1>3 DEF v, w
<1>5. Fits(t, r, w, Copies(t), Handling(t), 0, now) /\ Kept(objects[t], r)
  <2>1. Copies(t) \in Nat /\ Handling(t) \in Nat
    BY TimerFacts
  <2> QED BY <1>2, <1>4, <2>1, LeaveFits
<1> HIDE DEF r
<1>6. Fits(t, r, t \in timers', Copies(t), Handling(t), 0, now)
  BY <1>1, <1>5 DEF w
<1>7. timers' \subseteq Timers /\ \A u \in Timers \ {t} : u \in timers' <=> u \in timers
  BY <1>1 DEF TimersInv
<1>8. panic' = FALSE
  BY <1>1, <1>3
<1> QED BY <1>1, <1>5, <1>6, <1>7, <1>8, OneObject

\* The guest retains a timer.
LEMMA RetainStep ==
  ASSUME TimersInv, NEW t \in Timers, retain_timer(t)
  PROVE  TimersInv'
<1> DEFINE r == [Retained(objects[t]) EXCEPT !.held = TRUE]
           v == t \in timers
<1>1. /\ objects' = [objects EXCEPT ![t] = r] /\ objects[t].refs > 0
      /\ objects[t].held = FALSE
      /\ now' = now /\ timers' = timers /\ stack' = stack /\ panic' = FALSE
  BY TimerFacts, ObjectFields DEF retain_timer, Alive, TimersInv
<1>2. Fits(t, objects[t], v, Copies(t), Handling(t), 0, now) /\ v \in BOOLEAN
  <2>1. Fits(t, objects[t], v, Copies(t), Handling(t), 0, now)
    BY TimerFacts
  <2> QED BY <2>1
<1> HIDE DEF v
<1>3. Fits(t, r, v, Copies(t), Handling(t), 0, now)
  <2>1. Copies(t) \in Nat /\ Handling(t) \in Nat
    BY TimerFacts
  <2> QED BY <1>1, <1>2, <2>1, HoldFits
<1> HIDE DEF r
<1>4. Fits(t, r, t \in timers', Copies(t), Handling(t), 0, now)
  BY <1>1, <1>3 DEF v
<1>5. timers' \subseteq Timers /\ \A u \in Timers \ {t} : u \in timers' <=> u \in timers
  BY <1>1 DEF TimersInv
<1>6. Kept(objects[t], r)
  BY <1>1 DEF Kept
<1> QED BY <1>1, <1>4, <1>5, <1>6, OneObject

\* The guest releases a timer, though none that it is firing.
LEMMA ReleaseStep ==
  ASSUME TimersInv, Careful, NEW t \in Timers, release_timer(t)
  PROVE  TimersInv'
<1> DEFINE q == [objects[t] EXCEPT !.held = FALSE]
           r == Released(q)
           v == t \in timers
<1>1. /\ objects' = [objects EXCEPT ![t] = r] /\ objects[t].held = TRUE
      /\ now' = now /\ timers' = timers /\ stack' = stack /\ panic' = FALSE
      /\ \A i \in DOMAIN stack : stack[i].kind = "fire" => stack[i].cur # t
  BY TimerFacts, ObjectFields DEF release_timer, TimersInv
<1>2. Fits(t, objects[t], v, Copies(t), Handling(t), 0, now) /\ v \in BOOLEAN
  <2>1. Fits(t, objects[t], v, Copies(t), Handling(t), 0, now)
    BY TimerFacts
  <2> QED BY <2>1
<1> HIDE DEF v
<1>3. Fits(t, q, v, Copies(t), Handling(t), 0 + 1, now)
  <2>1. Copies(t) \in Nat /\ Handling(t) \in Nat
    BY TimerFacts
  <2> QED BY <1>1, <1>2, <2>1, OwnerLeaves
<1> HIDE DEF q
<1>4. Fits(t, r, v, Copies(t), Handling(t), 0, now)
  BY <1>2, <1>3, TimerFacts, ReleaseFits
<1> HIDE DEF r
<1>5. Fits(t, r, t \in timers', Copies(t), Handling(t), 0, now)
  BY <1>1, <1>4 DEF v
<1>6. timers' \subseteq Timers /\ \A u \in Timers \ {t} : u \in timers' <=> u \in timers
  BY <1>1 DEF TimersInv
<1> QED BY <1>1, <1>5, <1>6, OneObject

\* A pool is drained.
LEMMA DrainStep ==
  ASSUME TimersInv, drain_outer_pool
  PROVE  TimersInv'
<1> DEFINE objs == Drained(objects, 0)
<1>1. /\ objects' = objs /\ now' = now /\ timers' = timers /\ stack' = stack
      /\ panic' = FALSE /\ timers' \subseteq Timers
  BY DEF drain_outer_pool, TimersInv
<1>2. \A t \in Timers : objs[t] = DrainedObject(objects[t], 0)
  BY DEF Drained, DrainedObject
<1>3. objs = [t \in Timers |-> objs[t]]
  BY DEF Drained
<1> HIDE DEF objs
<1>4. ASSUME NEW t \in Timers
      PROVE  /\ Fits(t, objs[t], t \in timers', Copies(t), Handling(t), 0, now)
             /\ Kept(objects[t], objs[t])
  <2> DEFINE v == t \in timers
  <2>1. /\ Fits(t, objects[t], v, Copies(t), Handling(t), 0, now)
        /\ Copies(t) \in Nat /\ Handling(t) \in Nat
    BY TimerFacts
  <2>2. v \in BOOLEAN
    OBVIOUS
  <2> HIDE DEF v
  <2>3. /\ Fits(t, DrainedObject(objects[t], 0), v, Copies(t), Handling(t), 0, now)
        /\ Kept(objects[t], DrainedObject(objects[t], 0))
    <3>1. 0 \in Nat
      OBVIOUS
    <3>2. Fits(t, DrainedObject(objects[t], 0), v, Copies(t), Handling(t), 0, now)
      BY <2>1, <2>2, <3>1, DrainFits
    <3>3. Kept(objects[t], DrainedObject(objects[t], 0))
      BY <2>1, <2>2, <3>1, DrainKeeps
    <3> QED BY <3>2, <3>3
  <2> QED BY <1>1, <1>2, <2>3 DEF v
<1>5. objs \in [Timers -> Object]
  <2>1. \A t \in Timers : objs[t] \in Object
    BY <1>4 DEF Fits
  <2> QED BY <1>3, <2>1
<1> QED BY <1>1, <1>4, <1>5, ObjectsStep DEF Kept

----------------------------------------------------------------------------
(* Steps of the calls in progress *)

\* The innermost call
LEMMA TopFacts ==
  ASSUME TimersInv, stack # <<>>
  PROVE  /\ Len(stack) \in DOMAIN stack /\ Len(stack) \in Nat \ {0}
         /\ DOMAIN stack = 1 .. Len(stack)
         /\ Top \in Frame /\ FrameFits(Top)
         /\ Top.kind = "fire" =>
               /\ Top.cur \in Timers
               /\ objects[Top.cur].held = TRUE /\ objects[Top.cur].run_loop = TRUE
         /\ \A t \in Timers : t \in Top.todo => Copies(t) > 0
         /\ \A t \in Timers : Calls(Top, t) => Handling(t) > 0
<1>1. /\ Len(stack) \in DOMAIN stack /\ Len(stack) \in Nat \ {0}
      /\ DOMAIN stack = 1 .. Len(stack) /\ Top \in Frame
  <2>1. stack \in Seq(Frame)
    BY DEF TimersInv
  <2>2. /\ Len(stack) \in Nat \ {0} /\ DOMAIN stack = 1 .. Len(stack)
        /\ Last(stack) = stack[Len(stack)] /\ Last(stack) \in Frame
    BY <2>1, FrontLast
  <2> QED BY <2>2 DEF Top
<1>2. /\ FrameFits(Top)
      /\ Top.kind = "fire" =>
            /\ Top.cur \in Timers
            /\ objects[Top.cur].held = TRUE /\ objects[Top.cur].run_loop = TRUE
  BY <1>1 DEF TimersInv, Top, FrameFits
<1>3. ASSUME NEW t \in Timers
      PROVE  /\ t \in Top.todo => Copies(t) > 0
             /\ Calls(Top, t) => Handling(t) > 0
  <2>1. stack \in Seq(Frame) /\ Front(stack) \in Seq(Frame)
    BY FrontLast DEF TimersInv
  <2>2. ListedIn(Front(stack), t) \in Nat /\ CallsIn(Front(stack), t) \in Nat
    BY <2>1, StackCounts
  <2>3. /\ ListedIn(Front(stack), t) + Count(t \in stack[Len(stack)].todo) = ListedIn(stack, t)
        /\ CallsIn(Front(stack), t) + Count(Calls(stack[Len(stack)], t)) = CallsIn(stack, t)
    BY <2>1, StackCounts
  <2> DEFINE f == Top
  <2>4. /\ ListedIn(Front(stack), t) + Count(t \in f.todo) = Copies(t)
        /\ CallsIn(Front(stack), t) + Count(Calls(f, t)) = Handling(t)
    BY <2>3, CallCounts DEF Top
  <2> HIDE DEF f
  <2>5. ASSUME t \in f.todo PROVE Copies(t) > 0
    <3>1. Count(t \in f.todo) = 1
      BY <2>5, Zenon DEF Count
    <3> QED BY <2>2, <2>4, <3>1
  <2>6. ASSUME Calls(f, t) PROVE Handling(t) > 0
    <3>1. Count(Calls(f, t)) = 1
      BY <2>6, Zenon DEF Count
    <3> QED BY <2>2, <2>4, <3>1
  <2> QED BY <2>5, <2>6 DEF f
<1> QED BY <1>1, <1>2, <1>3

\* A call begins.
LEMMA PushStep ==
  ASSUME TimersInv, NEW f \in Frame, FrameFits(f), f.todo = {}, f.kind = "loop" => f.cur \notin Timers,
         f.kind = "fire" => objects[f.cur].held = TRUE /\ objects[f.cur].run_loop = TRUE,
         stack' = Append(stack, f), UNCHANGED <<now, objects, timers, panic>>
  PROVE  TimersInv'
<1>1. /\ stack \in Seq(Frame) /\ stack' \in Seq(Frame) /\ Len(stack) \in Nat
      /\ DOMAIN stack' = 1 .. Len(stack) + 1 /\ DOMAIN stack = 1 .. Len(stack)
      /\ stack'[Len(stack) + 1] = f
      /\ \A i \in 1 .. Len(stack) : stack'[i] = stack[i]
  BY Pushed DEF TimersInv
<1>2. \A i \in DOMAIN stack' : i \in DOMAIN stack \/ i = Len(stack) + 1
  BY <1>1
<1>3. \A i \in DOMAIN stack' : FrameFits(stack'[i])
  BY <1>1, <1>2 DEF TimersInv
<1>4. \A i \in DOMAIN stack' : stack'[i].kind = "fire" =>
          objects'[stack'[i].cur].held = TRUE /\ objects'[stack'[i].cur].run_loop = TRUE
  BY <1>1, <1>2 DEF TimersInv
<1>5. ASSUME NEW t \in Timers
      PROVE  Copies(t)' = Copies(t) /\ Handling(t)' = Handling(t)
  <2>1. /\ ListedIn(stack', t) = ListedIn(stack, t) + Count(t \in f.todo)
        /\ CallsIn(stack', t) = CallsIn(stack, t) + Count(Calls(f, t))
        /\ ListedIn(stack, t) \in Nat /\ CallsIn(stack, t) \in Nat
    BY <1>1, StackCounts
  <2>2. t \notin f.todo /\ ~Calls(f, t)
    BY DEF Calls
  <2>3. Count(t \in f.todo) = 0 /\ Count(Calls(f, t)) = 0
    BY <2>2, Zenon DEF Count
  <2>4. Copies(t)' = ListedIn(stack', t) /\ Handling(t)' = CallsIn(stack', t)
    BY DEF Copies, Handling, ListedIn, CallsIn, Calls
  <2> QED BY <2>1, <2>3, <2>4, CallCounts
<1>6. \A t \in Timers : Fits(t, objects'[t], t \in timers', Copies(t)', Handling(t)', 0, now')
  BY <1>5 DEF TimersInv
<1> QED BY <1>1, <1>3, <1>4, <1>6 DEF TimersInv

\* A run loop goes on: its frame changes, and objects and timers with it.
LEMMA TopStep ==
  ASSUME TimersInv, stack # <<>>, NEW f \in Frame, FrameFits(f), f.kind = "loop", Top.kind = "loop",
         NEW objs \in [Timers -> Object], objects' = objs, timers' \subseteq Timers,
         stack' = With(f), now' = now, panic' = FALSE,
         \A t \in Timers : Kept(objects[t], objs[t]),
         \A t \in Timers : \A c, h \in Nat :
             /\ c + Count(t \in Top.todo) = Copies(t) + Count(t \in f.todo)
             /\ h + Count(Calls(Top, t)) = Handling(t) + Count(Calls(f, t))
             => Fits(t, objs[t], t \in timers', c, h, 0, now)
  PROVE  TimersInv'
<1>1. /\ stack \in Seq(Frame) /\ stack' \in Seq(Frame) /\ Len(stack) \in Nat \ {0}
      /\ DOMAIN stack' = 1 .. Len(stack) /\ DOMAIN stack = 1 .. Len(stack)
      /\ stack'[Len(stack)] = f
      /\ \A i \in 1 .. Len(stack) - 1 : stack'[i] = stack[i]
  <2>1. stack \in Seq(Frame)
    BY DEF TimersInv
  <2>2. Len(stack) \in Nat \ {0} /\ DOMAIN stack = 1 .. Len(stack)
    BY <2>1, FrontLast
  <2>3. stack' = [stack EXCEPT ![Len(stack)] = f]
    BY DEF With
  <2>4. /\ stack' \in Seq(Frame) /\ DOMAIN stack' = 1 .. Len(stack) /\ stack'[Len(stack)] = f
        /\ \A i \in 1 .. Len(stack) - 1 : stack'[i] = stack[i]
    BY <2>1, <2>3, TopReplaced
  <2> QED BY <2>1, <2>2, <2>4
<1>2. \A i \in DOMAIN stack' : i \in DOMAIN stack /\ (i = Len(stack) \/ i \in 1 .. Len(stack) - 1)
  BY <1>1
<1>3. \A i \in DOMAIN stack' : FrameFits(stack'[i])
  BY <1>1, <1>2 DEF TimersInv
<1>4. ASSUME NEW i \in DOMAIN stack', stack'[i].kind = "fire"
      PROVE  objects'[stack'[i].cur].held = TRUE /\ objects'[stack'[i].cur].run_loop = TRUE
  <2>1. i \in DOMAIN stack /\ stack'[i] = stack[i]
    BY <1>1, <1>2, <1>4
  <2>2. /\ stack[i].cur \in Timers
        /\ objects[stack[i].cur].held = TRUE /\ objects[stack[i].cur].run_loop = TRUE
    BY <1>4, <2>1 DEF TimersInv, FrameFits
  <2> QED BY <2>1, <2>2 DEF Kept
<1>5. ASSUME NEW t \in Timers
      PROVE  Fits(t, objs[t], t \in timers', Copies(t)', Handling(t)', 0, now)
  <2>1. Copies(t)' = ListedIn(stack', t) /\ Handling(t)' = CallsIn(stack', t)
    BY DEF Copies, Handling, ListedIn, CallsIn, Calls
  <2>2. ListedIn(stack', t) \in Nat /\ CallsIn(stack', t) \in Nat
    BY <1>1, StackCounts
  <2>3. /\ ListedIn(stack', t) + Count(t \in stack[Len(stack)].todo)
               = ListedIn(stack, t) + Count(t \in f.todo)
        /\ CallsIn(stack', t) + Count(Calls(stack[Len(stack)], t))
               = CallsIn(stack, t) + Count(Calls(f, t))
    <3> DEFINE q == [stack EXCEPT ![Len(stack)] = f]
    <3>1. stack' = q
      BY DEF With
    <3>2. stack \in Seq(Frame) /\ stack # <<>>
      BY <1>1
    <3>3. /\ ListedIn(q, t) + Count(t \in stack[Len(stack)].todo)
                = ListedIn(stack, t) + Count(t \in f.todo)
          /\ CallsIn(q, t) + Count(Calls(stack[Len(stack)], t))
                = CallsIn(stack, t) + Count(Calls(f, t))
      BY <3>2, StackCounts
    <3> HIDE DEF q
    <3> QED BY <3>1, <3>3
  <2>4. /\ ListedIn(stack', t) + Count(t \in Top.todo) = Copies(t) + Count(t \in f.todo)
        /\ CallsIn(stack', t) + Count(Calls(Top, t)) = Handling(t) + Count(Calls(f, t))
    BY <2>3, CallCounts DEF Top
  <2> QED BY <2>1, <2>2, <2>4
<1> QED BY <1>1, <1>3, <1>4, <1>5 DEF TimersInv

\* A call that handles no timer ends.
LEMMA PopStep ==
  ASSUME TimersInv, stack # <<>>, Top.todo = {}, Top.kind = "loop" => Top.cur \notin Timers,
         NEW objs \in [Timers -> Object], objects' = objs, timers' \subseteq Timers,
         stack' = Pop, now' = now, panic' = FALSE,
         \A t \in Timers : /\ Kept(objects[t], objs[t])
                           /\ Fits(t, objs[t], t \in timers', Copies(t), Handling(t), 0, now)
  PROVE  TimersInv'
<1>1. /\ stack \in Seq(Frame) /\ stack' \in Seq(Frame) /\ Len(stack) \in Nat \ {0}
      /\ DOMAIN stack' = 1 .. Len(stack) - 1 /\ DOMAIN stack = 1 .. Len(stack)
      /\ stack' = Front(stack)
      /\ \A i \in 1 .. Len(stack) - 1 : stack'[i] = stack[i]
  <2>1. stack \in Seq(Frame)
    BY DEF TimersInv
  <2>2. stack' = Front(stack)
    BY DEF Pop, Front
  <2> QED BY <2>1, <2>2, FrontLast
<1>2. \A i \in DOMAIN stack' : i \in DOMAIN stack /\ stack'[i] = stack[i]
  BY <1>1
<1>3. \A i \in DOMAIN stack' : FrameFits(stack'[i])
  BY <1>2 DEF TimersInv
<1>4. ASSUME NEW i \in DOMAIN stack', stack'[i].kind = "fire"
      PROVE  objects'[stack'[i].cur].held = TRUE /\ objects'[stack'[i].cur].run_loop = TRUE
  <2>1. i \in DOMAIN stack /\ stack'[i] = stack[i]
    BY <1>2
  <2>2. /\ stack[i].cur \in Timers
        /\ objects[stack[i].cur].held = TRUE /\ objects[stack[i].cur].run_loop = TRUE
    BY <1>4, <2>1 DEF TimersInv, FrameFits
  <2> QED BY <2>1, <2>2 DEF Kept
<1>5. ASSUME NEW t \in Timers
      PROVE  Copies(t)' = Copies(t) /\ Handling(t)' = Handling(t)
  <2>1. Copies(t)' = ListedIn(stack', t) /\ Handling(t)' = CallsIn(stack', t)
    BY DEF Copies, Handling, ListedIn, CallsIn, Calls
  <2>2. ListedIn(stack', t) \in Nat /\ CallsIn(stack', t) \in Nat
    BY <1>1, StackCounts
  <2>3. /\ ListedIn(stack', t) + Count(t \in stack[Len(stack)].todo) = ListedIn(stack, t)
        /\ CallsIn(stack', t) + Count(Calls(stack[Len(stack)], t)) = CallsIn(stack, t)
    BY <1>1, StackCounts
  <2>4. /\ ListedIn(stack', t) + Count(t \in Top.todo) = Copies(t)
        /\ CallsIn(stack', t) + Count(Calls(Top, t)) = Handling(t)
    BY <2>3, CallCounts DEF Top
  <2>5. t \notin Top.todo /\ ~Calls(Top, t)
    BY DEF Calls
  <2>6. Count(t \in Top.todo) = 0 /\ Count(Calls(Top, t)) = 0
    BY <2>5, Zenon DEF Count
  <2> QED BY <2>1, <2>2, <2>4, <2>6
<1> QED BY <1>1, <1>3, <1>4, <1>5 DEF TimersInv

\* The guest fires a timer that it holds.
LEMMA FireStep ==
  ASSUME TimersInv, Careful, NEW t \in Timers, fire(t)
  PROVE  TimersInv'
<1> DEFINE f == [kind |-> "fire", at |-> "callback", todo |-> {}, cur |-> t]
<1>1. f \in Frame /\ FrameFits(f) /\ f.todo = {} /\ f.kind = "fire" /\ f.cur = t
  BY DEF Frame, FrameFits
<1>2. objects[t].held = TRUE /\ objects[t].run_loop = TRUE
  <2>1. objects[t] \in Object
    BY TimerFacts
  <2>2. objects[t].held \in BOOLEAN /\ objects[t].run_loop \in BOOLEAN
    BY <2>1, ObjectFields
  <2> QED BY <2>2 DEF fire
<1>3. stack' = Append(stack, f) /\ UNCHANGED <<now, objects, timers, panic>>
  BY DEF fire
<1> HIDE DEF f
<1> QED BY <1>1, <1>2, <1>3, PushStep

\* The guest runs the run loop.
LEMMA RunStep ==
  ASSUME TimersInv, run_run_loop
  PROVE  TimersInv'
<1> DEFINE f == [kind |-> "loop", at |-> "top", todo |-> {}, cur |-> None]
<1>1. f \in Frame /\ FrameFits(f) /\ f.todo = {} /\ f.kind = "loop" /\ f.cur \notin Timers
  BY RunLoopAssumption DEF Frame, FrameFits
<1>2. stack' = Append(stack, f) /\ UNCHANGED <<now, objects, timers, panic>>
  BY DEF run_run_loop
<1> HIDE DEF f
<1> QED BY <1>1, <1>2, PushStep

\* A loop goes to sleep, or wakes up.
LEMMA SleepStep ==
  ASSUME TimersInv, NEW at \in {"sleep", "top"}, stack # <<>>, Top.kind = "loop",
         Top.at \in {"timers", "sleep"}, Top.todo = {}, stack' = With([Top EXCEPT !.at = at]),
         UNCHANGED <<now, objects, timers, panic>>
  PROVE  TimersInv'
<1> DEFINE f == [Top EXCEPT !.at = at]
<1>1. Top \in Frame /\ FrameFits(Top)
  BY TopFacts
<1>2. /\ f \in Frame /\ f.kind = "loop" /\ f.at = at /\ f.todo = {} /\ f.cur = Top.cur
      /\ Top.cur \notin Timers
  BY <1>1 DEF Frame, FrameFits
<1> HIDE DEF f
<1>3. FrameFits(f)
  BY <1>2 DEF FrameFits
<1>4. /\ objects \in [Timers -> Object] /\ objects' = objects /\ timers' \subseteq Timers
      /\ stack' = With(f) /\ now' = now /\ panic' = FALSE
  BY DEF TimersInv, f
<1>5. ASSUME NEW t \in Timers, NEW c \in Nat, NEW h \in Nat,
             c + Count(t \in Top.todo) = Copies(t) + Count(t \in f.todo),
             h + Count(Calls(Top, t)) = Handling(t) + Count(Calls(f, t))
      PROVE  Fits(t, objects[t], t \in timers', c, h, 0, now)
  <2>1. ~Calls(Top, t) /\ ~Calls(f, t) /\ t \notin Top.todo /\ t \notin f.todo
    BY <1>2 DEF Calls
  <2>2. /\ Count(t \in Top.todo) = 0 /\ Count(t \in f.todo) = 0
        /\ Count(Calls(Top, t)) = 0 /\ Count(Calls(f, t)) = 0
    BY <2>1, Zenon DEF Count
  <2>3. c = Copies(t) /\ h = Handling(t)
    <3>1. Copies(t) \in Nat /\ Handling(t) \in Nat
      BY TimerFacts
    <3> QED BY <1>5, <2>2, <3>1
  <2> QED BY <2>3, TimerFacts
<1>6. \A t \in Timers : Kept(objects[t], objects[t])
  BY DEF Kept
<1> QED BY <1>2, <1>3, <1>4, <1>5, <1>6, TopStep

\* A nested loop ends.
LEMMA BreakStep ==
  ASSUME TimersInv, break
  PROVE  TimersInv'
<1>1. /\ stack # <<>> /\ Top.kind = "loop" /\ Top.at = "sleep" /\ stack' = Pop
      /\ objects' = objects /\ timers' = timers /\ now' = now /\ panic' = panic
  BY DEF break, In
<1>2. Top.todo = {} /\ Top.cur \notin Timers
  BY <1>1, TopFacts DEF FrameFits
<1>3. objects \in [Timers -> Object] /\ timers' \subseteq Timers /\ panic' = FALSE
  BY <1>1 DEF TimersInv
<1>4. \A t \in Timers : /\ Kept(objects[t], objects[t])
                        /\ Fits(t, objects[t], t \in timers', Copies(t), Handling(t), 0, now)
  BY <1>1, TimerFacts DEF Kept
<1> QED BY <1>1, <1>2, <1>3, <1>4, PopStep

\* A loop copies the timers that it holds.
LEMMA CopyStep ==
  ASSUME TimersInv, copy_timers
  PROVE  TimersInv'
<1> DEFINE f == [Top EXCEPT !.at = "timers", !.todo = timers]
           objs == [t \in Timers |-> IF t \in timers THEN Retained(objects[t]) ELSE objects[t]]
<1>1. /\ stack # <<>> /\ Top.kind = "loop" /\ Top.at = "top" /\ stack' = With(f)
      /\ objects' = objs /\ timers' = timers /\ now' = now /\ panic' = panic
  BY DEF copy_timers, In
<1>2. /\ Top \in Frame /\ FrameFits(Top) /\ timers \in SUBSET Timers /\ panic' = FALSE
      /\ timers' \subseteq Timers
  BY <1>1, TopFacts DEF TimersInv
<1>3. /\ f \in Frame /\ f.kind = "loop" /\ f.at = "timers" /\ f.todo = timers
      /\ f.cur = Top.cur /\ Top.cur \notin Timers /\ Top.todo = {}
  BY <1>1, <1>2 DEF Frame, FrameFits
<1>4. \A t \in Timers : objs[t] = IF t \in timers THEN Retained(objects[t]) ELSE objects[t]
  OBVIOUS
<1>5. objs = [t \in Timers |-> objs[t]]
  OBVIOUS
<1> HIDE DEF f, objs
<1>6. FrameFits(f)
  BY <1>3 DEF FrameFits
<1>7. ASSUME NEW t \in Timers
      PROVE  /\ Kept(objects[t], objs[t])
             /\ objs[t] \in Object
             /\ t \in timers =>
                   Fits(t, objs[t], t \in timers', Copies(t) + 1, Handling(t), 0, now)
             /\ t \notin timers =>
                   Fits(t, objs[t], t \in timers', Copies(t), Handling(t), 0, now)
  <2> DEFINE o == objects[t]
             v == t \in timers
             c == Copies(t)
             h == Handling(t)
  <2>1. /\ c \in Nat /\ h \in Nat /\ Fits(t, o, v, c, h, 0, now)
        /\ o \in Object /\ o.refs \in Nat /\ (o.refs = 0 => ~v)
    BY TimerFacts
  <2>2. v \in BOOLEAN
    OBVIOUS
  <2> HIDE DEF o, v, c, h
  <2>3. CASE v
    <3>1. o.refs > 0
      BY <2>1, <2>3
    <3>2. /\ Fits(t, Retained(o), v, c, h, 0 + 1, now)
          /\ Retained(o).held = o.held /\ Retained(o).run_loop = o.run_loop
      BY <2>1, <2>2, <3>1, RetainFits
    <3>3. o.run_loop = TRUE
      BY <2>1, <2>3, ObjectFields DEF Fits
    <3>4. Fits(t, Retained(o), v, c + 1, h, 0, now)
      <4> DEFINE r == Retained(o)
      <4>1. Fits(t, r, v, c, h, 0 + 1, now) /\ r.run_loop = TRUE
        BY <3>2, <3>3
      <4> HIDE DEF r
      <4>2. r.refs = 0 + (c + 1) + 2 * h + Count(v) + Count(r.held) + Count(r.pool # None)
        <5>1. /\ r.refs = (0 + 1) + c + 2 * h + Count(v) + Count(r.held) + Count(r.pool # None)
              /\ r \in Object
          BY <4>1 DEF Fits
        <5>2. /\ Count(v) \in Nat /\ Count(r.held) \in Nat /\ Count(r.pool # None) \in Nat
          BY <2>2, <5>1, ObjectFields, Counts
        <5> QED BY <2>1, <5>1, <5>2
      <4>3. Fits(t, r, v, c + 1, h, 0, now)
        BY <4>1, <4>2 DEF Fits
      <4> QED BY <4>3 DEF r
    <3>5. Retained(o) \in Object
      BY <3>4 DEF Fits
    <3>6. objs[t] = Retained(o) /\ (t \in timers') = v
      BY <1>1, <1>4, <2>3 DEF o, v
    <3> QED BY <2>3, <3>2, <3>4, <3>5, <3>6 DEF Kept, o, v, c, h
  <2>4. CASE ~v
    <3>1. objs[t] = o /\ (t \in timers') = v
      BY <1>1, <1>4, <2>4 DEF o, v
    <3> QED BY <2>1, <2>4, <3>1 DEF Kept, o, v, c, h
  <2> QED BY <2>3, <2>4
<1>8. objs \in [Timers -> Object]
  BY <1>5, <1>7
<1>9. ASSUME NEW t \in Timers, NEW c \in Nat, NEW h \in Nat,
             c + Count(t \in Top.todo) = Copies(t) + Count(t \in f.todo),
             h + Count(Calls(Top, t)) = Handling(t) + Count(Calls(f, t))
      PROVE  Fits(t, objs[t], t \in timers', c, h, 0, now)
  <2>1. ~Calls(Top, t) /\ ~Calls(f, t) /\ t \notin Top.todo
    BY <1>3 DEF Calls
  <2>2. Count(t \in Top.todo) = 0 /\ Count(Calls(Top, t)) = 0 /\ Count(Calls(f, t)) = 0
    BY <2>1, Zenon DEF Count
  <2>3. Copies(t) \in Nat /\ Handling(t) \in Nat
    BY TimerFacts
  <2>4. CASE t \in timers
    <3>1. Count(t \in f.todo) = 1
      BY <1>3, <2>4, Zenon DEF Count
    <3>2. c = Copies(t) + 1 /\ h = Handling(t)
      BY <1>9, <2>2, <2>3, <3>1
    <3> QED BY <1>7, <2>4, <3>2
  <2>5. CASE t \notin timers
    <3>1. Count(t \in f.todo) = 0
      BY <1>3, <2>5, Zenon DEF Count
    <3>2. c = Copies(t) /\ h = Handling(t)
      BY <1>9, <2>2, <2>3, <3>1
    <3> QED BY <1>7, <2>5, <3>2
  <2> QED BY <2>4, <2>5
<1> QED BY <1>1, <1>2, <1>3, <1>6, <1>7, <1>8, <1>9, TopStep

\* A loop changes one timer, whose copy it deals with or whose call returns.
LEMMA OneHandled ==
  ASSUME TimersInv, stack # <<>>, NEW f \in Frame, FrameFits(f), f.kind = "loop", Top.kind = "loop",
         NEW u \in Timers, NEW o, objects' = [objects EXCEPT ![u] = o],
         stack' = With(f), now' = now, panic' = FALSE,
         timers' \subseteq Timers, \A t \in Timers \ {u} : t \in timers' <=> t \in timers,
         \A t \in Timers \ {u} : /\ t \in Top.todo <=> t \in f.todo
                                 /\ Calls(Top, t) <=> Calls(f, t),
         Kept(objects[u], o),
         \A c, h \in Nat :
             /\ c + Count(u \in Top.todo) = Copies(u) + Count(u \in f.todo)
             /\ h + Count(Calls(Top, u)) = Handling(u) + Count(Calls(f, u))
             => Fits(u, o, u \in timers', c, h, 0, now),
         o \in Object
  PROVE  TimersInv'
<1> DEFINE objs == [objects EXCEPT ![u] = o]
<1>1. objects \in [Timers -> Object]
  BY DEF TimersInv
<1>2. objs \in [Timers -> Object] /\ objs[u] = o /\ \A t \in Timers \ {u} : objs[t] = objects[t]
  BY <1>1
<1>3. objects' = objs
  OBVIOUS
<1> HIDE DEF objs
<1>4. \A t \in Timers : Kept(objects[t], objs[t])
  BY <1>2 DEF Kept
<1>5. ASSUME NEW t \in Timers, NEW c \in Nat, NEW h \in Nat,
             c + Count(t \in Top.todo) = Copies(t) + Count(t \in f.todo),
             h + Count(Calls(Top, t)) = Handling(t) + Count(Calls(f, t))
      PROVE  Fits(t, objs[t], t \in timers', c, h, 0, now)
  <2>1. CASE t = u
    BY <1>2, <1>5, <2>1
  <2>2. CASE t # u
    <3>1. /\ (t \in Top.todo) = (t \in f.todo) /\ Calls(Top, t) = Calls(f, t)
          /\ (t \in timers') = (t \in timers)
      BY <2>2 DEF Calls
    <3>2. Count(t \in Top.todo) = Count(t \in f.todo) /\ Count(Calls(Top, t)) = Count(Calls(f, t))
      BY <3>1
    <3>3. /\ Copies(t) \in Nat /\ Handling(t) \in Nat
          /\ Count(t \in f.todo) \in Nat /\ Count(Calls(f, t)) \in Nat
      BY TimerFacts DEF Count
    <3>4. c = Copies(t) /\ h = Handling(t)
      BY <1>5, <3>2, <3>3
    <3>5. Fits(t, objects[t], t \in timers, Copies(t), Handling(t), 0, now) /\ objs[t] = objects[t]
      BY <1>2, <2>2, TimerFacts
    <3> QED BY <3>1, <3>4, <3>5
  <2> QED BY <2>1, <2>2
<1> QED BY <1>2, <1>3, <1>4, <1>5, TopStep

\* A copy that is not due, or is being called already, is released.
LEMMA EarlyStep ==
  ASSUME TimersInv, NEW t \in Timers, handle_timer_early(t)
  PROVE  TimersInv'
<1> DEFINE f == [Top EXCEPT !.todo = @ \ {t}]
           r == Released(objects[t])
           v == t \in timers
<1>1. /\ stack # <<>> /\ Top.kind = "loop" /\ Top.at = "timers" /\ stack' = With(f)
      /\ t \in Top.todo /\ objects' = [objects EXCEPT ![t] = r]
      /\ timers' = timers /\ now' = now /\ panic' = panic
  BY DEF handle_timer_early, In
<1>2. /\ Top \in Frame /\ FrameFits(Top) /\ panic' = FALSE /\ timers' \subseteq Timers
      /\ Copies(t) > 0
  BY <1>1, TopFacts DEF TimersInv
<1>3. /\ f \in Frame /\ f.kind = "loop" /\ f.at = "timers" /\ f.todo = Top.todo \ {t}
      /\ f.cur = Top.cur /\ Top.cur \notin Timers
  BY <1>1, <1>2 DEF Frame, FrameFits
<1> HIDE DEF f
<1>4. FrameFits(f)
  BY <1>3 DEF FrameFits
<1>5. /\ Copies(t) \in Nat /\ Handling(t) \in Nat
      /\ Fits(t, objects[t], v, Copies(t), Handling(t), 0, now)
  BY TimerFacts
<1>6. v \in BOOLEAN
  OBVIOUS
<1> HIDE DEF v
<1>7. Fits(t, r, v, Copies(t) - 1, Handling(t), 0, now) /\ Kept(objects[t], r)
  BY <1>2, <1>5, <1>6, CopyFits
<1> HIDE DEF r
<1>8. ASSUME NEW c \in Nat, NEW h \in Nat,
             c + Count(t \in Top.todo) = Copies(t) + Count(t \in f.todo),
             h + Count(Calls(Top, t)) = Handling(t) + Count(Calls(f, t))
      PROVE  Fits(t, r, t \in timers', c, h, 0, now)
  <2>1. ~Calls(Top, t) /\ ~Calls(f, t) /\ t \in Top.todo /\ t \notin f.todo
    BY <1>1, <1>3 DEF Calls
  <2>2. /\ Count(t \in Top.todo) = 1 /\ Count(t \in f.todo) = 0
        /\ Count(Calls(Top, t)) = 0 /\ Count(Calls(f, t)) = 0
    BY <2>1, Zenon DEF Count
  <2>3. c = Copies(t) - 1 /\ h = Handling(t)
    BY <1>5, <1>8, <2>2
  <2>4. (t \in timers') = v
    BY <1>1 DEF v
  <2> QED BY <1>7, <2>3, <2>4
<1>9. \A u \in Timers \ {t} : u \in Top.todo <=> u \in f.todo
  BY <1>3
<1>10. \A u \in Timers \ {t} : Calls(Top, u) <=> Calls(f, u)
  BY <1>3 DEF Calls
<1>11. r \in Object
  BY <1>7 DEF Fits
<1> QED BY <1>1, <1>2, <1>3, <1>4, <1>7, <1>8, <1>9, <1>10, <1>11, OneHandled

\* A timer that is due is called.
LEMMA HandleStep ==
  ASSUME TimersInv, NEW t \in Timers, handle_timer(t)
  PROVE  TimersInv'
<1> DEFINE f == [Top EXCEPT !.at = "callback", !.todo = @ \ {t}, !.cur = t]
           o == objects[t]
           q == [Retained(o) EXCEPT !.is_running_callback = TRUE]
           r == IF t \in Repeats THEN [q EXCEPT !.due_by = new_due_by(t)]
                                 ELSE Released([q EXCEPT !.due_by = None])
           v == t \in timers
           w == t \in timers'
<1>1. /\ stack # <<>> /\ Top.kind = "loop" /\ Top.at = "timers" /\ stack' = With(f)
      /\ t \in Top.todo /\ objects' = [objects EXCEPT ![t] = r] /\ now' = now
      /\ ~o.is_running_callback /\ o.due_by # None /\ o.due_by <= now
  BY DEF handle_timer, In, Due
<1>2. /\ t \in Repeats => timers' = timers /\ panic' = panic
      /\ t \notin Repeats => timers' = timers \ {t} /\ panic' = (t \notin timers)
  BY DEF handle_timer
<1>3. /\ Top \in Frame /\ FrameFits(Top) /\ panic = FALSE /\ timers \subseteq Timers
      /\ Copies(t) > 0 /\ now \in Nat
  BY <1>1, TopFacts DEF TimersInv
<1>4. /\ f \in Frame /\ f.kind = "loop" /\ f.at = "callback" /\ f.todo = Top.todo \ {t}
      /\ f.cur = t /\ Top.cur \notin Timers
  BY <1>1, <1>3 DEF Frame, FrameFits
<1> HIDE DEF f
<1>5. FrameFits(f)
  BY <1>4 DEF FrameFits
<1>6. /\ Copies(t) \in Nat /\ Handling(t) \in Nat /\ o \in Object
      /\ Fits(t, o, v, Copies(t), Handling(t), 0, now)
  BY TimerFacts
<1>7. v \in BOOLEAN /\ w \in BOOLEAN
  OBVIOUS
<1>8. new_due_by(t) = o.due_by + Interval[t] * AdvanceBy(now - o.due_by, Interval[t])
  BY DEF new_due_by
<1> HIDE DEF v, w, o
<1>9. o.is_running_callback = FALSE
  BY <1>1, <1>6, ObjectFields
<1> DEFINE c == Copies(t)
           h == Handling(t)
<1>10. c \in Nat /\ h \in Nat /\ c > 0 /\ Fits(t, o, v, c, h, 0, now)
  BY <1>3, <1>6
<1> HIDE DEF c, h
<1>11. h = 0 /\ v
  <2>1. h = 0 /\ (o.due_by # None => v)
    BY <1>7, <1>9, <1>10, NotCalled
  <2> QED BY <1>1, <2>1
<1>12. (t \in Repeats => w) /\ (t \notin Repeats => ~w)
  BY <1>2, <1>11 DEF v, w
<1>13. Fits(t, r, w, c - 1, h + 1, 0, now) /\ Kept(o, r)
  <2>1. \/ ~w /\ r = Released([q EXCEPT !.due_by = None])
        \/ w /\ r = [q EXCEPT !.due_by = o.due_by
                        + Interval[t] * AdvanceBy(now - o.due_by, Interval[t])]
    <3> HIDE DEF q
    <3> QED BY <1>8, <1>12
  <2> HIDE DEF r
  <2>2. o.due_by # None /\ o.due_by <= now /\ now \in Nat
    BY <1>1, <1>3
  <2>3. q = [Retained(o) EXCEPT !.is_running_callback = TRUE]
    OBVIOUS
  <2> HIDE DEF q
  <2>4. Fits(t, r, w, c - 1, h + 1, 0, now)
    BY <1>7, <1>9, <1>10, <2>1, <2>2, <2>3, HandleFits
  <2>5. Kept(o, r)
    <3>1. r # Freed
      BY <1>10, <2>4 DEF Fits, Freed
    <3> QED BY <1>6, <2>1, <2>3, <3>1, HandleKeeps
  <2> QED BY <2>4, <2>5
<1> HIDE DEF r, q
<1>14. ASSUME NEW x \in Nat, NEW y \in Nat,
              x + Count(t \in Top.todo) = Copies(t) + Count(t \in f.todo),
              y + Count(Calls(Top, t)) = Handling(t) + Count(Calls(f, t))
       PROVE  Fits(t, r, t \in timers', x, y, 0, now)
  <2>1. ~Calls(Top, t) /\ Calls(f, t) /\ t \in Top.todo /\ t \notin f.todo
    BY <1>1, <1>4 DEF Calls
  <2>2. /\ Count(t \in Top.todo) = 1 /\ Count(t \in f.todo) = 0
        /\ Count(Calls(Top, t)) = 0 /\ Count(Calls(f, t)) = 1
    BY <2>1, Zenon DEF Count
  <2>3. x = c - 1 /\ y = h + 1
    BY <1>10, <1>14, <2>2 DEF c, h
  <2> QED BY <1>13, <2>3 DEF w
<1>15. \A u \in Timers \ {t} : u \in Top.todo <=> u \in f.todo
  BY <1>4
<1>16. \A u \in Timers \ {t} : Calls(Top, u) <=> Calls(f, u)
  BY <1>4 DEF Calls
<1>17. r \in Object
  BY <1>13 DEF Fits
<1>18. /\ timers' \subseteq Timers /\ \A u \in Timers \ {t} : u \in timers' <=> u \in timers
  BY <1>2, <1>3
<1>19. panic' = FALSE
  <2>1. CASE t \in Repeats
    BY <1>2, <1>3, <2>1
  <2>2. CASE t \notin Repeats
    <3>1. (t \notin timers) = FALSE
      BY <1>11 DEF v
    <3>2. panic' = (t \notin timers)
      BY <1>2, <2>2
    <3> QED BY <3>1, <3>2
  <2> QED BY <2>1, <2>2
<1>20. Kept(objects[t], r)
  BY <1>13 DEF o
<1> QED BY <1>1, <1>4, <1>5, <1>14, <1>15, <1>16, <1>17, <1>18, <1>19, <1>20, OneHandled

\* What the return of a call does to the timer: handle_timer's own reference,
\* the pool's and the copy's are released.
LEMMA ReturnFits ==
  ASSUME NEW t, NEW o, NEW valid \in BOOLEAN, NEW c \in Nat, NEW h \in Nat, NEW d \in Nat,
         NEW time, Fits(t, o, valid, c, h, 0, time), h > 0
  PROVE  LET r == Released(DrainedObject(
                     Released([o EXCEPT !.is_running_callback = FALSE]), d))
         IN  Fits(t, r, valid, c, 0, 0, time) /\ Kept(o, r)
<1> DEFINE o1 == [o EXCEPT !.is_running_callback = FALSE]
           o2 == Released(o1)
           o3 == DrainedObject(o2, d)
           o4 == Released(o3)
           z == 0
           one == 1
<1>1. o1.held = o.held /\ o1.run_loop = o.run_loop
  BY ObjectFields DEF Fits, Object
<1>2. Fits(t, o1, valid, c, z, 0 + 2, time)
  BY OwnerLeaves
<1>3. one + 1 = 0 + 2 /\ z + 1 = one
  OBVIOUS
<1>10. z \in Nat /\ one \in Nat
  OBVIOUS
<1> HIDE DEF o1, z, one
<1>4. Fits(t, o1, valid, c, z, one + 1, time)
  BY <1>2, <1>3
<1>5. /\ Fits(t, o2, valid, c, z, one, time)
      /\ o1.held = TRUE => o2.held = TRUE /\ o2.run_loop = o1.run_loop
  BY <1>4, <1>10, ReleaseFits
<1> HIDE DEF o2
<1>6. Fits(t, o3, valid, c, z, one, time) /\ Kept(o2, o3)
  <2>1. Fits(t, o3, valid, c, z, one, time)
    BY <1>5, <1>10, DrainFits
  <2>2. Kept(o2, o3)
    BY <1>5, <1>10, DrainKeeps
  <2> QED BY <2>1, <2>2
<1> HIDE DEF o3
<1>7. Fits(t, o3, valid, c, z, z + 1, time)
  BY <1>3, <1>6
<1>8. /\ Fits(t, o4, valid, c, z, z, time)
      /\ o3.held = TRUE => o4.held = TRUE /\ o4.run_loop = o3.run_loop
  BY <1>7, <1>10, ReleaseFits
<1> HIDE DEF o4
<1>9. Kept(o, o4)
  BY <1>1, <1>5, <1>6, <1>8 DEF Kept
<1> QED BY <1>8, <1>9 DEF o1, o2, o3, o4, z

\* A call of a timer by a loop returns.
LEMMA HandleReturnsStep ==
  ASSUME TimersInv, handle_timer_returns
  PROVE  TimersInv'
<1> DEFINE f == [Top EXCEPT !.at = "timers", !.cur = None]
           u == Top.cur
           d == Pool(stack)
           objs == [[t \in Timers |-> DrainedObject(objects[t], d)] EXCEPT
                      ![u] = Released(DrainedObject(
                                Released([objects[u] EXCEPT !.is_running_callback = FALSE]), d))]
<1>1. /\ stack # <<>> /\ Top.kind = "loop" /\ Top.at = "callback" /\ stack' = With(f)
      /\ timers' = timers /\ now' = now /\ panic' = ~Alive(u)
  BY DEF handle_timer_returns, In
<1>2. /\ Top \in Frame /\ FrameFits(Top) /\ timers' \subseteq Timers
      /\ u \in Timers /\ d \in Nat
  BY <1>1, TopFacts, PoolNumber DEF TimersInv, FrameFits
<1>3. Handling(u) > 0
  BY <1>1, <1>2, TopFacts DEF Calls
<1>4. objects' = objs
  <2> DEFINE o2 == Released([objects[u] EXCEPT !.is_running_callback = FALSE])
             mid == [objects EXCEPT ![u] = o2]
  <2>1. objects' = [Drained(mid, d) EXCEPT ![u] = Released(@)]
    BY DEF handle_timer_returns
  <2>2. objects \in [Timers -> Object]
    BY DEF TimersInv
  <2>3. mid[u] = o2 /\ \A t \in Timers \ {u} : mid[t] = objects[t]
    BY <1>2, <2>2
  <2> HIDE DEF mid, d
  <2>4. Drained(mid, d) = [t \in Timers |-> DrainedObject(mid[t], d)]
    BY DEF Drained, DrainedObject
  <2> HIDE DEF o2
  <2>5. objects' = [[t \in Timers |-> DrainedObject(mid[t], d)] EXCEPT
                      ![u] = Released(DrainedObject(o2, d))]
    BY <1>2, <2>1, <2>3, <2>4
  <2> DEFINE new == [[t \in Timers |-> DrainedObject(objects[t], d)] EXCEPT
                       ![u] = Released(DrainedObject(o2, d))]
  <2>6. \A t \in Timers : objects'[t] = new[t]
    BY <1>2, <2>3, <2>5
  <2>7. objects' = new
    BY <2>5, <2>6
  <2> QED BY <2>7 DEF o2
<1>5. /\ objs[u] = Released(DrainedObject(
                      Released([objects[u] EXCEPT !.is_running_callback = FALSE]), d))
      /\ \A t \in Timers \ {u} : objs[t] = DrainedObject(objects[t], d)
      /\ DOMAIN objs = Timers /\ objs = [t \in Timers |-> objs[t]]
  <2> HIDE DEF u, d
  <2> QED BY <1>2
<1>6. /\ f \in Frame /\ f.kind = "loop" /\ f.at = "timers" /\ f.todo = Top.todo
      /\ f.cur = None /\ None \notin Timers
  BY <1>1, <1>2, RunLoopAssumption DEF Frame, FrameFits
<1> HIDE DEF f, objs, d
<1>7. FrameFits(f)
  BY <1>6 DEF FrameFits
<1>8. ASSUME NEW t \in Timers, t # u
      PROVE  /\ Fits(t, objs[t], t \in timers', Copies(t), Handling(t), 0, now)
             /\ Kept(objects[t], objs[t])
  <2> DEFINE v == t \in timers
  <2>1. /\ Copies(t) \in Nat /\ Handling(t) \in Nat
        /\ Fits(t, objects[t], v, Copies(t), Handling(t), 0, now)
    BY TimerFacts
  <2>2. v \in BOOLEAN /\ objs[t] = DrainedObject(objects[t], d)
    BY <1>5, <1>8
  <2> HIDE DEF v
  <2>3. /\ Fits(t, DrainedObject(objects[t], d), v, Copies(t), Handling(t), 0, now)
        /\ Kept(objects[t], DrainedObject(objects[t], d))
    <3>1. v \in BOOLEAN /\ d \in Nat
      BY <1>2, <2>2
    <3>2. Fits(t, DrainedObject(objects[t], d), v, Copies(t), Handling(t), 0, now)
      BY <2>1, <3>1, DrainFits
    <3>3. Kept(objects[t], DrainedObject(objects[t], d))
      BY <2>1, <3>1, DrainKeeps
    <3> QED BY <3>2, <3>3
  <2> QED BY <1>1, <2>2, <2>3 DEF v
<1>9. /\ Fits(u, objs[u], u \in timers', Copies(u), 0, 0, now)
      /\ Kept(objects[u], objs[u])
  <2> DEFINE v == u \in timers
             r == Released(DrainedObject(
                     Released([objects[u] EXCEPT !.is_running_callback = FALSE]), d))
  <2>1. /\ Copies(u) \in Nat /\ Handling(u) \in Nat
        /\ Fits(u, objects[u], v, Copies(u), Handling(u), 0, now)
    BY <1>2, TimerFacts
  <2>2. v \in BOOLEAN
    OBVIOUS
  <2> HIDE DEF v, u
  <2>3. Fits(u, r, v, Copies(u), 0, 0, now) /\ Kept(objects[u], r)
    BY <1>2, <1>3, <2>1, <2>2, ReturnFits
  <2>4. objs[u] = r
    BY <1>5
  <2> HIDE DEF r
  <2> QED BY <1>1, <2>3, <2>4 DEF v
<1>10. Copies(u) \in Nat /\ Handling(u) = 1 /\ objects[u].refs > 0
  <2>1. /\ Copies(u) \in Nat /\ Handling(u) \in Nat /\ objects[u].refs \in Nat
        /\ Fits(u, objects[u], u \in timers, Copies(u), Handling(u), 0, now)
        /\ objects[u].refs = 0 => Handling(u) = 0
    BY <1>2, TimerFacts
  <2>2. Handling(u) <= 1
    BY <2>1 DEF Fits
  <2> HIDE DEF u
  <2> QED BY <1>3, <2>1, <2>2
<1>11. panic' = FALSE
  BY <1>1, <1>10 DEF Alive
<1>12. ASSUME NEW t \in Timers, NEW x \in Nat, NEW y \in Nat,
              x + Count(t \in Top.todo) = Copies(t) + Count(t \in f.todo),
              y + Count(Calls(Top, t)) = Handling(t) + Count(Calls(f, t))
       PROVE  Fits(t, objs[t], t \in timers', x, y, 0, now)
  <2>1. (t \in Top.todo) = (t \in f.todo) /\ ~Calls(f, t) /\ (Calls(Top, t) <=> t = u)
    BY <1>1, <1>6 DEF Calls
  <2>2. Count(Calls(f, t)) = 0 /\ Count(t \in f.todo) \in Nat
    BY <2>1, Zenon DEF Count
  <2>3. Count(t \in Top.todo) = Count(t \in f.todo)
    BY <2>1
  <2>4. Copies(t) \in Nat /\ Handling(t) \in Nat
    BY TimerFacts
  <2>5. x = Copies(t)
    BY <1>12, <2>2, <2>3, <2>4
  <2> HIDE DEF u
  <2>6. CASE t = u
    <3>1. Count(Calls(Top, t)) = 1
      BY <2>1, <2>6, Zenon DEF Count
    <3>2. Handling(t) = 1
      BY <1>10, <2>6
    <3>3. y = 0
      BY <1>12, <2>2, <3>1, <3>2
    <3> QED BY <1>9, <2>5, <2>6, <3>3
  <2>7. CASE t # u
    <3>1. Count(Calls(Top, t)) = 0
      BY <2>1, <2>7, Zenon DEF Count
    <3>2. y = Handling(t)
      BY <1>12, <2>2, <2>4, <3>1
    <3> QED BY <1>8, <2>5, <2>7, <3>2
  <2> QED BY <2>6, <2>7
<1>13. \A t \in Timers : Kept(objects[t], objs[t]) /\ objs[t] \in Object
  <2> HIDE DEF u
  <2>1. \A t \in Timers : t # u => objs[t] \in Object /\ Kept(objects[t], objs[t])
    BY <1>8 DEF Fits
  <2>2. objs[u] \in Object /\ Kept(objects[u], objs[u])
    BY <1>9 DEF Fits
  <2> QED BY <2>1, <2>2
<1>14. objs \in [Timers -> Object]
  BY <1>5, <1>13
<1> QED BY <1>1, <1>2, <1>4, <1>6, <1>7, <1>11, <1>12, <1>13, <1>14, TopStep

\* The release of a pool leaves every timer as its other owners need it.
LEMMA DrainedFits ==
  ASSUME TimersInv, NEW t \in Timers, NEW d \in Nat
  PROVE  /\ Fits(t, DrainedObject(objects[t], d), t \in timers, Copies(t), Handling(t), 0, now)
         /\ Kept(objects[t], DrainedObject(objects[t], d))
         /\ DrainedObject(objects[t], d) \in Object
<1> DEFINE v == t \in timers
           o == objects[t]
<1>1. /\ Copies(t) \in Nat /\ Handling(t) \in Nat
      /\ Fits(t, o, v, Copies(t), Handling(t), 0, now)
  BY TimerFacts
<1>2. v \in BOOLEAN
  OBVIOUS
<1> HIDE DEF v, o
<1>3. 0 \in Nat
  OBVIOUS
<1>4. Fits(t, DrainedObject(o, d), v, Copies(t), Handling(t), 0, now)
  BY <1>1, <1>2, <1>3, DrainFits
<1>5. Kept(o, DrainedObject(o, d))
  BY <1>1, <1>2, <1>3, DrainKeeps
<1>6. DrainedObject(o, d) \in Object
  BY <1>4 DEF Fits
<1> QED BY <1>4, <1>5, <1>6 DEF v, o

\* [timer fire] returns, and invalidates a timer that does not repeat.
LEMMA FireReturnsStep ==
  ASSUME TimersInv, fire_returns
  PROVE  TimersInv'
<1> DEFINE u == Top.cur
           d == Pool(stack)
           objs == Drained(objects, d)
<1>1. /\ stack # <<>> /\ Top.kind = "fire" /\ stack' = Pop /\ now' = now
  BY DEF fire_returns, In
<1>2. /\ FrameFits(Top) /\ u \in Timers /\ d \in Nat /\ Top.todo = {}
      /\ objects[u].held = TRUE /\ objects[u].run_loop = TRUE
      /\ panic = FALSE /\ timers \subseteq Timers
  BY <1>1, TopFacts, PoolNumber DEF TimersInv, FrameFits
<1>3. /\ u \in Repeats => objects' = objs /\ timers' = timers /\ panic' = panic
      /\ u \notin Repeats =>
            /\ objects' = Invalidated(objs, u)
            /\ timers' = IF objs[u].due_by # None THEN timers \ {u} ELSE timers
            /\ panic' = (objs[u].refs = 0 \/ RemoveFails(objs, u))
  BY DEF fire_returns
<1>4. /\ \A t \in Timers : objs[t] = DrainedObject(objects[t], d)
      /\ objs = [t \in Timers |-> objs[t]]
  <2> HIDE DEF d
  <2> QED BY DEF Drained, DrainedObject
<1> HIDE DEF u, d, objs
<1>5. \A t \in Timers :
         /\ Fits(t, objs[t], t \in timers, Copies(t), Handling(t), 0, now)
         /\ Kept(objects[t], objs[t]) /\ objs[t] \in Object
  BY <1>2, <1>4, DrainedFits
<1>6. objs \in [Timers -> Object]
  BY <1>4, <1>5
<1>7. /\ objs[u].held = TRUE /\ objs[u].run_loop = TRUE /\ objs[u] # Freed
      /\ objs[u].refs # 0
  <2>1. objs[u].held = TRUE /\ objs[u].run_loop = TRUE
    BY <1>2, <1>5 DEF Kept
  <2>2. objs[u] # Freed
    BY <2>1 DEF Freed
  <2>3. objs[u].refs = 0 => objs[u] = Freed
    BY <1>2, <1>5 DEF Fits
  <2> QED BY <2>1, <2>2, <2>3
<1>8. u \in timers <=> objs[u].due_by # None
  <2>1. Fits(u, objs[u], u \in timers, Copies(u), Handling(u), 0, now)
    BY <1>2, <1>5
  <2> QED BY <1>7, <2>1 DEF Fits
<1>9. CASE u \in Repeats \/ objs[u].due_by = None
  <2>1. objects' = objs /\ timers' = timers
    BY <1>3, <1>9 DEF Invalidated
  <2>2. panic' = FALSE
    <3>1. RemoveFails(objs, u) = FALSE \/ u \in Repeats
      BY <1>9 DEF RemoveFails
    <3>2. CASE u \in Repeats
      BY <1>2, <1>3, <3>2
    <3>3. CASE u \notin Repeats
      <4>1. panic' = (objs[u].refs = 0 \/ RemoveFails(objs, u))
        BY <1>3, <3>3
      <4> QED BY <1>7, <3>1, <3>3, <4>1
    <3> QED BY <3>2, <3>3
  <2>3. \A t \in Timers : /\ Kept(objects[t], objs[t])
                          /\ Fits(t, objs[t], t \in timers', Copies(t), Handling(t), 0, now)
    BY <1>5, <2>1
  <2>4. timers' \subseteq Timers /\ (Top.kind = "loop" => Top.cur \notin Timers)
    BY <1>1, <1>2, <2>1
  <2> QED BY <1>1, <1>2, <1>6, <2>1, <2>2, <2>3, <2>4, PopStep
<1>10. CASE u \notin Repeats /\ objs[u].due_by # None
  <2> DEFINE r == Released([objs[u] EXCEPT !.due_by = None])
             end == [objs EXCEPT ![u] = r]
  <2>1. objects' = end /\ timers' = timers \ {u}
    BY <1>3, <1>10 DEF Invalidated
  <2>2. panic' = FALSE
    <3>1. RemoveFails(objs, u) = FALSE
      BY <1>8, <1>10 DEF RemoveFails
    <3>2. panic' = (objs[u].refs = 0 \/ RemoveFails(objs, u))
      BY <1>3, <1>10
    <3> QED BY <1>7, <3>1, <3>2
  <2>3. /\ Fits(u, r, u \in timers', Copies(u), Handling(u), 0, now)
        /\ Kept(objs[u], r)
    <3> DEFINE v == u \in timers
               w == u \in timers'
               o == objs[u]
    <3>1. /\ Fits(u, o, v, Copies(u), Handling(u), 0, now)
          /\ Copies(u) \in Nat /\ Handling(u) \in Nat
      BY <1>2, <1>5, TimerFacts
    <3>2. v \in BOOLEAN /\ w \in BOOLEAN
      OBVIOUS
    <3>3. v /\ ~w
      BY <1>8, <1>10, <2>1
    <3> HIDE DEF v, w, o
    <3> DEFINE p == Released([o EXCEPT !.due_by = None])
    <3>4. Fits(u, p, w, Copies(u), Handling(u), 0, now) /\ Kept(o, p)
      BY <3>1, <3>2, <3>3, LeaveFits
    <3>5. p = r
      BY DEF o
    <3> HIDE DEF p
    <3> QED BY <3>4, <3>5 DEF o, w
  <2> HIDE DEF r
  <2>4. /\ end[u] = r /\ (\A t \in Timers \ {u} : end[t] = objs[t])
        /\ end = [t \in Timers |-> end[t]]
    BY <1>2, <1>6
  <2> HIDE DEF end
  <2>5. ASSUME NEW t \in Timers
        PROVE  /\ Kept(objects[t], end[t]) /\ end[t] \in Object
               /\ Fits(t, end[t], t \in timers', Copies(t), Handling(t), 0, now)
    <3>1. CASE t = u
      <4>1. Kept(objects[u], objs[u]) /\ Kept(objs[u], r)
        BY <1>2, <1>5, <2>3
      <4>2. Kept(objects[u], r)
        BY <4>1 DEF Kept
      <4>3. r \in Object
        BY <2>3 DEF Fits
      <4> QED BY <2>3, <2>4, <3>1, <4>2, <4>3
    <3>2. CASE t # u
      <4>1. (t \in timers') = (t \in timers)
        BY <2>1, <3>2
      <4>2. end[t] = objs[t]
        BY <2>4, <3>2
      <4> QED BY <1>5, <4>1, <4>2
    <3> QED BY <3>1, <3>2
  <2>6. end \in [Timers -> Object]
    BY <2>4, <2>5
  <2>7. timers' \subseteq Timers /\ (Top.kind = "loop" => Top.cur \notin Timers)
    BY <1>1, <1>2, <2>1
  <2> QED BY <1>1, <1>2, <2>1, <2>2, <2>5, <2>6, <2>7, PopStep
<1> QED BY <1>9, <1>10

\* Time passes.
LEMMA TickStep ==
  ASSUME TimersInv, tick
  PROVE  TimersInv'
<1>1. /\ now' = now + 1 /\ objects' = objects /\ timers' = timers /\ stack' = stack
      /\ panic' = panic /\ now \in Nat
  BY DEF tick, TimersInv
<1>2. \A t : Copies(t)' = Copies(t) /\ Handling(t)' = Handling(t)
  BY <1>1 DEF Copies, Handling
<1>3. \A t \in Timers : Fits(t, objects[t], t \in timers, Copies(t), Handling(t), 0, now + 1)
  BY <1>1, TimerFacts, TimePasses
<1>4. \A t \in Timers : Fits(t, objects[t]', t \in timers', Copies(t)', Handling(t)', 0, now')
  BY <1>1, <1>2, <1>3
<1>5. now' \in Nat
  BY <1>1
<1>6. \A i \in DOMAIN stack' : FrameFits(stack'[i])
  BY <1>1 DEF TimersInv
<1>7. \A i \in DOMAIN stack' : stack'[i].kind = "fire" =>
          objects'[stack'[i].cur].held = TRUE /\ objects'[stack'[i].cur].run_loop = TRUE
  BY <1>1 DEF TimersInv
<1> QED BY <1>1, <1>4, <1>5, <1>6, <1>7 DEF TimersInv

----------------------------------------------------------------------------
(* Timers are sound. *)

\* There are no timers and no calls at the start.
LEMMA TimersStart ==
  ASSUME RunLoopInit
  PROVE  TimersInv
<1>1. /\ now = 0 /\ objects = [t \in Timers |-> Freed] /\ timers = {} /\ stack = <<>>
      /\ panic = FALSE
  BY DEF RunLoopInit
<1>2. /\ Freed \in Object /\ Freed.refs = 0 /\ Freed.run_loop = FALSE /\ Freed.due_by = None
      /\ Freed.held = FALSE /\ Freed.pool = None /\ Freed.is_running_callback = FALSE
  BY DEF Freed, Object
<1>3. stack \in Seq(Frame) /\ DOMAIN stack = {}
  BY <1>1
<1>4. \A t : Copies(t) = 0 /\ Handling(t) = 0
  <2>1. \A t : /\ {i \in DOMAIN stack : t \in stack[i].todo} = {}
               /\ {i \in DOMAIN stack : stack[i].kind = "loop" /\ stack[i].cur = t} = {}
    BY <1>3
  <2>2. Cardinality({}) = 0
    BY FS_EmptySet
  <2> QED BY <2>1, <2>2 DEF Copies, Handling
<1>5. ASSUME NEW t \in Timers, NEW v \in BOOLEAN, ~v, NEW c \in Nat, c = 0
      PROVE  Fits(t, Freed, v, c, c, 0, now)
  <2>1. Count(v) = 0 /\ Count(Freed.held) = 0 /\ Count(Freed.pool # None) = 0
    BY <1>2, <1>5 DEF Count
  <2>2. Freed.refs = 0 + c + 2 * c + Count(v) + Count(Freed.held) + Count(Freed.pool # None)
    BY <1>2, <1>5, <2>1
  <2> QED BY <1>2, <1>5, <2>2 DEF Fits
<1>6. ASSUME NEW t \in Timers
      PROVE  Fits(t, objects[t], t \in timers, Copies(t), Handling(t), 0, now)
  <2> DEFINE v == t \in timers
  <2>1. v \in BOOLEAN /\ ~v
    BY <1>1
  <2> HIDE DEF v
  <2>2. Fits(t, Freed, v, Copies(t), Handling(t), 0, now)
    BY <1>4, <1>5, <2>1
  <2>3. objects[t] = Freed
    BY <1>1
  <2> QED BY <2>2, <2>3 DEF v
<1>7. objects \in [Timers -> Object]
  BY <1>1, <1>2
<1> QED BY <1>1, <1>3, <1>6, <1>7 DEF TimersInv

\* Every step keeps the invariant, whatever the guest's callbacks do.
LEMMA TimersSteps ==
  ASSUME Careful, TimersInv, [RunLoopNext]_rlvars
  PROVE  TimersInv'
<1>1. CASE GuestSteps
  BY <1>1, RunStep, DrainStep, CreateStep, AddStep, ScheduleStep, InvalidateStep, FireStep,
     RetainStep, ReleaseStep DEF GuestSteps
<1>2. CASE LoopSteps
  <2>1. CASE sleep
    BY <2>1, SleepStep DEF sleep, In
  <2>2. CASE next_iteration
    <3>1. stack # <<>> /\ Top.kind = "loop" /\ Top.at = "sleep"
      BY <2>2 DEF next_iteration, In
    <3>2. Top.todo = {}
      BY <3>1, TopFacts DEF FrameFits
    <3> QED BY <2>2, <3>1, <3>2, SleepStep DEF next_iteration
  <2> QED BY <1>2, <2>1, <2>2, CopyStep, HandleStep, EarlyStep DEF LoopSteps
<1>3. CASE Returns
  BY <1>3, FireReturnsStep, HandleReturnsStep, BreakStep DEF Returns
<1>4. CASE tick
  BY <1>4, TickStep
<1>5. CASE UNCHANGED rlvars
  <2>1. /\ now' = now /\ objects' = objects /\ timers' = timers /\ stack' = stack
        /\ panic' = panic
    BY <1>5 DEF rlvars
  <2>2. /\ objects \in [Timers -> Object] /\ timers' \subseteq Timers /\ panic' = FALSE
    BY <2>1 DEF TimersInv
  <2>3. \A t \in Timers : Fits(t, objects[t], t \in timers', Copies(t), Handling(t), 0, now)
    BY <2>1, TimerFacts
  <2> QED BY <2>1, <2>2, <2>3, ObjectsStep
<1> QED BY <1>1, <1>2, <1>3, <1>4, <1>5 DEF RunLoopNext

\* The owners of a timer are counted one by one.
LEMMA OwnersCounted ==
  ASSUME NEW t, objects[t] \in Object
  PROVE  Cardinality(TimerOwners(t)) = Count(t \in timers) + Count(objects[t].held = TRUE)
                                  + Count(objects[t].pool # None)
<1> DEFINE p == t \in timers
           q == objects[t].held = TRUE
           r == objects[t].pool # None
           O == TimerOwners(t)
           A == IF p THEN {"loop"} ELSE {}
           B == IF q THEN A \cup {"held"} ELSE A
           C == IF r THEN B \cup {"pool"} ELSE B
<1>1. O = C
  <2>1. \A x : x \in O <=> x \in C
    <3>1. \A x : x \in A <=> x = "loop" /\ p
      OBVIOUS
    <3> HIDE DEF A
    <3>2. \A x : x \in B <=> x \in A \/ (x = "held" /\ q)
      OBVIOUS
    <3> HIDE DEF B
    <3>3. \A x : x \in C <=> x \in B \/ (x = "pool" /\ r)
      OBVIOUS
    <3> HIDE DEF C
    <3>4. \A x : x \in O <=> (x = "loop" /\ p) \/ (x = "held" /\ q) \/ (x = "pool" /\ r)
      <4>1. objects[t].held <=> q
        BY ObjectFields
      <4> DEFINE b == objects[t].held
      <4>2. \A x : x \in O <=> /\ x \in {"loop", "held", "pool"}
                               /\ (x = "loop" /\ p) \/ (x = "held" /\ b) \/ (x = "pool" /\ r)
        BY Zenon DEF TimerOwners
      <4>3. \A x : x \in {"loop", "held", "pool"} <=> x = "loop" \/ x = "held" \/ x = "pool"
        OBVIOUS
      <4> HIDE DEF O, p, q, r
      <4> QED BY <4>1, <4>2, <4>3, Zenon
    <3> HIDE DEF O, p, q, r
    <3> QED BY <3>1, <3>2, <3>3, <3>4, Zenon
  <2> HIDE DEF O, C
  <2> QED BY <2>1
<1> HIDE DEF p, q, r
<1>2. IsFiniteSet(A) /\ Cardinality(A) = Count(p) /\ "held" \notin A /\ "pool" \notin A
  <2>1. CASE p
    BY <2>1, FS_Singleton DEF Count
  <2>2. CASE ~p
    BY <2>2, FS_EmptySet DEF Count
  <2> QED BY <2>1, <2>2
<1> HIDE DEF A
<1>3. IsFiniteSet(B) /\ Cardinality(B) = Count(p) + Count(q) /\ "pool" \notin B
  <2>1. CASE q
    <3>1. Cardinality(A \cup {"held"}) = Cardinality(A) + 1 /\ IsFiniteSet(A \cup {"held"})
      BY <1>2, FS_AddElement
    <3> QED BY <1>2, <2>1, <3>1 DEF Count
  <2>2. CASE ~q
    BY <1>2, <2>2, FS_CardinalityType DEF Count
  <2> QED BY <2>1, <2>2
<1> HIDE DEF B
<1>4. Cardinality(C) = Count(p) + Count(q) + Count(r)
  <2>1. CASE r
    <3>1. Cardinality(B \cup {"pool"}) = Cardinality(B) + 1
      BY <1>3, FS_AddElement
    <3> QED BY <1>3, <2>1, <3>1 DEF Count
  <2>2. CASE ~r
    BY <1>3, <2>2, FS_CardinalityType DEF Count
  <2> QED BY <2>1, <2>2
<1> QED BY <1>1, <1>4 DEF p, q, r

\* What the invariant says is what was to be shown.
LEMMA TimersAreSound ==
  ASSUME TimersInv
  PROVE  TimersSound
<1>1. ~panic
  BY DEF TimersInv
<1>2. ASSUME NEW t \in Timers
      PROVE  objects[t].refs = Copies(t) + 2 * Handling(t) + Cardinality(TimerOwners(t))
  <2> DEFINE v == t \in timers
             o == objects[t]
             b == o.held = TRUE
             r == o.pool # None
  <2>1. /\ Copies(t) \in Nat /\ Handling(t) \in Nat /\ o \in Object
        /\ Fits(t, o, v, Copies(t), Handling(t), 0, now)
    BY TimerFacts
  <2>2. o.refs = 0 + Copies(t) + 2 * Handling(t) + Count(v) + Count(b) + Count(r)
    <3>1. o.held = b
      BY <2>1, ObjectFields
    <3>2. Count(o.held) = Count(b)
      BY <3>1
    <3> QED BY <2>1, <3>2 DEF Fits
  <2>3. Cardinality(TimerOwners(t)) = Count(v) + Count(b) + Count(r)
    BY <2>1, OwnersCounted
  <2> HIDE DEF v, b, r, o
  <2>4. Count(v) \in Nat /\ Count(b) \in Nat /\ Count(r) \in Nat
    BY DEF Count
  <2>5. o.refs = Copies(t) + 2 * Handling(t) + Cardinality(TimerOwners(t))
    BY <2>1, <2>2, <2>3, <2>4
  <2> QED BY <2>5 DEF o
<1>3. ASSUME NEW t \in Timers
      PROVE  /\ t \in timers <=> objects[t].run_loop /\ objects[t].due_by # None
             /\ Handling(t) <= 1 /\ (objects[t].is_running_callback <=> Handling(t) = 1)
             /\ objects[t].due_by # None =>
                   /\ (objects[t].due_by - objects[t].start) % Interval[t] = 0
                   /\ objects[t].due_by <= now + Interval[t]
  BY TimerFacts DEF Fits
<1>4. TimerRefsExact
  BY <1>2 DEF TimerRefsExact
<1>5. InLoopIffValid /\ NotReentered /\ OnSchedule
  BY <1>3 DEF InLoopIffValid, NotReentered, OnSchedule
<1> QED BY <1>1, <1>4, <1>5 DEF TimersSound

\* Whatever a guest that fires only timers it holds does in callbacks, in nested
\* run loops and in other threads: timers are counted exactly, none is used
\* after it is freed, the run loop holds the valid ones and calls none while it
\* is being called, no assertion fails, and repeating timers do not drift
\* (ns_timer.rs, ns_run_loop.rs).
THEOREM TimersAlwaysSound ==
  ASSUME Careful
  PROVE  RunLoopSpec => []TimersSound
<1>1. RunLoopInit => TimersInv
  BY TimersStart
<1>2. TimersInv /\ [RunLoopNext]_rlvars => TimersInv'
  BY TimersSteps
<1>3. TimersInv => TimersSound
  BY TimersAreSound
<1> QED BY <1>1, <1>2, <1>3, PTL DEF RunLoopSpec

----------------------------------------------------------------------------
(* Animations                                                              *)

AnimRecord ==
    [kind : AnimKinds \cup {absent}, duration : Nat, started : Nat \cup {-1}, refs : Nat,
     told : Seq({"start", "stop"}), shown : Nat]
Entry == [what : {"start", "stop", "remove"}, layer : Layers, key : AnimKeys \cup {absent},
          a : Animations]
AnimTypeOK ==
    /\ anim \in [Animations -> AnimRecord] /\ caNow \in Nat
    /\ keyed \in [Layers -> [AnimKeys -> Animations \cup {absent}]]
    /\ anonymous \in [Layers -> SUBSET Animations]
    /\ report \in Seq(Entry) /\ transactions \in Seq({1, 2})

\* Where an animation is attached, and that it is attached only there.
OnLayer(a) == \E l \in Layers : a \in anonymous[l] \/ \E k \in AnimKeys : keyed[l][k] = a
OnePlace ==
    /\ \A l, m \in Layers, j, k \in AnimKeys :
         keyed[l][j] = keyed[m][k] /\ keyed[l][j] # absent => l = m /\ j = k
    /\ \A l, m \in Layers, k \in AnimKeys : keyed[l][k] \notin anonymous[m]
    /\ \A l, m \in Layers : l # m => anonymous[l] \cap anonymous[m] = {}

\* What is listed of an animation, at most once: its start, before its delegate
\* was told anything, or its end, when it is still where the list has it.
Where(r) == IF r.key = absent THEN r.a \in anonymous[r.layer] ELSE keyed[r.layer][r.key] = r.a
Listed(r, o) ==
    /\ o.kind # absent /\ o.refs > 0 /\ o.started # -1
    /\ r.what = "start" => o.told = <<>>
    /\ r.what # "start" => Where(r)
    /\ r.what = "stop" /\ o.kind.removed => o.told = <<"start">>
    /\ r.what = "remove" => o.kind.removed /\ o.told = <<"start", "stop">>
ReportInv ==
    /\ \A i \in DOMAIN report : Listed(report[i], anim[report[i].a])
    /\ \A i, j \in DOMAIN report : report[i].a = report[j].a => i = j

\* What an animation's delegate was told, and what it still will be.
Pending(a, what) == \E i \in DOMAIN report : report[i].a = a /\ report[i].what = what
ToldFits(o, on, start, remove) ==
    /\ o.kind = absent => o.refs = 0 /\ ~on
    /\ on => o.refs > 0 /\ o.duration > 0
    /\ o.started = -1 => o.told = <<>>
    /\ o.started # -1 => o.told # <<>> \/ start
    /\ o.kind # absent /\ o.kind.removed => o.told \in {<<>>, <<"start">>, <<"start", "stop">>}
    /\ o.kind # absent /\ o.kind.removed /\ on /\ o.told = <<"start", "stop">> => remove
ToldInv == \A a \in Animations :
    ToldFits(anim[a], OnLayer(a), Pending(a, "start"), Pending(a, "remove"))

\* How far an animation that does not come back was seen to be.
ShownFits(o, time) ==
    /\ o.started # -1 => o.kind # absent /\ o.kind.begin <= o.started /\ o.started <= time
    /\ o.kind # absent /\ ~o.kind.reverses /\ o.shown # 0 =>
         o.shown = 1 /\ o.started # -1 /\ 2 * (time - o.started) >= o.duration
ShownInv == \A a \in Animations : ShownFits(anim[a], caNow)

AnimationsInv ==
    /\ AnimTypeOK /\ OnePlace /\ ReportInv /\ ToldInv /\ ShownInv
    /\ ~jumped /\ ~caPanic

\* Division by a positive number, as far as Elapsed needs it.
LEMMA Halves ==
  ASSUME NEW t \in Nat, NEW d \in Nat \ {0}
  PROVE  /\ (2 * t) \div d \in Nat
         /\ (2 * t) \div d >= 1 <=> 2 * t >= d
         /\ t = 0 => (2 * t) \div d = 0
OBVIOUS

\* An animation is attached when some layer has it.
LEMMA AttachedOn ==
  ASSUME AnimTypeOK
  PROVE  /\ attached \subseteq Animations
         /\ \A x \in Animations : x \in attached <=> OnLayer(x)
         /\ \A l \in Layers : \A x \in Animations :
              x \in attachedTo(l) <=> x \in anonymous[l] \/ \E k \in AnimKeys : keyed[l][k] = x
         /\ \A l \in Layers : attachedTo(l) \subseteq Animations
<1>1. ASSUME NEW l \in Layers
      PROVE  /\ attachedTo(l) \subseteq Animations
             /\ \A x \in Animations :
                  x \in attachedTo(l) <=> x \in anonymous[l] \/ \E k \in AnimKeys : keyed[l][k] = x
  <2>1. \A k \in AnimKeys : keyed[l][k] \in Animations \cup {absent}
    BY DEF AnimTypeOK
  <2>2. anonymous[l] \subseteq Animations
    BY DEF AnimTypeOK
  <2> QED BY <2>1, <2>2, CompositionAssumption DEF attachedTo
<1>2. \A x : x \in attached <=> \E l \in Layers : x \in attachedTo(l)
  BY DEF attached
<1> QED BY <1>1, <1>2 DEF OnLayer

\* An app that only reads and draws leaves the animations alone.
LEMMA AnimationsSame ==
  ASSUME AnimationsInv, UNCHANGED <<animVars, caNow, caPanic>>, transactions' \in Seq({1, 2})
  PROVE  AnimationsInv'
<1>1. AnimTypeOK'
  BY DEF AnimationsInv, AnimTypeOK, animVars
<1>2. OnePlace' /\ ReportInv'
  <2>1. anim' = anim /\ keyed' = keyed /\ anonymous' = anonymous /\ report' = report
    BY DEF animVars
  <2>2. \A r, o : Listed(r, o)' <=> Listed(r, o)
    BY <2>1 DEF Listed, Where
  <2> QED BY <2>1, <2>2 DEF AnimationsInv, OnePlace, ReportInv
<1>3. ToldInv'
  BY DEF AnimationsInv, ToldInv, OnLayer, Pending, animVars
<1>4. ShownInv'
  BY DEF AnimationsInv, ShownInv, animVars
<1> QED BY <1>1, <1>2, <1>3, <1>4 DEF AnimationsInv, animVars

\* Transactions.
LEMMA TransactionsKeep ==
  ASSUME AnimationsInv, Begin \/ SetAnimationDuration \/ Commit
  PROVE  AnimationsInv'
<1>1. transactions \in Seq({1, 2})
  BY DEF AnimationsInv, AnimTypeOK
<1>2. CASE Begin
  <2>1. transactions' = Append(transactions, 1)
    BY <1>2 DEF Begin
  <2>2. transactions' \in Seq({1, 2})
    BY <1>1, <2>1, AppendProperties
  <2> QED BY <1>2, <2>2, AnimationsSame DEF Begin
<1>3. CASE SetAnimationDuration
  <2>1. transactions' = [transactions EXCEPT ![Len(transactions)] = 2]
    BY <1>3 DEF SetAnimationDuration
  <2>2. transactions' \in Seq({1, 2})
    <3>1. transactions # <<>>
      BY <1>3 DEF SetAnimationDuration
    <3> QED BY <1>1, <2>1, <3>1, TopReplaced
  <2> QED BY <1>3, <2>2, AnimationsSame DEF SetAnimationDuration
<1>4. CASE Commit
  <2>1. transactions # <<>> /\ transactions' = Front(transactions)
    BY <1>4 DEF Commit
  <2>2. transactions' \in Seq({1, 2})
    BY <1>1, <2>1, FrontLast
  <2> QED BY <1>4, <2>2, AnimationsSame DEF Commit
<1> QED BY <1>2, <1>3, <1>4

\* A new animation.
LEMMA MakeAnimationKeeps ==
  ASSUME AnimationsInv, MakeAnimation
  PROVE  AnimationsInv'
<1>1. PICK a \in Animations, k \in AnimKinds :
        /\ anim[a].kind = absent
        /\ anim' = [anim EXCEPT ![a] = [unmade EXCEPT !.kind = k, !.duration = k.duration, !.refs = 1]]
        /\ UNCHANGED <<keyed, anonymous, report, calling, jumped, transactions, caNow, caPanic>>
  BY DEF MakeAnimation
<1> DEFINE o == [unmade EXCEPT !.kind = k, !.duration = k.duration, !.refs = 1]
<1>2. /\ o \in AnimRecord /\ o.kind = k /\ o.started = -1 /\ o.refs = 1 /\ o.told = <<>> /\ o.shown = 0
      /\ k # absent
  <2>1. k.duration \in Nat /\ k # absent
    BY CompositionAssumption
  <2>2. <<>> \in Seq({"start", "stop"})
    OBVIOUS
  <2> QED BY <2>1, <2>2 DEF unmade, AnimRecord
<1> HIDE DEF o
<1>3. anim \in [Animations -> AnimRecord] /\ report \in Seq(Entry)
  BY DEF AnimationsInv, AnimTypeOK
<1>4. anim' \in [Animations -> AnimRecord] /\ anim'[a] = o /\ \A x \in Animations : x # a => anim'[x] = anim[x]
  BY <1>1, <1>2, <1>3 DEF o
<1>5. AnimTypeOK'
  BY <1>1, <1>4 DEF AnimationsInv, AnimTypeOK
<1>6. OnePlace'
  BY <1>1 DEF AnimationsInv, OnePlace
<1>7. \A i \in DOMAIN report : report[i].a \in Animations /\ report[i].a # a
  <2>1. \A i \in DOMAIN report : report[i] \in Entry
    BY <1>3
  <2>2. \A r \in Entry : r.a \in Animations
    BY DEF Entry
  <2>3. \A i \in DOMAIN report : anim[report[i].a].kind # absent
    BY DEF AnimationsInv, ReportInv, Listed
  <2> QED BY <1>1, <2>1, <2>2, <2>3
<1>8. ReportInv'
  BY <1>1, <1>4, <1>7 DEF AnimationsInv, ReportInv, Listed, Where
<1>9. ToldInv'
  <2>1. \A x : (OnLayer(x)' <=> OnLayer(x)) /\ \A w : Pending(x, w)' <=> Pending(x, w)
    BY <1>1 DEF OnLayer, Pending
  <2>2. ~OnLayer(a)
    BY <1>1 DEF AnimationsInv, ToldInv, ToldFits
  <2>3. \A x \in Animations : ToldFits(anim[x], OnLayer(x), Pending(x, "start"), Pending(x, "remove"))
    BY DEF AnimationsInv, ToldInv
  <2>4. ToldFits(o, FALSE, Pending(a, "start"), Pending(a, "remove"))
    BY <1>2 DEF ToldFits
  <2>5. ASSUME NEW x \in Animations
        PROVE  ToldFits(anim'[x], OnLayer(x)', Pending(x, "start")', Pending(x, "remove")')
    <3>1. CASE x = a
      BY <3>1, <1>2, <1>4, <2>1, <2>2 DEF ToldFits
    <3>2. CASE x # a
      BY <3>2, <1>4, <2>1, <2>3 DEF ToldFits
    <3> QED BY <3>1, <3>2
  <2> QED BY <2>5 DEF ToldInv
<1>10. ShownInv'
  BY <1>1, <1>2, <1>4 DEF AnimationsInv, ShownInv, ShownFits
<1> QED BY <1>1, <1>5, <1>6, <1>8, <1>9, <1>10 DEF AnimationsInv

\* What the invariant says of an entry of the list.
LEMMA Entries ==
  ASSUME AnimationsInv
  PROVE  \A i \in DOMAIN report :
           /\ report[i] \in Entry /\ report[i].a \in Animations /\ report[i].layer \in Layers
           /\ report[i].key \in AnimKeys \cup {absent}
           /\ Listed(report[i], anim[report[i].a])
<1>1. \A i \in DOMAIN report : report[i] \in Entry
  BY DEF AnimationsInv, AnimTypeOK
<1>2. \A r \in Entry : r.a \in Animations /\ r.layer \in Layers /\ r.key \in AnimKeys \cup {absent}
  BY DEF Entry
<1> QED BY <1>1, <1>2 DEF AnimationsInv, ReportInv

\* What the invariant says of an animation.
LEMMA AnAnimation ==
  ASSUME AnimationsInv, NEW a \in Animations
  PROVE  /\ anim \in [Animations -> AnimRecord] /\ anim[a] \in AnimRecord
         /\ ToldFits(anim[a], OnLayer(a), Pending(a, "start"), Pending(a, "remove"))
         /\ ShownFits(anim[a], caNow)
         /\ a \in attached <=> OnLayer(a)
BY AttachedOn DEF AnimationsInv, AnimTypeOK, ToldInv, ShownInv

\* An animation is attached; the one that had its key stays, retained.
LEMMA AddAnimationKeeps ==
  ASSUME AnimationsInv, AddAnimation, CaCareful = {"zero_duration", "listed"}
  PROVE  AnimationsInv'
<1> DEFINE zero(a) == anim[a].duration = 0
<1>1. PICK a \in Animations, l \in Layers, key \in AnimKeys \cup {absent} :
        /\ anim[a].refs \in 1 .. MaxAnimRefs - 1 /\ anim[a].started = -1 /\ a \notin attached
        /\ key # absent => Unlisted(l, key)
        /\ ~zero(a) \/ transactions # <<>>
        /\ caPanic' = (zero(a) /\ transactions = <<>>)
        /\ anim' = [anim EXCEPT ![a].refs = @ + 1,
                       ![a].duration = IF zero(a) /\ transactions # <<>> THEN Last(transactions) ELSE @]
        /\ keyed' = IF key = absent THEN keyed ELSE [keyed EXCEPT ![l][key] = a]
        /\ anonymous' = IF key = absent THEN [anonymous EXCEPT ![l] = @ \cup {a}] ELSE anonymous
        /\ UNCHANGED <<report, calling, jumped, transactions, caNow>>
  BY DEF AddAnimation
<1> DEFINE o == anim[a]
           d == IF zero(a) /\ transactions # <<>> THEN Last(transactions) ELSE o.duration
           p == anim'[a]
<1>2. /\ o \in AnimRecord /\ o.refs \in Nat \ {0} /\ o.started = -1 /\ ~OnLayer(a)
      /\ ToldFits(o, FALSE, Pending(a, "start"), Pending(a, "remove")) /\ ShownFits(o, caNow)
      /\ anim \in [Animations -> AnimRecord]
  <2>1. o.refs \in Nat \ {0}
    BY <1>1, AnAnimation DEF AnimRecord
  <2>2. OnLayer(a) = FALSE
    BY <1>1, AnAnimation DEF OnLayer
  <2> QED BY <1>1, <2>1, <2>2, AnAnimation
<1>3. d \in Nat \ {0}
  <2>1. CASE zero(a)
    <3>1. transactions \in Seq({1, 2}) /\ transactions # <<>>
      BY <1>1, <2>1 DEF AnimationsInv, AnimTypeOK
    <3>2. Last(transactions) \in {1, 2}
      BY <3>1, FrontLast
    <3> QED BY <2>1, <3>1, <3>2
  <2>2. CASE ~zero(a)
    BY <1>2, <2>2 DEF AnimRecord
  <2> QED BY <2>1, <2>2
<1>4. /\ anim' \in [Animations -> AnimRecord] /\ \A x \in Animations : x # a => anim'[x] = anim[x]
      /\ p.kind = o.kind /\ p.started = o.started /\ p.told = o.told /\ p.shown = o.shown
      /\ p.refs = o.refs + 1 /\ p.duration = d
  <2>1. PICK b \in AnimRecord, n \in Nat, e \in Nat : b = o /\ n = o.refs + 1 /\ e = d
    <3>1. o.refs + 1 \in Nat /\ d \in Nat
      BY <1>2, <1>3
    <3> QED BY <1>2, <3>1
  <2>2. PICK q : q = [b EXCEPT !.refs = n, !.duration = e]
    OBVIOUS
  <2>3. anim' = [anim EXCEPT ![a] = q]
    BY <1>1, <1>2, <2>1, <2>2
  <2>4. /\ q \in AnimRecord /\ q.kind = b.kind /\ q.started = b.started /\ q.told = b.told
        /\ q.shown = b.shown /\ q.refs = n /\ q.duration = e
    <3>1. b \in AnimRecord /\ n \in Nat /\ e \in Nat
      BY <2>1
    <3> QED BY <2>2, <3>1 DEF AnimRecord
  <2> HIDE DEF d
  <2> QED BY <1>2, <2>1, <2>3, <2>4
<1> HIDE DEF d, p
<1>5. /\ keyed \in [Layers -> [AnimKeys -> Animations \cup {absent}]]
      /\ anonymous \in [Layers -> SUBSET Animations]
  BY DEF AnimationsInv, AnimTypeOK
<1>6. /\ keyed' \in [Layers -> [AnimKeys -> Animations \cup {absent}]]
      /\ anonymous' \in [Layers -> SUBSET Animations]
      /\ \A m \in Layers, k \in AnimKeys : keyed'[m][k] = IF m = l /\ k = key THEN a ELSE keyed[m][k]
      /\ \A m \in Layers : anonymous'[m] = IF m = l /\ key = absent THEN anonymous[m] \cup {a} ELSE anonymous[m]
  <2>1. absent \notin AnimKeys
    BY CompositionAssumption
  <2>2. CASE key = absent
    BY <1>1, <1>5, <2>1, <2>2
  <2>3. CASE key # absent
    BY <1>1, <1>5, <2>1, <2>3
  <2> QED BY <2>2, <2>3
<1>7. \A m \in Layers : a \notin anonymous[m] /\ \A k \in AnimKeys : keyed[m][k] # a
  BY <1>2 DEF OnLayer
<1>8. \A i \in DOMAIN report : report[i].a # a
  BY <1>1, Entries DEF Listed
<1>9. AnimTypeOK'
  BY <1>1, <1>4, <1>6 DEF AnimationsInv, AnimTypeOK
<1>10. OnePlace'
  <2>1. OnePlace /\ a # absent /\ absent \notin AnimKeys
    BY CompositionAssumption DEF AnimationsInv
  <2>2. \A m, n \in Layers, j, k \in AnimKeys :
           keyed'[m][j] = keyed'[n][k] /\ keyed'[m][j] # absent => m = n /\ j = k
    BY <1>6, <1>7, <2>1 DEF OnePlace
  <2>3. \A m, n \in Layers, k \in AnimKeys : keyed'[m][k] \notin anonymous'[n]
    <3>1. CASE key = absent
      BY <1>6, <1>7, <2>1, <3>1 DEF OnePlace
    <3>2. CASE key # absent
      BY <1>6, <1>7, <2>1, <3>2 DEF OnePlace
    <3> QED BY <3>1, <3>2
  <2>4. \A m, n \in Layers : m # n => anonymous'[m] \cap anonymous'[n] = {}
    BY <1>6, <1>7, <2>1 DEF OnePlace
  <2> QED BY <2>2, <2>3, <2>4 DEF OnePlace
<1>11. ReportInv'
  <2>1. ASSUME NEW i \in DOMAIN report
        PROVE  Listed(report[i], anim[report[i].a])'
    <3> DEFINE r == report[i]
    <3>1. /\ r.a \in Animations /\ r.layer \in Layers /\ r.key \in AnimKeys \cup {absent}
          /\ Listed(r, anim[r.a]) /\ r.a # a
      BY <1>8, Entries
    <3>2. r' = r /\ anim'[r.a] = anim[r.a]
      BY <1>1, <1>4, <3>1
    <3>3. Where(r) => Where(r)'
      <4>1. CASE r.key = absent
        BY <1>6, <3>1, <3>2, <4>1 DEF Where
      <4>2. CASE r.key # absent
        <5>1. key # absent => r.layer # l \/ r.key # key
          BY <1>1 DEF Unlisted
        <5>2. r.layer # l \/ r.key # key
          BY <4>2, <5>1
        <5>3. keyed'[r.layer][r.key] = keyed[r.layer][r.key]
          BY <1>6, <3>1, <4>2, <5>2
        <5> QED BY <3>2, <4>2, <5>3 DEF Where
      <4> QED BY <4>1, <4>2
    <3> HIDE DEF r
    <3> QED BY <3>1, <3>2, <3>3 DEF Listed, r
  <2> QED BY <1>1, <2>1 DEF AnimationsInv, ReportInv
<1>12. ToldInv'
  <2>1. ASSUME NEW x \in Animations
        PROVE  ToldFits(anim'[x], OnLayer(x)', Pending(x, "start")', Pending(x, "remove")')
    <3>1. \A w : Pending(x, w)' <=> Pending(x, w)
      BY <1>1 DEF Pending
    <3>2. CASE x = a
      <4>1. p.refs > 0 /\ p.kind # absent /\ p.duration > 0
        BY <1>2, <1>3, <1>4 DEF ToldFits
      <4>2. p.told = <<>> /\ p.started = -1 /\ <<>> # <<"start", "stop">>
        BY <1>2, <1>4 DEF ToldFits
      <4>3. anim'[x] = p
        BY <3>2 DEF p
      <4> QED BY <4>1, <4>2, <4>3 DEF ToldFits
    <3>3. CASE x # a
      <4>1. OnLayer(x)' => OnLayer(x)
        BY <1>6, <3>3 DEF OnLayer
      <4> QED BY <1>4, <3>1, <3>3, <4>1, AnAnimation DEF ToldFits
    <3> QED BY <3>2, <3>3
  <2> QED BY <2>1 DEF ToldInv
<1>13. ShownInv'
  <2>1. ASSUME NEW x \in Animations PROVE ShownFits(anim'[x], caNow)
    <3>1. CASE x = a
      BY <1>2, <1>4, <3>1 DEF ShownFits, p
    <3>2. CASE x # a
      BY <1>4, <3>2, AnAnimation
    <3> QED BY <3>1, <3>2
  <2> QED BY <1>1, <2>1 DEF ShownInv
<1>14. caPanic' = FALSE
  BY <1>1
<1> QED BY <1>1, <1>9, <1>10, <1>11, <1>12, <1>13, <1>14 DEF AnimationsInv

\* An animation is let go of, at one key of one layer or, without a key, from
\* one layer; it is nowhere else, and nothing in the list is about it.
LEMMA Detached ==
  ASSUME AnimationsInv, NEW a \in Animations, NEW l \in Layers, NEW key \in AnimKeys \cup {absent},
         IF key = absent THEN a \in anonymous[l] ELSE keyed[l][key] = a,
         anim' = letGo(anim, a),
         keyed' = IF key = absent THEN keyed ELSE [keyed EXCEPT ![l][key] = absent],
         anonymous' = IF key = absent THEN [anonymous EXCEPT ![l] = @ \ {a}] ELSE anonymous
  PROVE  /\ anim' \in [Animations -> AnimRecord]
         /\ \A x \in Animations : x # a => anim'[x] = anim[x]
         /\ keyed' \in [Layers -> [AnimKeys -> Animations \cup {absent}]]
         /\ anonymous' \in [Layers -> SUBSET Animations]
         /\ OnePlace' /\ ~OnLayer(a)' /\ \A x \in Animations : OnLayer(x)' => OnLayer(x)
         /\ \A r \in Entry : r.a # a /\ Where(r) => Where(r)'
         /\ \A start, remove : ToldFits(anim'[a], FALSE, start, remove) <=> ToldFits(anim[a], FALSE, start, remove)
         /\ ShownFits(anim'[a], caNow)
         /\ anim[a].kind # absent /\ anim[a].refs > 0
<1> DEFINE o == anim[a]
<1>1. OnLayer(a)
  BY DEF OnLayer
<1>2. /\ anim \in [Animations -> AnimRecord] /\ o \in AnimRecord /\ o.refs \in Nat \ {0} /\ o.kind # absent
      /\ ShownFits(o, caNow)
  <2>1. o.refs \in Nat
    BY AnAnimation DEF AnimRecord
  <2> QED BY <1>1, <2>1, AnAnimation DEF ToldFits
<1>3. PICK b \in AnimRecord, n \in Nat : b = o /\ n = o.refs - 1
  BY <1>2
<1>4. PICK q : q = [b EXCEPT !.refs = n]
  OBVIOUS
<1>5. anim' = [anim EXCEPT ![a] = q]
  BY <1>2, <1>3, <1>4 DEF letGo
<1>6. /\ q \in AnimRecord /\ q.kind = b.kind /\ q.started = b.started /\ q.told = b.told
      /\ q.shown = b.shown /\ q.refs = n /\ q.duration = b.duration
  <2>1. b \in AnimRecord /\ n \in Nat
    BY <1>3
  <2> QED BY <1>4, <2>1 DEF AnimRecord
<1>7. /\ anim' \in [Animations -> AnimRecord] /\ anim'[a] = q
      /\ \A x \in Animations : x # a => anim'[x] = anim[x]
  BY <1>2, <1>5, <1>6
<1>8. /\ keyed \in [Layers -> [AnimKeys -> Animations \cup {absent}]]
      /\ anonymous \in [Layers -> SUBSET Animations] /\ OnePlace
      /\ absent \notin AnimKeys /\ absent \notin Animations
  BY CompositionAssumption DEF AnimationsInv, AnimTypeOK
<1>9. /\ keyed' \in [Layers -> [AnimKeys -> Animations \cup {absent}]]
      /\ anonymous' \in [Layers -> SUBSET Animations]
      /\ \A m \in Layers, k \in AnimKeys : keyed'[m][k] = IF m = l /\ k = key THEN absent ELSE keyed[m][k]
      /\ \A m \in Layers : anonymous'[m] = IF m = l /\ key = absent THEN anonymous[m] \ {a} ELSE anonymous[m]
  <2>1. CASE key = absent
    BY <1>8, <2>1
  <2>2. CASE key # absent
    BY <1>8, <2>2
  <2> QED BY <2>1, <2>2
<1>10. OnePlace'
  <2>1. \A m, n1 \in Layers, j, k \in AnimKeys :
          keyed'[m][j] = keyed'[n1][k] /\ keyed'[m][j] # absent => m = n1 /\ j = k
    BY <1>8, <1>9 DEF OnePlace
  <2>2. \A m, n1 \in Layers, k \in AnimKeys : keyed'[m][k] \notin anonymous'[n1]
    BY <1>8, <1>9 DEF OnePlace
  <2>3. \A m, n1 \in Layers : m # n1 => anonymous'[m] \cap anonymous'[n1] = {}
    BY <1>8, <1>9 DEF OnePlace
  <2> QED BY <2>1, <2>2, <2>3 DEF OnePlace
<1>11. ~OnLayer(a)'
  <2>1. ASSUME NEW m \in Layers PROVE a \notin anonymous'[m] /\ \A k \in AnimKeys : keyed'[m][k] # a
    <3>1. CASE key = absent
      BY <1>8, <1>9, <3>1 DEF OnePlace
    <3>2. CASE key # absent
      BY <1>8, <1>9, <3>2 DEF OnePlace
    <3> QED BY <3>1, <3>2
  <2> QED BY <2>1 DEF OnLayer
<1>12. ASSUME NEW x \in Animations PROVE OnLayer(x)' => OnLayer(x)
  BY <1>8, <1>9 DEF OnLayer
<1>13. ASSUME NEW r \in Entry, r.a # a, Where(r) PROVE Where(r)'
  <2>1. r.layer \in Layers /\ r.key \in AnimKeys \cup {absent} /\ r.a \in Animations
    BY DEF Entry
  <2>2. CASE r.key = absent
    BY <1>9, <1>13, <2>1, <2>2 DEF Where
  <2>3. CASE r.key # absent
    <3>1. keyed[r.layer][r.key] = r.a
      BY <1>13, <2>3 DEF Where
    <3>2. ~(r.layer = l /\ r.key = key)
      BY <1>13, <2>3, <3>1
    <3>3. keyed'[r.layer][r.key] = r.a
      BY <1>9, <2>1, <2>3, <3>1, <3>2
    <3> QED BY <2>3, <3>3 DEF Where
  <2> QED BY <2>2, <2>3
<1>14. \A start, remove : ToldFits(q, FALSE, start, remove) <=> ToldFits(o, FALSE, start, remove)
  <2>1. b.kind # absent /\ b = o
    BY <1>2, <1>3
  <2> HIDE DEF o
  <2> QED BY <1>6, <2>1 DEF ToldFits
<1>15. ShownFits(q, caNow)
  BY <1>2, <1>3, <1>6 DEF ShownFits
<1>16. /\ \A start, remove : ToldFits(anim'[a], FALSE, start, remove) <=> ToldFits(anim[a], FALSE, start, remove)
       /\ ShownFits(anim'[a], caNow)
  BY <1>7, <1>14, <1>15, Zenon
<1>17. anim[a].kind # absent /\ anim[a].refs > 0
  BY <1>2
<1> HIDE DEF o
<1> QED BY <1>7, <1>9, <1>10, <1>11, <1>12, <1>13, <1>16, <1>17, Zenon

\* removeAnimationForKey:.
LEMMA RemoveAnimationKeeps ==
  ASSUME AnimationsInv, RemoveAnimation, CaCareful = {"zero_duration", "listed"}
  PROVE  AnimationsInv'
<1>1. PICK l \in Layers, key \in AnimKeys :
        /\ keyed[l][key] # absent
        /\ \A i \in DOMAIN report : report[i].a # keyed[l][key]
        /\ anim' = letGo(anim, keyed[l][key])
        /\ keyed' = [keyed EXCEPT ![l][key] = absent]
        /\ UNCHANGED <<anonymous, report, calling, jumped, transactions, caNow, caPanic>>
  BY DEF RemoveAnimation
<1>2. PICK a \in Animations : a = keyed[l][key]
  BY <1>1 DEF AnimationsInv, AnimTypeOK
<1>3. key # absent /\ key \in AnimKeys \cup {absent}
  BY CompositionAssumption
<1>4. /\ anim' \in [Animations -> AnimRecord]
      /\ \A x \in Animations : x # a => anim'[x] = anim[x]
      /\ keyed' \in [Layers -> [AnimKeys -> Animations \cup {absent}]]
      /\ anonymous' \in [Layers -> SUBSET Animations]
      /\ OnePlace' /\ ~OnLayer(a)' /\ \A x \in Animations : OnLayer(x)' => OnLayer(x)
      /\ \A r \in Entry : r.a # a /\ Where(r) => Where(r)'
      /\ \A start, remove : ToldFits(anim'[a], FALSE, start, remove) <=> ToldFits(anim[a], FALSE, start, remove)
      /\ ShownFits(anim'[a], caNow)
      /\ anim[a].kind # absent
  <2>1. /\ IF key = absent THEN a \in anonymous[l] ELSE keyed[l][key] = a
        /\ anim' = letGo(anim, a)
        /\ keyed' = IF key = absent THEN keyed ELSE [keyed EXCEPT ![l][key] = absent]
        /\ anonymous' = IF key = absent THEN [anonymous EXCEPT ![l] = @ \ {a}] ELSE anonymous
    BY <1>1, <1>2, <1>3
  <2> QED BY <1>3, <2>1, Detached
<1>5. AnimTypeOK'
  BY <1>1, <1>4 DEF AnimationsInv, AnimTypeOK
<1>6. ReportInv'
  <2>1. ASSUME NEW i \in DOMAIN report PROVE Listed(report[i], anim[report[i].a])'
    <3>1. /\ report[i] \in Entry /\ report[i].a \in Animations /\ report[i].a # a
          /\ Listed(report[i], anim[report[i].a])
      BY <1>1, <1>2, Entries
    <3>2. report' = report /\ anim'[report[i].a] = anim[report[i].a]
      BY <1>1, <1>4, <3>1
    <3>3. Where(report[i]) => Where(report[i])'
      BY <1>4, <3>1, <3>2 DEF Where
    <3> QED BY <3>1, <3>2, <3>3 DEF Listed
  <2> QED BY <1>1, <2>1 DEF AnimationsInv, ReportInv
<1>7. ToldInv'
  <2>1. ASSUME NEW x \in Animations
        PROVE  ToldFits(anim'[x], OnLayer(x)', Pending(x, "start")', Pending(x, "remove")')
    <3>1. \A w : Pending(x, w)' <=> Pending(x, w)
      BY <1>1 DEF Pending
    <3>2. CASE x = a
      <4>1. ToldFits(anim[x], FALSE, Pending(x, "start"), Pending(x, "remove"))
        BY AnAnimation DEF ToldFits
      <4> QED BY <1>4, <3>1, <3>2, <4>1 DEF ToldFits
    <3>3. CASE x # a
      BY <1>4, <3>1, <3>3, AnAnimation DEF ToldFits
    <3> QED BY <3>2, <3>3
  <2> QED BY <2>1 DEF ToldInv
<1>8. ShownInv'
  BY <1>1, <1>4, AnAnimation DEF ShownInv
<1> QED BY <1>1, <1>4, <1>5, <1>6, <1>7, <1>8 DEF AnimationsInv

\* The app lets go of an animation that a layer has.
LEMMA DropAnimationKeeps ==
  ASSUME AnimationsInv, DropAnimation
  PROVE  AnimationsInv'
<1>1. PICK a \in Animations :
        /\ anim[a].refs > 1 /\ a \in attached
        /\ anim' = letGo(anim, a)
        /\ UNCHANGED <<keyed, anonymous, report, calling, jumped, transactions, caNow, caPanic>>
  BY DEF DropAnimation
<1> DEFINE o == anim[a]
<1>2. anim \in [Animations -> AnimRecord] /\ o \in AnimRecord /\ o.refs \in Nat /\ o.refs > 1
  BY <1>1, AnAnimation DEF AnimRecord
<1>3. PICK b \in AnimRecord, n \in Nat : b = o /\ n = o.refs - 1 /\ n > 0
  BY <1>2
<1>4. PICK q : q = [b EXCEPT !.refs = n]
  OBVIOUS
<1>5. anim' = [anim EXCEPT ![a] = q]
  BY <1>1, <1>2, <1>3, <1>4 DEF letGo
<1>6. /\ q \in AnimRecord /\ q.kind = b.kind /\ q.started = b.started /\ q.told = b.told
      /\ q.shown = b.shown /\ q.refs = n /\ q.duration = b.duration
  <2>1. b \in AnimRecord /\ n \in Nat
    BY <1>3
  <2> QED BY <1>4, <2>1 DEF AnimRecord
<1>7. /\ anim' \in [Animations -> AnimRecord] /\ anim'[a] = q
      /\ \A x \in Animations : x # a => anim'[x] = anim[x]
  BY <1>2, <1>5, <1>6
<1>8. b.refs # 0 /\ b.kind # absent
  BY <1>1, <1>2, <1>3, AnAnimation DEF ToldFits
<1>9. AnimTypeOK' /\ OnePlace'
  BY <1>1, <1>7 DEF AnimationsInv, AnimTypeOK, OnePlace
<1>10. ReportInv'
  <2>1. ASSUME NEW i \in DOMAIN report PROVE Listed(report[i], anim[report[i].a])'
    <3>1. report[i].a \in Animations /\ Listed(report[i], anim[report[i].a])
      BY Entries
    <3>2. report' = report /\ (Where(report[i])' <=> Where(report[i]))
      BY <1>1 DEF Where
    <3>3. CASE report[i].a = a
      BY <1>3, <1>6, <1>7, <1>8, <3>1, <3>2, <3>3 DEF Listed
    <3>4. CASE report[i].a # a
      BY <1>7, <3>1, <3>2, <3>4 DEF Listed
    <3> QED BY <3>3, <3>4
  <2> QED BY <1>1, <2>1 DEF AnimationsInv, ReportInv
<1>11. ToldInv'
  <2>1. ASSUME NEW x \in Animations
        PROVE  ToldFits(anim'[x], OnLayer(x)', Pending(x, "start")', Pending(x, "remove")')
    <3>1. (OnLayer(x)' <=> OnLayer(x)) /\ \A w : Pending(x, w)' <=> Pending(x, w)
      BY <1>1 DEF Pending, OnLayer
    <3>2. CASE x = a
      <4>1. ToldFits(b, OnLayer(x), Pending(x, "start"), Pending(x, "remove"))
        BY <1>3, <3>2, AnAnimation
      <4>2. ToldFits(q, OnLayer(x), Pending(x, "start"), Pending(x, "remove"))
        BY <1>3, <1>6, <1>8, <4>1 DEF ToldFits
      <4> QED BY <1>7, <3>1, <3>2, <4>2 DEF ToldFits
    <3>3. CASE x # a
      BY <1>7, <3>1, <3>3, AnAnimation DEF ToldFits
    <3> QED BY <3>2, <3>3
  <2> QED BY <2>1 DEF ToldInv
<1>12. ShownInv'
  <2>1. ShownFits(q, caNow)
    BY <1>1, <1>3, <1>6, AnAnimation DEF ShownFits
  <2> QED BY <1>1, <1>7, <2>1, AnAnimation DEF ShownInv
<1> QED BY <1>1, <1>9, <1>10, <1>11, <1>12 DEF AnimationsInv

\* The list that a frame makes: the starts of the animations that begin and
\* the ends of those that end, each once.
StartsOf(r) == r.what = "start" /\ r.layer \in Layers /\ r.key = absent /\ r.a \in attachedTo(r.layer) /\ Begins(r.a)
StopsOf(r) ==
    /\ r.what = "stop" /\ r.layer \in Layers /\ r.a \in attachedTo(r.layer) /\ ~Waiting(r.a) /\ Ends(r.a)
    /\ r.key = IF \E k \in AnimKeys : keyed[r.layer][k] = r.a
               THEN CHOOSE k \in AnimKeys : keyed[r.layer][k] = r.a ELSE absent

\* What is in it, and that a start is not missing.
LEMMA ReportsAre ==
  ASSUME AnimTypeOK, NEW rep \in Reports
  PROVE  /\ rep \in Seq(Entry)
         /\ \A i \in DOMAIN rep : StartsOf(rep[i]) \/ StopsOf(rep[i])
         /\ \A i, j \in DOMAIN rep : rep[i] = rep[j] => i = j
         /\ \A l \in Layers, x \in Animations : x \in attachedTo(l) /\ Begins(x) =>
              \E i \in DOMAIN rep : rep[i].a = x /\ rep[i].what = "start"
<1> DEFINE begun == {[what |-> "start", layer |-> l, key |-> absent, a |-> a] :
                        l \in Layers, a \in {x \in attached : Begins(x)}}
           starts == {r \in begun : r.a \in attachedTo(r.layer)}
           ended(l) == {a \in attachedTo(l) : ~Waiting(a) /\ Ends(a)}
           keyOf(l, a) == IF \E k \in AnimKeys : keyed[l][k] = a
                          THEN CHOOSE k \in AnimKeys : keyed[l][k] = a ELSE absent
           stops == UNION {{[what |-> "stop", layer |-> l, key |-> keyOf(l, a), a |-> a] : a \in ended(l)}
                           : l \in Layers}
           pairs == Layers \X Animations
           f == [d \in pairs |-> [what |-> "start", layer |-> d[1], key |-> absent, a |-> d[2]]]
           g == [d \in pairs |-> [what |-> "stop", layer |-> d[1], key |-> keyOf(d[1], d[2]), a |-> d[2]]]
<1>1. PICK p \in SetToSeqs(starts), q \in SetToSeqs(stops) : rep = p \o q
  <2>1. Reports = {p \o q : p \in SetToSeqs(starts), q \in SetToSeqs(stops)}
    BY DEF Reports
  <2> HIDE DEF starts, stops
  <2> QED BY <2>1
<1>2. IsFiniteSet(pairs)
  BY CompositionAssumption, FS_Product
<1>3. ASSUME NEW l \in Layers, NEW a
      PROVE  keyOf(l, a) \in AnimKeys \cup {absent}
  OBVIOUS
<1>4. \A r \in starts : r \in Entry /\ StartsOf(r)
  <2>1. ASSUME NEW l \in Layers, NEW a \in attached, Begins(a),
               NEW r, r = [what |-> "start", layer |-> l, key |-> absent, a |-> a], r.a \in attachedTo(r.layer)
        PROVE  r \in Entry /\ StartsOf(r)
    <3>1. a \in Animations
      BY AttachedOn
    <3> QED BY <2>1, <3>1 DEF Entry, StartsOf
  <2> QED BY <2>1
<1>5. \A r \in stops : r \in Entry /\ StopsOf(r)
  <2>1. ASSUME NEW l \in Layers, NEW a \in ended(l),
               NEW r, r = [what |-> "stop", layer |-> l, key |-> keyOf(l, a), a |-> a]
        PROVE  r \in Entry /\ StopsOf(r)
    <3>1. a \in Animations /\ a \in attachedTo(l) /\ ~Waiting(a) /\ Ends(a)
      BY AttachedOn
    <3>2. r \in Entry
      BY <1>3, <2>1, <3>1 DEF Entry
    <3>3. r.key = keyOf(r.layer, r.a)
      BY <2>1
    <3> QED BY <2>1, <3>1, <3>2, <3>3 DEF StopsOf
  <2> QED BY <2>1
<1>6. IsFiniteSet(starts)
  <2> DEFINE R == {f[d] : d \in pairs}
  <2>2. IsFiniteSet(R)
    <3> HIDE DEF pairs, f
    <3> QED BY <1>2, FewValues
  <2>3. starts \subseteq R
    <3>1. ASSUME NEW l \in Layers, NEW a \in attached
          PROVE  [what |-> "start", layer |-> l, key |-> absent, a |-> a] \in R
      <4>1. <<l, a>> \in pairs
        BY AttachedOn
      <4>2. f[<<l, a>>] = [what |-> "start", layer |-> l, key |-> absent, a |-> a]
        BY <4>1
      <4> HIDE DEF f
      <4> QED BY <4>1, <4>2
    <3> HIDE DEF R
    <3> QED BY <3>1
  <2> QED BY <2>2, <2>3, FS_Subset
<1>7. IsFiniteSet(stops)
  <2> DEFINE R == {g[d] : d \in pairs}
  <2>2. IsFiniteSet(R)
    <3> HIDE DEF pairs, g
    <3> QED BY <1>2, FewValues
  <2>3. stops \subseteq R
    <3>1. ASSUME NEW l \in Layers, NEW a \in ended(l)
          PROVE  [what |-> "stop", layer |-> l, key |-> keyOf(l, a), a |-> a] \in R
      <4>1. <<l, a>> \in pairs
        BY AttachedOn
      <4>2. g[<<l, a>>] = [what |-> "stop", layer |-> l, key |-> keyOf(l, a), a |-> a]
        <5> HIDE DEF keyOf
        <5>1. \A d \in pairs : g[d] = [what |-> "stop", layer |-> d[1], key |-> keyOf(d[1], d[2]), a |-> d[2]]
          OBVIOUS
        <5> HIDE DEF g
        <5>2. <<l, a>>[1] = l /\ <<l, a>>[2] = a
          OBVIOUS
        <5> QED BY <4>1, <5>1, <5>2
      <4> HIDE DEF g, keyOf
      <4> QED BY <4>1, <4>2
    <3> HIDE DEF R, ended, keyOf
    <3> QED BY <3>1
  <2> QED BY <2>2, <2>3, FS_Subset
<1>8. starts \cap stops = {}
  BY <1>4, <1>5 DEF StartsOf, StopsOf
<1>9. ASSUME NEW l \in Layers, NEW x \in Animations, x \in attachedTo(l), Begins(x)
      PROVE  \E r \in starts : r.a = x /\ r.what = "start"
  <2>1. x \in attached
    BY <1>9 DEF attached
  <2> DEFINE r == [what |-> "start", layer |-> l, key |-> absent, a |-> x]
  <2>2. r.a = x /\ r.what = "start" /\ r.layer = l
    OBVIOUS
  <2>3. r \in begun
    BY <1>9, <2>1
  <2> HIDE DEF r, begun
  <2> QED BY <1>9, <2>2, <2>3
<1> HIDE DEF starts, stops
<1>10. /\ rep \in Seq(starts \cup stops)
       /\ \A i, j \in DOMAIN rep : rep[i] = rep[j] => i = j
       /\ \A r \in starts \cup stops : \E i \in DOMAIN rep : rep[i] = r
  <2>1. p \in SetToSeqs(starts) /\ q \in SetToSeqs(stops) /\ rep = p \o q
    BY <1>1
  <2>2. HasOnce(p \o q, starts \cup stops)
    BY <1>6, <1>7, <1>8, <2>1, EachOnceBoth, Zenon
  <2>3. HasOnce(rep, starts \cup stops)
    BY <2>1, <2>2
  <2> QED BY <2>3 DEF HasOnce
<1>11. \A i \in DOMAIN rep : rep[i] \in starts \cup stops
  BY <1>10
<1>12. rep \in Seq(Entry)
  <2>1. starts \cup stops \subseteq Entry
    BY <1>4, <1>5
  <2> QED BY <1>10, <2>1
<1>13. \A l \in Layers, x \in Animations : x \in attachedTo(l) /\ Begins(x) =>
              \E i \in DOMAIN rep : rep[i].a = x /\ rep[i].what = "start"
  BY <1>9, <1>10
<1> QED BY <1>4, <1>5, <1>10, <1>11, <1>12, <1>13

\* How far an animation is, from when it started.
LEMMA HowFar ==
  ASSUME AnimationsInv, NEW a \in Animations, OnLayer(a)
  PROVE  /\ Elapsed(a) \in {0, 1, 2}
         /\ anim[a].kind \in AnimKinds /\ anim[a].kind.begin \in Nat /\ anim[a].started \in Nat \cup {-1}
         /\ anim[a].started = -1 => Elapsed(a) = 0
         /\ anim[a].started # -1 /\ Elapsed(a) # 0 => 2 * (caNow - anim[a].started) >= anim[a].duration
         /\ anim[a].started # -1 /\ 2 * (caNow - anim[a].started) >= anim[a].duration => Elapsed(a) # 0
         /\ Begins(a) => ~Waiting(a) /\ ~Ends(a)
         /\ ~Waiting(a) /\ ~Begins(a) => anim[a].started # -1
         /\ anim[a].started # -1 => ~Waiting(a)
<1> DEFINE o == anim[a]
<1>1. /\ o \in AnimRecord /\ ToldFits(o, TRUE, Pending(a, "start"), Pending(a, "remove")) /\ ShownFits(o, caNow)
  <2>1. OnLayer(a) = TRUE
    BY DEF OnLayer
  <2> QED BY <2>1, AnAnimation
<1>2. /\ o.kind \in AnimKinds /\ o.duration \in Nat \ {0} /\ o.started \in Nat \cup {-1} /\ caNow \in Nat
  BY <1>1 DEF AnimRecord, ToldFits, AnimationsInv, AnimTypeOK
<1>3. o.kind.begin \in Nat
  BY <1>2, CompositionAssumption
<1> DEFINE t == IF caNow > StartOf(a) THEN caNow - StartOf(a) ELSE 0
           h == (2 * t) \div o.duration
<1>4. StartOf(a) \in Nat
  BY <1>2, <1>3 DEF StartOf
<1>5. t \in Nat
  BY <1>2, <1>4
<1>6. h \in Nat /\ (h >= 1 <=> 2 * t >= o.duration) /\ (t = 0 => h = 0)
  <2> HIDE DEF t
  <2>1. \A u \in Nat, d \in Nat \ {0} : /\ (2 * u) \div d \in Nat
                                        /\ (2 * u) \div d >= 1 <=> 2 * u >= d
                                        /\ u = 0 => (2 * u) \div d = 0
    BY Halves
  <2> QED BY <1>2, <1>5, <2>1
<1>7. Elapsed(a) = IF h < 2 THEN h ELSE 2
  BY DEF Elapsed
<1>8. o.started = -1 => t = 0
  BY <1>2, <1>3 DEF StartOf
<1>9. o.started # -1 => t = caNow - o.started /\ o.kind.begin <= o.started
  BY <1>1, <1>2 DEF StartOf, ShownFits
<1> HIDE DEF h, t
<1>10. Elapsed(a) \in {0, 1, 2} /\ (Elapsed(a) = 0 <=> h = 0) /\ (Elapsed(a) = 2 => h # 0)
  BY <1>6, <1>7
<1>11. o.started = -1 => Elapsed(a) = 0
  BY <1>6, <1>7, <1>8
<1>12. o.started # -1 => (Elapsed(a) # 0 <=> 2 * (caNow - o.started) >= o.duration)
  BY <1>2, <1>6, <1>9, <1>10
<1>13. Begins(a) => ~Waiting(a) /\ ~Ends(a)
  BY <1>2, <1>3, <1>11 DEF Begins, Waiting, Ends
<1>14. ~Waiting(a) /\ ~Begins(a) => o.started # -1
  BY <1>2, <1>3 DEF Begins, Waiting
<1>15. o.started # -1 => ~Waiting(a)
  BY <1>1, <1>2, <1>3, <1>9 DEF Waiting, ShownFits
<1> QED BY <1>2, <1>3, <1>10, <1>11, <1>12, <1>13, <1>14, <1>15

\* A frame.
NoneComesToItsEnd == \A k \in AnimKinds : k.reverses \/ k.fill \notin {"forwards", "both"}
\* A frame: animations begin, apply and are reported.
LEMMA RecompositeKeeps ==
  ASSUME AnimationsInv, Recomposite, NoneComesToItsEnd
  PROVE  AnimationsInv'
<1> DEFINE next1(a) == [anim[a] EXCEPT !.started = IF Begins(a) THEN caNow ELSE @,
                                       !.shown = IF Applies(a) THEN Progress(a) ELSE @]
<1>1. /\ report = <<>> /\ report' \in Reports
      /\ anim' = [a \in Animations |-> IF a \notin attached THEN anim[a] ELSE next1(a)]
      /\ jumped' = (jumped \/ \E a \in attached : /\ Applies(a) /\ ~anim[a].kind.reverses
                                                  /\ Progress(a) < anim[a].shown)
      /\ UNCHANGED <<keyed, anonymous, transactions, caNow, caPanic>>
  BY DEF Recomposite
<1>2. AnimTypeOK /\ caNow \in Nat /\ OnePlace
  BY DEF AnimationsInv, AnimTypeOK
<1>3. \A x \in Animations : \A w : Pending(x, w) = FALSE
  <2>1. report = <<>>
    BY <1>1
  <2>2. \A i \in DOMAIN <<>> : FALSE
    OBVIOUS
  <2> QED BY <2>1, <2>2 DEF Pending
\* What becomes of an animation that is attached.
<1>4. ASSUME NEW a \in Animations, OnLayer(a)
      PROVE  /\ anim'[a] \in AnimRecord
             /\ anim'[a].kind = anim[a].kind /\ anim'[a].duration = anim[a].duration
             /\ anim'[a].refs = anim[a].refs /\ anim'[a].told = anim[a].told
             /\ anim'[a].started = IF Begins(a) THEN caNow ELSE anim[a].started
             /\ anim'[a].shown = IF Applies(a) THEN Progress(a) ELSE anim[a].shown
  <2>1. a \in attached /\ anim[a] \in AnimRecord
    BY <1>4, AnAnimation
  <2>2. Progress(a) \in Nat
    <3>1. Elapsed(a) \in {0, 1, 2}
      BY <1>4, HowFar
    <3>2. Elapsed(a) % 2 \in {0, 1}
      BY <3>1
    <3> QED BY <3>2 DEF Progress
  <2>3. PICK b \in AnimRecord, s \in Nat \cup {-1}, p \in Nat :
          /\ b = anim[a] /\ s = (IF Begins(a) THEN caNow ELSE anim[a].started)
          /\ p = IF Applies(a) THEN Progress(a) ELSE anim[a].shown
    BY <1>2, <2>1, <2>2 DEF AnimRecord
  <2>4. anim'[a] = [b EXCEPT !.started = s, !.shown = p]
    BY <1>1, <2>1, <2>3
  <2>5. PICK q : q = [b EXCEPT !.started = s, !.shown = p]
    OBVIOUS
  <2>6. b \in AnimRecord /\ s \in Nat \cup {-1} /\ p \in Nat
    BY <2>3
  <2>7. /\ q \in AnimRecord /\ q.kind = b.kind /\ q.duration = b.duration
        /\ q.refs = b.refs /\ q.told = b.told /\ q.started = s /\ q.shown = p
    BY <2>5, <2>6 DEF AnimRecord
  <2>8. anim'[a] = q
    BY <2>4, <2>5, Zenon
  <2> QED BY <2>3, <2>7, <2>8
<1>5. ASSUME NEW a \in Animations, ~OnLayer(a) PROVE anim'[a] = anim[a]
  BY <1>1, <1>5, AnAnimation
<1>6. anim' \in [Animations -> AnimRecord]
  <2>1. \A a \in Animations : anim'[a] \in AnimRecord
    BY <1>4, <1>5, AnAnimation
  <2> HIDE DEF next1
  <2> QED BY <1>1, <2>1
<1>7. /\ report' \in Seq(Entry)
      /\ \A i \in DOMAIN report' : StartsOf(report'[i]) \/ StopsOf(report'[i])
      /\ \A i, j \in DOMAIN report' : report'[i] = report'[j] => i = j
      /\ \A l \in Layers, x \in Animations : x \in attachedTo(l) /\ Begins(x) =>
           \E i \in DOMAIN report' : report'[i].a = x /\ report'[i].what = "start"
  BY <1>1, <1>2, ReportsAre
<1>8. AnimTypeOK' /\ OnePlace'
  <2>1. OnePlace'
    <3>1. keyed' = keyed /\ anonymous' = anonymous
      BY <1>1
    <3> QED BY <1>2, <3>1 DEF OnePlace
  <2>2. AnimTypeOK'
    BY <1>1, <1>2, <1>6, <1>7 DEF AnimTypeOK
  <2> QED BY <2>1, <2>2
\* Who is in the list.
<1>9. \A r : StartsOf(r) \/ StopsOf(r) => r.a \in Animations /\ r.layer \in Layers /\ OnLayer(r.a)
  <2>1. \A l \in Layers : \A x : x \in attachedTo(l) => x \in Animations /\ OnLayer(x)
    BY <1>2, AttachedOn DEF attached
  <2> QED BY <2>1 DEF StartsOf, StopsOf
<1>10. ASSUME NEW r, StopsOf(r)
       PROVE  Where(r) /\ anim[r.a].started # -1 /\ ~Begins(r.a)
  <2>1. r.a \in Animations /\ r.layer \in Layers /\ OnLayer(r.a) /\ Ends(r.a) /\ ~Waiting(r.a)
    BY <1>9, <1>10 DEF StopsOf
  <2>2. ~Begins(r.a) /\ anim[r.a].started # -1
    BY <2>1, HowFar
  <2>3. CASE \E k \in AnimKeys : keyed[r.layer][k] = r.a
    <3>1. r.key \in AnimKeys /\ keyed[r.layer][r.key] = r.a
      BY <1>10, <2>3 DEF StopsOf
    <3>2. r.key # absent
      BY <3>1, CompositionAssumption
    <3> QED BY <2>2, <3>1, <3>2 DEF Where
  <2>4. CASE ~\E k \in AnimKeys : keyed[r.layer][k] = r.a
    <3>1. r.key = absent /\ r.a \in attachedTo(r.layer)
      BY <1>10, <2>4 DEF StopsOf
    <3>2. r.a \in anonymous[r.layer]
      BY <1>2, <2>1, <2>4, <3>1, AttachedOn
    <3> QED BY <2>2, <3>1, <3>2 DEF Where
  <2> QED BY <2>3, <2>4
<1>11. ASSUME NEW r \in Entry, NEW e \in Entry, r.a = e.a,
              StartsOf(r) \/ StopsOf(r), StartsOf(e) \/ StopsOf(e)
       PROVE  r = e
  <2>2. r.layer = e.layer
    <3>1. /\ r.layer \in Layers /\ e.layer \in Layers /\ r.a \in Animations
          /\ r.a \in attachedTo(r.layer) /\ r.a \in attachedTo(e.layer)
      BY <1>9, <1>11 DEF StartsOf, StopsOf
    <3>2. /\ r.a \in anonymous[r.layer] \/ \E k \in AnimKeys : keyed[r.layer][k] = r.a
          /\ r.a \in anonymous[e.layer] \/ \E k \in AnimKeys : keyed[e.layer][k] = r.a
          /\ r.a # absent
      BY <1>2, <3>1, AttachedOn, CompositionAssumption
    <3> QED BY <1>2, <3>1, <3>2 DEF OnePlace
  <2>3. CASE StartsOf(r) /\ StartsOf(e)
    BY <1>11, <2>2, <2>3 DEF StartsOf, Entry
  <2>4. CASE StopsOf(r) /\ StopsOf(e)
    <3>1. r.key = e.key
      BY <1>11, <2>2, <2>4 DEF StopsOf
    <3>2. r.what = e.what
      BY <2>4 DEF StopsOf
    <3> QED BY <1>11, <2>2, <3>1, <3>2 DEF Entry
  <2>5. CASE (StartsOf(r) /\ StopsOf(e)) \/ (StopsOf(r) /\ StartsOf(e))
    BY <1>10, <1>11, <2>5 DEF StartsOf
  <2> QED BY <1>11, <2>3, <2>4, <2>5
<1>12. ReportInv'
  <2>1. ASSUME NEW i \in DOMAIN report' PROVE Listed(report[i], anim[report[i].a])'
    <3> DEFINE r == report'[i]
               a == r.a
    <3>1. r \in Entry /\ (StartsOf(r) \/ StopsOf(r)) /\ a \in Animations /\ OnLayer(a)
      BY <1>7, <1>9
    <3>2. anim[a].kind # absent /\ anim[a].refs > 0
      BY <3>1, AnAnimation DEF ToldFits
    <3>3. CASE StartsOf(r)
      <4>1. Begins(a) /\ r.what = "start" /\ anim[a].started = -1
        BY <3>3 DEF StartsOf, Begins
      <4>2. anim[a].told = <<>>
        BY <3>1, <4>1, AnAnimation DEF ToldFits
      <4>3. anim'[a].started # -1
        BY <1>2, <1>4, <3>1, <4>1
      <4> QED BY <1>4, <3>1, <3>2, <4>1, <4>2, <4>3 DEF Listed
    <3>4. CASE StopsOf(r)
      <4>1. Where(r) /\ anim[a].started # -1 /\ ~Begins(a) /\ r.what = "stop"
        BY <1>10, <3>4 DEF StopsOf
      <4>2. Where(report[i])'
        BY <1>1, <4>1 DEF Where
      <4>3. anim[a].kind.removed => anim[a].told = <<"start">>
        BY <1>3, <3>1, <3>2, <4>1, AnAnimation DEF ToldFits
      <4> QED BY <1>4, <3>1, <3>2, <4>1, <4>2, <4>3 DEF Listed
    <3> QED BY <3>1, <3>3, <3>4
  <2>2. \A i, j \in DOMAIN report' : report'[i].a = report'[j].a => i = j
    <3>1. \A i \in DOMAIN report' : report'[i] \in Entry /\ (StartsOf(report'[i]) \/ StopsOf(report'[i]))
      BY <1>7
    <3> QED BY <1>7, <1>11, <3>1
  <2> QED BY <2>1, <2>2 DEF ReportInv
<1>13. ToldInv'
  <2>1. ASSUME NEW x \in Animations
        PROVE  ToldFits(anim'[x], OnLayer(x)', Pending(x, "start")', Pending(x, "remove")')
    <3>1. OnLayer(x)' <=> OnLayer(x)
      BY <1>1 DEF OnLayer
    <3>2. ToldFits(anim[x], OnLayer(x), FALSE, FALSE)
      BY <1>3, AnAnimation
    <3>3. CASE ~OnLayer(x)
      BY <1>5, <3>1, <3>2, <3>3 DEF ToldFits
    <3>4. CASE OnLayer(x) /\ ~Begins(x)
      BY <1>4, <3>1, <3>2, <3>4 DEF ToldFits
    <3>5. CASE OnLayer(x) /\ Begins(x)
      <4>1. Pending(x, "start")'
        <5>1. PICK l \in Layers : x \in attachedTo(l)
          BY <3>5, AnAnimation DEF attached
        <5> QED BY <1>7, <3>5, <5>1 DEF Pending
      <4>2. anim'[x].started # -1 /\ anim[x].told = <<>> /\ <<>> # <<"start", "stop">>
        BY <1>2, <1>4, <3>2, <3>5 DEF ToldFits, Begins
      <4> QED BY <1>4, <3>1, <3>2, <3>5, <4>1, <4>2 DEF ToldFits
    <3> QED BY <3>3, <3>4, <3>5
  <2> QED BY <2>1 DEF ToldInv
<1>14. ShownInv'
  <2>1. ASSUME NEW x \in Animations PROVE ShownFits(anim'[x], caNow)
    <3>1. ShownFits(anim[x], caNow)
      BY AnAnimation
    <3>2. CASE ~OnLayer(x)
      BY <1>5, <3>1, <3>2
    <3>3. CASE OnLayer(x)
      <4> DEFINE o == anim[x]
                 p == anim'[x]
      <4>1. /\ p.kind = o.kind /\ p.duration = o.duration
            /\ p.started = (IF Begins(x) THEN caNow ELSE o.started)
            /\ p.shown = IF Applies(x) THEN Progress(x) ELSE o.shown
        BY <1>4, <3>3
      <4>2. /\ Elapsed(x) \in {0, 1, 2}
            /\ o.kind \in AnimKinds /\ o.kind.begin \in Nat /\ o.started \in Nat \cup {-1}
            /\ o.started = -1 => Elapsed(x) = 0
            /\ o.started # -1 /\ Elapsed(x) # 0 => 2 * (caNow - o.started) >= o.duration
        BY <3>3, HowFar
      <4>3. o.kind # absent
        BY <4>2, CompositionAssumption
      <4>4. Begins(x) => o.kind.begin <= caNow /\ o.started = -1
        BY <1>2, <4>2 DEF Begins
      <4>5. ~o.kind.reverses => Progress(x) = Elapsed(x) % 2
        BY DEF Progress
      <4>6. Elapsed(x) % 2 # 0 => Elapsed(x) = 1 /\ Elapsed(x) % 2 = 1
        BY <4>2
      <4> HIDE DEF o, p
      <4>7. p.started # -1 => p.kind # absent /\ p.kind.begin <= p.started /\ p.started <= caNow
        BY <1>2, <3>1, <4>1, <4>2, <4>3, <4>4 DEF ShownFits, o
      <4>8. p.kind # absent /\ ~p.kind.reverses /\ p.shown # 0 =>
               p.shown = 1 /\ p.started # -1 /\ 2 * (caNow - p.started) >= p.duration
        <5>1. CASE Applies(x)
          BY <1>2, <4>1, <4>2, <4>4, <4>5, <4>6, <5>1
        <5>2. CASE ~Applies(x)
          BY <3>1, <4>1, <4>3, <4>4, <5>2 DEF ShownFits, o
        <5> QED BY <5>1, <5>2
      <4> QED BY <4>7, <4>8 DEF ShownFits, p
    <3> QED BY <3>2, <3>3
  <2> QED BY <1>1, <2>1 DEF ShownInv
<1>15. ~jumped'
  <2>1. ASSUME NEW a \in attached, Applies(a), ~anim[a].kind.reverses, Progress(a) < anim[a].shown
        PROVE  FALSE
    <3>1. a \in Animations /\ OnLayer(a)
      BY <1>2, AttachedOn
    <3>2. /\ Elapsed(a) \in {0, 1, 2} /\ anim[a].kind \in AnimKinds
          /\ anim[a].started # -1 /\ 2 * (caNow - anim[a].started) >= anim[a].duration => Elapsed(a) # 0
          /\ anim[a].started # -1 => ~Waiting(a)
      BY <3>1, HowFar
    <3>3. Progress(a) = Elapsed(a) % 2
      BY <2>1 DEF Progress
    <3>4. Progress(a) \in {0, 1} /\ (Elapsed(a) = 1 => Progress(a) = 1)
      BY <3>2, <3>3
    <3>5. anim[a].shown # 0 /\ anim[a].shown \in Nat
      BY <2>1, <3>1, <3>4, AnAnimation DEF AnimRecord
    <3>6. /\ anim[a].kind # absent
          /\ anim[a].shown = 1 /\ anim[a].started # -1 /\ 2 * (caNow - anim[a].started) >= anim[a].duration
      BY <2>1, <3>1, <3>2, <3>5, AnAnimation, CompositionAssumption DEF ShownFits
    <3>7. Elapsed(a) # 0 /\ ~Waiting(a)
      BY <3>2, <3>6
    <3>8. Elapsed(a) # 2
      BY <2>1, <3>2, <3>7 DEF Applies, Ends, NoneComesToItsEnd
    <3> QED BY <2>1, <3>2, <3>4, <3>6, <3>7, <3>8
  <2> QED BY <1>1, <2>1 DEF AnimationsInv
<1> QED BY <1>1, <1>8, <1>12, <1>13, <1>14, <1>15 DEF AnimationsInv

\* Time passes between frames.
LEMMA TickKeeps ==
  ASSUME AnimationsInv, Tick
  PROVE  AnimationsInv'
<1>1. /\ caNow' = caNow + 1 /\ caNow \in Nat
      /\ anim' = anim /\ keyed' = keyed /\ anonymous' = anonymous /\ report' = report
      /\ jumped' = jumped /\ transactions' = transactions /\ caPanic' = caPanic
  BY DEF Tick, animVars, AnimationsInv, AnimTypeOK
<1>2. AnimTypeOK' /\ OnePlace'
  <2>1. AnimTypeOK'
    BY <1>1 DEF AnimationsInv, AnimTypeOK
  <2>2. OnePlace'
    BY <1>1 DEF AnimationsInv, OnePlace
  <2> QED BY <2>1, <2>2
<1>3. ReportInv'
  <2>1. \A r, o : Listed(r, o)' <=> Listed(r, o)
    BY <1>1 DEF Listed, Where
  <2> QED BY <1>1, <2>1 DEF AnimationsInv, ReportInv
<1>4. ToldInv'
  BY <1>1 DEF AnimationsInv, ToldInv, OnLayer, Pending
<1>5. ShownInv'
  <2>1. ASSUME NEW x \in Animations PROVE ShownFits(anim[x], caNow + 1)
    <3>1. anim[x] \in AnimRecord /\ ShownFits(anim[x], caNow)
      BY AnAnimation
    <3>2. /\ anim[x].started \in Nat \cup {-1} /\ anim[x].duration \in Nat
          /\ anim[x].kind # absent => anim[x].kind.begin \in Nat
      BY <3>1, CompositionAssumption DEF AnimRecord
    <3> QED BY <1>1, <3>1, <3>2 DEF ShownFits
  <2> QED BY <1>1, <2>1 DEF ShownInv
<1> QED BY <1>1, <1>2, <1>3, <1>4, <1>5 DEF AnimationsInv

\* The first of the list, and the others, which are about other animations.
LEMMA FirstListed ==
  ASSUME AnimationsInv, report # <<>>
  PROVE  /\ Head(report) = report[1] /\ 1 \in DOMAIN report
         /\ report[1] \in Entry /\ report[1].a \in Animations /\ Listed(report[1], anim[report[1].a])
         /\ \A i \in DOMAIN report : i # 1 => report[i].a # report[1].a
         /\ Tail(report) \in Seq(Entry)
         /\ \A i \in DOMAIN Tail(report) : i + 1 \in DOMAIN report /\ Tail(report)[i] = report[i + 1] /\ i + 1 # 1
         /\ \A i \in DOMAIN report : i # 1 => i - 1 \in DOMAIN Tail(report) /\ Tail(report)[i - 1] = report[i]
<1>1. report \in Seq(Entry)
  BY DEF AnimationsInv, AnimTypeOK
<1>2. /\ Head(report) = report[1] /\ Tail(report) \in Seq(Entry)
      /\ Len(report) \in Nat \ {0} /\ DOMAIN report = 1 .. Len(report)
      /\ DOMAIN Tail(report) = 1 .. Len(report) - 1
      /\ \A i \in 1 .. Len(report) - 1 : Tail(report)[i] = report[i + 1]
  BY <1>1, HeadRest
<1>3. 1 \in DOMAIN report
  BY <1>2
<1>4. \A i \in DOMAIN report : i # 1 => report[i].a # report[1].a
  BY <1>3 DEF AnimationsInv, ReportInv
<1>5. \A i \in DOMAIN Tail(report) : i + 1 \in DOMAIN report /\ Tail(report)[i] = report[i + 1] /\ i + 1 # 1
  BY <1>2
<1>6. ASSUME NEW i \in DOMAIN report, i # 1
      PROVE  i - 1 \in DOMAIN Tail(report) /\ Tail(report)[i - 1] = report[i]
  <2>1. i - 1 \in 1 .. Len(report) - 1 /\ (i - 1) + 1 = i
    BY <1>2, <1>6
  <2> QED BY <1>2, <2>1
<1> QED BY <1>2, <1>3, <1>4, <1>5, <1>6, Entries

\* When the list goes on, what is pending of the other animations stays, and
\* what is listed of them stays true.
LEMMA ListGoesOn ==
  ASSUME AnimationsInv, report # <<>>, report' = Tail(report),
         \A x \in Animations : x # report[1].a => anim'[x] = anim[x],
         \A r \in Entry : r.a # report[1].a /\ Where(r) => Where(r)'
  PROVE  /\ ReportInv' /\ report' \in Seq(Entry)
         /\ \A x \in Animations : x # report[1].a => \A w : Pending(x, w)' <=> Pending(x, w)
<1>1. ASSUME NEW i \in DOMAIN report' PROVE Listed(report[i], anim[report[i].a])'
  <2>1. i + 1 \in DOMAIN report /\ report'[i] = report[i + 1] /\ i + 1 # 1
    BY <1>1, FirstListed
  <2> DEFINE r == report[i + 1]
  <2>2. r \in Entry /\ r.a \in Animations /\ r.a # report[1].a /\ Listed(r, anim[r.a])
    BY <2>1, FirstListed, Entries
  <2>3. anim'[r.a] = anim[r.a] /\ (Where(r) => Where(report[i])')
    <3>1. Where(r) => IF r.key = absent THEN r.a \in anonymous'[r.layer] ELSE keyed'[r.layer][r.key] = r.a
      BY <2>2 DEF Where
    <3> HIDE DEF r
    <3> QED BY <2>1, <2>2, <3>1 DEF Where, r
  <2> HIDE DEF r
  <2>4. report'[i] = r
    BY <2>1 DEF r
  <2> QED BY <2>2, <2>3, <2>4 DEF Listed
<1>2. \A i, j \in DOMAIN report' : report'[i].a = report'[j].a => i = j
  <2>1. ASSUME NEW i \in DOMAIN report', NEW j \in DOMAIN report', report'[i].a = report'[j].a
        PROVE  i = j
    <3>1. /\ i + 1 \in DOMAIN report /\ report'[i] = report[i + 1]
          /\ j + 1 \in DOMAIN report /\ report'[j] = report[j + 1]
      BY FirstListed
    <3>2. i + 1 = j + 1
      BY <2>1, <3>1 DEF AnimationsInv, ReportInv
    <3>3. i \in Nat /\ j \in Nat
      <4>1. report' \in Seq(Entry)
        BY FirstListed
      <4> QED BY <4>1
    <3> QED BY <3>2, <3>3
  <2> QED BY <2>1
<1>3. ASSUME NEW x \in Animations, x # report[1].a, NEW w PROVE Pending(x, w)' <=> Pending(x, w)
  <2>1. ASSUME NEW i \in DOMAIN report, report[i].a = x, report[i].what = w PROVE Pending(x, w)'
    <3>1. i - 1 \in DOMAIN report' /\ report'[i - 1] = report[i]
      BY <1>3, <2>1, FirstListed
    <3> QED BY <2>1, <3>1 DEF Pending
  <2>2. ASSUME NEW i \in DOMAIN report', report'[i].a = x, report'[i].what = w PROVE Pending(x, w)
    <3>1. i + 1 \in DOMAIN report /\ report'[i] = report[i + 1]
      BY FirstListed
    <3> QED BY <2>2, <3>1 DEF Pending
  <2> QED BY <2>1, <2>2 DEF Pending
<1> QED BY <1>1, <1>2, <1>3, FirstListed DEF ReportInv

\* What an animation is after its delegate was told something.
LEMMA Told ==
  ASSUME AnimationsInv, NEW a \in Animations, NEW w \in {"start", "stop"}, anim' = tell(anim, a, w)
  PROVE  /\ anim' \in [Animations -> AnimRecord]
         /\ \A x \in Animations : x # a => anim'[x] = anim[x]
         /\ anim'[a].kind = anim[a].kind /\ anim'[a].duration = anim[a].duration
         /\ anim'[a].refs = anim[a].refs /\ anim'[a].started = anim[a].started
         /\ anim'[a].shown = anim[a].shown
         /\ anim[a].told = <<>> => anim'[a].told = <<w>>
         /\ anim[a].told = <<"start">> => anim'[a].told = <<"start", w>>
         /\ anim'[a].told # <<>>
<1>1. PICK b \in AnimRecord : b = anim[a]
  BY AnAnimation
<1> DEFINE t == IF Len(b.told) < 3 THEN Append(b.told, w) ELSE b.told
<1>2. anim \in [Animations -> AnimRecord] /\ b.told \in Seq({"start", "stop"})
  BY <1>1, AnAnimation DEF AnimRecord
<1>3. Append(b.told, w) \in Seq({"start", "stop"}) /\ Len(Append(b.told, w)) = Len(b.told) + 1 /\ Len(b.told) \in Nat
  BY <1>2, AppendProperties, LenProperties
<1>4. t \in Seq({"start", "stop"}) /\ t # <<>>
  <2>1. Len(t) # 0
    BY <1>3
  <2>2. Len(<<>>) = 0
    OBVIOUS
  <2>3. t # <<>>
    <3> HIDE DEF t
    <3> QED BY <2>1, <2>2
  <2> QED BY <1>2, <1>3, <2>3
<1>5. b.told = <<>> => t = <<w>>
  <2>1. Append(<<>>, w) = <<w>> /\ Len(<<>>) = 0
    BY Appended
  <2> QED BY <2>1
<1>6. b.told = <<"start">> => t = <<"start", w>>
  <2>1. Append(<<"start">>, w) = <<"start", w>>
    BY Appended, "start" \in {"start", "stop"}
  <2>2. Len(<<"start">>) = 1
    OBVIOUS
  <2> QED BY <2>1, <2>2
<1>7. PICK q : q = [b EXCEPT !.told = t]
  OBVIOUS
<1>8. anim' = [anim EXCEPT ![a] = q]
  BY <1>1, <1>2, <1>7 DEF tell
<1> HIDE DEF t
<1>9. /\ q \in AnimRecord /\ q.kind = b.kind /\ q.started = b.started /\ q.told = t
      /\ q.shown = b.shown /\ q.refs = b.refs /\ q.duration = b.duration
  <2>1. b \in AnimRecord
    BY <1>1
  <2> QED BY <1>4, <1>7, <2>1 DEF AnimRecord
<1>10. anim' \in [Animations -> AnimRecord] /\ anim'[a] = q /\ \A x \in Animations : x # a => anim'[x] = anim[x]
  BY <1>2, <1>8, <1>9
<1>11. b.told = anim[a].told
  BY <1>1
<1> QED BY <1>1, <1>4, <1>5, <1>6, <1>9, <1>10, <1>11

\* The delegate is told of the first of the list.
LEMMA TellKeeps ==
  ASSUME AnimationsInv, Tell
  PROVE  AnimationsInv'
<1> DEFINE r == report[1]
           a == r.a
           o == anim[a]
           p == anim'[a]
<1>1. /\ report # <<>> /\ r.what \in {"start", "stop"}
      /\ r \in Entry /\ a \in Animations /\ Listed(r, o)
  BY FirstListed DEF Tell
<1>2. /\ caPanic' = (o.refs = 0)
      /\ anim' = tell(anim, a, r.what)
      /\ report' = IF r.what = "stop" /\ o.kind.removed
                   THEN [report EXCEPT ![1].what = "remove"] ELSE Tail(report)
      /\ UNCHANGED <<keyed, anonymous, jumped, transactions, caNow>>
  <2>1. Head(report) = r
    BY <1>1, FirstListed
  <2> HIDE DEF r
  <2> QED BY <2>1 DEF Tell
<1>3. /\ o.refs > 0 /\ o.kind # absent /\ o.started # -1
      /\ r.what = "start" => o.told = <<>>
      /\ r.what # "start" /\ o.kind.removed => o.told = <<"start">>
      /\ r.what # "start" => Where(r)
  BY <1>1 DEF Listed
<1>4. /\ anim' \in [Animations -> AnimRecord]
      /\ \A x \in Animations : x # a => anim'[x] = anim[x]
      /\ p.kind = o.kind /\ p.duration = o.duration /\ p.refs = o.refs /\ p.started = o.started
      /\ p.shown = o.shown
      /\ o.told = <<>> => p.told = <<r.what>>
      /\ o.told = <<"start">> => p.told = <<"start", r.what>>
      /\ p.told # <<>>
  <2> HIDE DEF a, r
  <2> QED BY <1>1, <1>2, Told
<1>5. OnePlace' /\ \A x : (OnLayer(x)' <=> OnLayer(x)) /\ \A e \in Entry : Where(e) => Where(e)'
  <2>1. keyed' = keyed /\ anonymous' = anonymous
    BY <1>2
  <2> QED BY <2>1 DEF AnimationsInv, OnePlace, OnLayer, Where
<1>6. ShownInv'
  <2>1. ASSUME NEW x \in Animations PROVE ShownFits(anim'[x], caNow)
    <3>1. CASE x = a
      BY <1>1, <1>4, <3>1, AnAnimation DEF ShownFits
    <3>2. CASE x # a
      BY <1>4, <3>2, AnAnimation
    <3> QED BY <3>1, <3>2
  <2> QED BY <1>2, <2>1 DEF ShownInv
<1>7. \A x \in Animations : ToldFits(anim[x], OnLayer(x), Pending(x, "start"), Pending(x, "remove"))
  BY AnAnimation
<1>8. caPanic' = FALSE /\ jumped' = FALSE /\ OnePlace'
  <2>1. o.refs # 0
    BY <1>3
  <2>2. jumped = FALSE
    BY DEF AnimationsInv
  <2> HIDE DEF o, a, r
  <2> QED BY <1>2, <1>5, <2>1, <2>2
<1>9. CASE ~(r.what = "stop" /\ o.kind.removed)
  <2>1. report' = Tail(report)
    BY <1>2, <1>9
  <2>2. /\ ReportInv' /\ report' \in Seq(Entry)
        /\ \A x \in Animations : x # a => \A w : Pending(x, w)' <=> Pending(x, w)
    BY <1>1, <1>4, <1>5, <2>1, ListGoesOn
  <2>3. AnimTypeOK'
    BY <1>2, <1>4, <2>2 DEF AnimationsInv, AnimTypeOK
  <2>4. ToldInv'
    <3>1. ASSUME NEW x \in Animations
          PROVE  ToldFits(anim'[x], OnLayer(x)', Pending(x, "start")', Pending(x, "remove")')
      <4>1. CASE x = a
        <5>1. p.kind.removed => p.told = <<"start">>
          BY <1>1, <1>3, <1>4, <1>9
        <5>2. <<"start">> # <<"start", "stop">>
          OBVIOUS
        <5>3. ToldFits(o, OnLayer(a), Pending(a, "start"), Pending(a, "remove"))
          BY <1>1, <1>7
        <5>4. ToldFits(p, OnLayer(a), Pending(x, "start")', Pending(x, "remove")')
          <6> HIDE DEF o, p, a
          <6> QED BY <1>3, <1>4, <5>1, <5>2, <5>3 DEF ToldFits
        <5>5. OnLayer(x)' <=> OnLayer(a)
          BY <1>5, <4>1
        <5>6. p = anim'[x]
          BY <4>1
        <5> QED BY <5>4, <5>5, <5>6 DEF ToldFits
      <4>2. CASE x # a
        BY <1>4, <1>5, <1>7, <2>2, <4>2 DEF ToldFits
      <4> QED BY <4>1, <4>2
    <3> QED BY <3>1 DEF ToldInv
  <2> QED BY <1>6, <1>8, <2>2, <2>3, <2>4 DEF AnimationsInv
<1>10. CASE r.what = "stop" /\ o.kind.removed
  <2>1. report' = [report EXCEPT ![1].what = "remove"]
    BY <1>2, <1>10
  <2>2. PICK e : e = [r EXCEPT !.what = "remove"]
    OBVIOUS
  <2>3. /\ e \in Entry /\ e.what = "remove" /\ e.a = a /\ e.layer = r.layer /\ e.key = r.key
    BY <1>1, <2>2 DEF Entry
  <2>4. /\ report' \in Seq(Entry) /\ DOMAIN report' = DOMAIN report /\ 1 \in DOMAIN report
        /\ report'[1] = e /\ \A i \in DOMAIN report : i # 1 => report'[i] = report[i]
    <3>1. report \in Seq(Entry) /\ 1 \in DOMAIN report
      BY <1>1, FirstListed DEF AnimationsInv, AnimTypeOK
    <3>2. report' = [report EXCEPT ![1] = e]
      BY <2>1, <2>2, <3>1
    <3>3. DOMAIN report = 1 .. Len(report)
      BY <3>1, LenProperties
    <3>4. report' \in Seq(Entry)
      BY <2>3, <3>1, <3>2, <3>3, ExceptSeq
    <3> QED BY <3>1, <3>2, <3>4
  <2>5. \A i \in DOMAIN report : i # 1 => report[i].a # a
    BY <1>1, FirstListed
  <2>6. AnimTypeOK'
    BY <1>2, <1>4, <2>4 DEF AnimationsInv, AnimTypeOK
  <2>7. ReportInv'
    <3>1. ASSUME NEW i \in DOMAIN report' PROVE Listed(report[i], anim[report[i].a])'
      <4>1. CASE i = 1
        <5>1. p.told = <<"start", "stop">> /\ p.kind.removed
          BY <1>3, <1>4, <1>10
        <5>2. IF e.key = absent THEN e.a \in anonymous'[e.layer] ELSE keyed'[e.layer][e.key] = e.a
          BY <1>2, <1>3, <1>10, <2>3 DEF Where
        <5>3. report'[i] = e /\ p = anim'[e.a]
          BY <2>3, <2>4, <4>1
        <5> HIDE DEF o, p, a, r
        <5> QED BY <1>3, <1>4, <2>3, <5>1, <5>2, <5>3 DEF Listed, Where
      <4>2. CASE i # 1
        <5> DEFINE f == report[i]
        <5>1. f \in Entry /\ f.a \in Animations /\ f.a # a /\ Listed(f, anim[f.a])
          BY <2>4, <2>5, <4>2, Entries
        <5>2. report'[i] = f /\ anim'[f.a] = anim[f.a]
          BY <1>4, <2>4, <4>2, <5>1
        <5>3. Where(f) => IF f.key = absent THEN f.a \in anonymous'[f.layer] ELSE keyed'[f.layer][f.key] = f.a
          BY <1>2 DEF Where
        <5> HIDE DEF f
        <5> QED BY <5>1, <5>2, <5>3 DEF Listed, Where
      <4> QED BY <4>1, <4>2
    <3>2. \A i \in DOMAIN report : report'[i].a = report[i].a
      BY <2>3, <2>4
    <3>3. \A i, j \in DOMAIN report' : report'[i].a = report'[j].a => i = j
      BY <2>4, <3>2 DEF AnimationsInv, ReportInv
    <3> QED BY <3>1, <3>3 DEF ReportInv
  <2>8. ToldInv'
    <3>1. ASSUME NEW x \in Animations
          PROVE  ToldFits(anim'[x], OnLayer(x)', Pending(x, "start")', Pending(x, "remove")')
      <4>1. CASE x = a
        <5>1. p.told = <<"start", "stop">>
          BY <1>3, <1>4, <1>10
        <5>2. Pending(x, "remove")'
          BY <2>3, <2>4, <4>1 DEF Pending
        <5>3. ToldFits(o, OnLayer(a), Pending(a, "start"), Pending(a, "remove"))
          BY <1>1, <1>7
        <5>4. ToldFits(p, OnLayer(a), Pending(x, "start")', TRUE)
          <6> HIDE DEF o, p, a
          <6> QED BY <1>3, <1>4, <5>1, <5>3 DEF ToldFits
        <5>5. OnLayer(x)' <=> OnLayer(a)
          BY <1>5, <4>1
        <5>6. p = anim'[x]
          BY <4>1
        <5> QED BY <5>2, <5>4, <5>5, <5>6 DEF ToldFits
      <4>2. CASE x # a
        <5>1. \A w : Pending(x, w)' <=> Pending(x, w)
          <6>1. \A i \in DOMAIN report : i = 1 => report'[i].a # x /\ report[i].a # x
            BY <2>3, <2>4, <4>2
          <6> QED BY <2>4, <6>1 DEF Pending
        <5> QED BY <1>4, <1>5, <1>7, <4>2, <5>1 DEF ToldFits
      <4> QED BY <4>1, <4>2
    <3> QED BY <3>1 DEF ToldInv
  <2> QED BY <1>6, <1>8, <2>6, <2>7, <2>8 DEF AnimationsInv
<1> QED BY <1>9, <1>10

\* What ended is removed from where the list has it.
LEMMA RemoveEndedKeeps ==
  ASSUME AnimationsInv, RemoveEnded
  PROVE  AnimationsInv'
<1> DEFINE r == report[1]
<1>1. /\ report # <<>> /\ r.what = "remove" /\ Head(report) = r
      /\ r \in Entry /\ r.a \in Animations /\ Listed(r, anim[r.a])
  BY FirstListed DEF RemoveEnded
<1>2. PICK a \in Animations, l \in Layers, key \in AnimKeys \cup {absent} :
        a = r.a /\ l = r.layer /\ key = r.key
  BY <1>1 DEF Entry
<1>3. IF key = absent THEN a \in anonymous[l] ELSE keyed[l][key] = a
  BY <1>1, <1>2 DEF Listed, Where
<1>4. /\ report' = Tail(report)
      /\ IF key = absent
         THEN /\ caPanic' = (a \notin anonymous[l])
              /\ anonymous' = [anonymous EXCEPT ![l] = @ \ {a}]
              /\ anim' = letGo(anim, a) /\ UNCHANGED keyed
         ELSE /\ keyed' = [keyed EXCEPT ![l][key] = absent]
              /\ anim' = IF keyed[l][key] = absent THEN anim ELSE letGo(anim, keyed[l][key])
              /\ UNCHANGED <<anonymous, caPanic>>
      /\ UNCHANGED <<jumped, transactions, caNow>>
  <2> HIDE DEF r
  <2> QED BY <1>1, <1>2 DEF RemoveEnded
<1>5. /\ anim' = letGo(anim, a)
      /\ keyed' = IF key = absent THEN keyed ELSE [keyed EXCEPT ![l][key] = absent]
      /\ anonymous' = IF key = absent THEN [anonymous EXCEPT ![l] = @ \ {a}] ELSE anonymous
      /\ caPanic' = FALSE /\ jumped' = FALSE
  <2>1. caPanic = FALSE /\ jumped = FALSE
    BY DEF AnimationsInv
  <2>2. a # absent
    BY CompositionAssumption
  <2> HIDE DEF r
  <2> QED BY <1>3, <1>4, <2>1, <2>2
<1>6. /\ anim' \in [Animations -> AnimRecord]
      /\ \A x \in Animations : x # a => anim'[x] = anim[x]
      /\ keyed' \in [Layers -> [AnimKeys -> Animations \cup {absent}]]
      /\ anonymous' \in [Layers -> SUBSET Animations]
      /\ OnePlace' /\ ~OnLayer(a)' /\ \A x \in Animations : OnLayer(x)' => OnLayer(x)
      /\ \A e \in Entry : e.a # a /\ Where(e) => Where(e)'
      /\ \A start, remove : ToldFits(anim'[a], FALSE, start, remove) <=> ToldFits(anim[a], FALSE, start, remove)
      /\ ShownFits(anim'[a], caNow)
      /\ anim[a].kind # absent
  BY <1>3, <1>5, Detached
<1>7. /\ ReportInv' /\ report' \in Seq(Entry)
      /\ \A x \in Animations : x # a => \A w : Pending(x, w)' <=> Pending(x, w)
  BY <1>1, <1>2, <1>4, <1>6, ListGoesOn
<1>8. AnimTypeOK'
  BY <1>4, <1>6, <1>7 DEF AnimationsInv, AnimTypeOK
<1>9. ToldInv'
  <2>1. ASSUME NEW x \in Animations
        PROVE  ToldFits(anim'[x], OnLayer(x)', Pending(x, "start")', Pending(x, "remove")')
    <3>1. CASE x = a
      <4>1. /\ anim[a].told = <<"start", "stop">> /\ anim[a].started # -1 /\ anim[a].kind # absent
            /\ <<>> # <<"start", "stop">>
        BY <1>1, <1>2 DEF Listed
      <4>2. \A start, remove : ToldFits(anim[a], FALSE, start, remove)
        BY <4>1 DEF ToldFits
      <4> QED BY <1>6, <3>1, <4>2 DEF ToldFits
    <3>2. CASE x # a
      BY <1>6, <1>7, <3>2, AnAnimation DEF ToldFits
    <3> QED BY <3>1, <3>2
  <2> QED BY <2>1 DEF ToldInv
<1>10. ShownInv'
  <2>1. caNow' = caNow
    BY <1>4
  <2> QED BY <1>6, <2>1, AnAnimation DEF ShownInv
<1> QED BY <1>5, <1>6, <1>7, <1>8, <1>9, <1>10 DEF AnimationsInv

\* At first nothing is animated.
LEMMA FirstAnimations ==
  ASSUME CompositionInit
  PROVE  AnimationsInv
<1>1. unmade \in AnimRecord
  BY DEF unmade, AnimRecord
<1>2. /\ anim = [a \in Animations |-> unmade] /\ keyed = [l \in Layers |-> [k \in AnimKeys |-> absent]]
      /\ anonymous = [l \in Layers |-> {}] /\ report = <<>> /\ transactions = <<>> /\ caNow = 0
      /\ jumped = FALSE /\ caPanic = FALSE
  BY DEF CompositionInit
<1>3. AnimTypeOK
  <2>1. anim \in [Animations -> AnimRecord]
    <3> HIDE DEF unmade
    <3> QED BY <1>1, <1>2
  <2>2. report \in Seq(Entry) /\ transactions \in Seq({1, 2})
    BY <1>2
  <2> QED BY <1>2, <2>1, <2>2 DEF AnimTypeOK
<1>4. OnePlace
  BY <1>2 DEF OnePlace
<1>5. \A i \in DOMAIN <<>> : FALSE
  OBVIOUS
<1>6. ReportInv
  BY <1>2, <1>5 DEF ReportInv
<1>7. \A a \in Animations : ~OnLayer(a)
  BY <1>2, CompositionAssumption DEF OnLayer
<1>8. unmade.kind = absent /\ unmade.refs = 0 /\ unmade.started = -1 /\ unmade.told = <<>> /\ unmade.shown = 0
  BY DEF unmade
<1>9. ToldInv
  BY <1>2, <1>7, <1>8 DEF ToldInv, ToldFits
<1>10. ShownInv
  BY <1>2, <1>8 DEF ShownInv, ShownFits
<1> QED BY <1>2, <1>3, <1>4, <1>6, <1>9, <1>10 DEF AnimationsInv

\* The animations through every step.
LEMMA AnimationsStep ==
  ASSUME AnimationsInv, [AnimationsNext \/ PicturesNext]_caVars,
         CaCareful = {"zero_duration", "listed"}, NoneComesToItsEnd
  PROVE  AnimationsInv'
<1>1. transactions \in Seq({1, 2})
  BY DEF AnimationsInv, AnimTypeOK
<1>2. CASE UNCHANGED caVars
  BY <1>1, <1>2, AnimationsSame DEF caVars, animVars
<1>3. CASE Begin \/ SetAnimationDuration \/ Commit
  BY <1>3, TransactionsKeep
<1>4. CASE MakeAnimation \/ DropAnimation
  BY <1>4, MakeAnimationKeeps, DropAnimationKeeps
<1>5. CASE AddAnimation \/ RemoveAnimation
  BY <1>5, AddAnimationKeeps, RemoveAnimationKeeps
<1>6. CASE Recomposite
  BY <1>6, RecompositeKeeps
<1>7. CASE Tell \/ RemoveEnded
  BY <1>7, TellKeeps, RemoveEndedKeeps
<1>8. CASE Tick
  BY <1>8, TickKeeps
<1>9. CASE SetNeedsDisplay \/ SetContents \/ PresentPixels
  BY <1>1, <1>9, AnimationsSame DEF SetNeedsDisplay, SetContents, PresentPixels, Pictures
<1> QED BY <1>2, <1>3, <1>4, <1>5, <1>6, <1>7, <1>8, <1>9 DEF AnimationsNext, PicturesNext

\* What the invariant promises the delegates and the user.
LEMMA AnimationsRunOnceIs ==
  ASSUME AnimationsInv
  PROVE  AnimationsRunOnce
<1>1. ASSUME NEW a \in Animations
      PROVE  /\ anim[a].kind # absent /\ anim[a].kind.removed =>
                  anim[a].told \in {<<>>, <<"start">>, <<"start", "stop">>}
             /\ a \in attached => anim[a].refs > 0
             /\ a \in attached /\ report = <<>> /\ anim[a].kind.removed => anim[a].told # <<"start", "stop">>
  <2>1. \A i \in DOMAIN <<>> : FALSE
    OBVIOUS
  <2>2. report = <<>> => ~Pending(a, "remove")
    BY <2>1 DEF Pending
  <2> QED BY <2>2, AnAnimation DEF ToldFits
<1>2. attached \subseteq Animations
  BY AttachedOn DEF AnimationsInv
<1> QED BY <1>1, <1>2 DEF AnimationsRunOnce, AnimationsReportOnce, NoJumpBack, AnimationsInv

\* An app gives no animation the duration 0 and does not remove or replace what is
\* still in the list that is being told ("listed"), and no animation is held at its
\* end, where its fraction is that of its start (NoneComesToItsEnd).  Then the
\* delegate of an animation that is removed on completion hears at most once of its
\* start and then at most once of its end, an animation that a layer has is alive,
\* one whose end was told is off its layer when the list has been told, none is seen
\* to go backwards, and no frame meets one that is gone, whatever the layers,
\* animations, keys and times (ca_animation.rs, composition.rs).
THEOREM AnimationsTold ==
  ASSUME CaCareful = {"zero_duration", "listed"}, NoneComesToItsEnd
  PROVE  CompositionSpec => []AnimationsRunOnce
<1>1. CompositionInit => AnimationsInv
  BY FirstAnimations
<1>2. AnimationsInv /\ [AnimationsNext \/ PicturesNext]_caVars => AnimationsInv'
  BY AnimationsStep
<1>3. AnimationsInv => AnimationsRunOnce
  BY AnimationsRunOnceIs
<1> QED BY <1>1, <1>2, <1>3, PTL DEF CompositionSpec

\* Whatever the app changes and whenever frames are made, a layer whose texture
\* is not what it should show is marked to be drawn or uploaded: by
\* setNeedsDisplay, setContents: and the presentation of pixels, and nothing but
\* the upload takes the mark away (ca_layer.rs, composition.rs).
THEOREM ChangesAreShown == CompositionSpec => []ChangesReachScreen
<1>1. CompositionInit => ChangesReachScreen
  BY DEF CompositionInit, ChangesReachScreen
<1>2. ASSUME ChangesReachScreen, [AnimationsNext \/ PicturesNext]_caVars PROVE ChangesReachScreen'
  <2>1. CASE UNCHANGED pictureVars
    BY <1>2, <2>1 DEF pictureVars, ChangesReachScreen
  <2>2. CASE SetNeedsDisplay
    BY <1>2, <2>2 DEF SetNeedsDisplay, ChangesReachScreen
  <2>3. CASE SetContents
    BY <1>2, <2>3 DEF SetContents, Pictures, ChangesReachScreen
  <2>4. CASE PresentPixels
    BY <1>2, <2>4 DEF PresentPixels, Pictures, ChangesReachScreen
  <2>5. CASE Recomposite
    BY <1>2, <2>5 DEF Recomposite, Uploads, PicturedAfterDisplay, UpToDateAfterDisplay, Redrawn,
                      ChangesReachScreen
  <2>6. \/ UNCHANGED pictureVars \/ SetNeedsDisplay \/ SetContents \/ PresentPixels \/ Recomposite
    BY <1>2 DEF AnimationsNext, PicturesNext, caVars, pictureVars, Begin, SetAnimationDuration, Commit,
                MakeAnimation, AddAnimation, RemoveAnimation, DropAnimation, Tell, RemoveEnded, Tick
  <2> QED BY <2>1, <2>2, <2>3, <2>4, <2>5, <2>6
<1> QED BY <1>1, <1>2, PTL DEF CompositionSpec

-----------------------------------------------------------------------------
(* Touches: sequences that lead from one state to another                  *)

\* g is what each element of s, in a step that R allows, makes of the state
\* before it.
Through(R, g, s) == \A k \in 1 .. Len(s) : <<g[k - 1], s[k], g[k]>> \in R
LeadsTo(R, a, s, b) == \E g : g[0] = a /\ g[Len(s)] = b /\ Through(R, g, s)

\* The empty sequence changes nothing.
LEMMA LeadsNowhere ==
  ASSUME NEW R, NEW a, NEW b
  PROVE  LeadsTo(R, a, <<>>, b) <=> a = b
<1>1. Len(<<>>) = 0 /\ 1 .. 0 = {}
  OBVIOUS
<1>2. ASSUME a = b PROVE LeadsTo(R, a, <<>>, b)
  <2> DEFINE g == [k \in {0} |-> a]
  <2>1. g[0] = a /\ g[Len(<<>>)] = b /\ Through(R, g, <<>>)
    BY <1>1, <1>2 DEF Through
  <2> HIDE DEF g
  <2> QED BY <2>1 DEF LeadsTo
<1>3. LeadsTo(R, a, <<>>, b) => a = b
  BY <1>1 DEF LeadsTo
<1> QED BY <1>2, <1>3

\* One more element.
LEMMA LeadsOn ==
  ASSUME NEW R, NEW S, NEW s \in Seq(S), NEW e \in S, NEW a, NEW b, NEW c,
         LeadsTo(R, a, s, b), <<b, e, c>> \in R
  PROVE  LeadsTo(R, a, Append(s, e), c)
<1>1. PICK g : g[0] = a /\ g[Len(s)] = b /\ Through(R, g, s)
  BY DEF LeadsTo
<1>2. /\ Len(s) \in Nat /\ Len(Append(s, e)) = Len(s) + 1 /\ Append(s, e)[Len(s) + 1] = e
      /\ \A i \in 1 .. Len(s) : Append(s, e)[i] = s[i]
  BY Pushed
<1>3. PICK n \in Nat : n = Len(s)
  BY <1>2
<1> DEFINE f == [k \in 0 .. n + 1 |-> IF k <= n THEN g[k] ELSE c]
           t == Append(s, e)
<1>4. /\ f[0] = a /\ f[n] = b /\ f[n + 1] = c
      /\ \A k \in 1 .. n : f[k] = g[k] /\ f[k - 1] = g[k - 1]
  BY <1>1, <1>3
<1>5. Len(t) = n + 1 /\ t[n + 1] = e /\ \A i \in 1 .. n : t[i] = s[i]
  BY <1>2, <1>3
<1> HIDE DEF f, t
<1>6. ASSUME NEW k \in 1 .. n + 1 PROVE <<f[k - 1], t[k], f[k]>> \in R
  <2>1. CASE k = n + 1
    BY <1>4, <1>5, <2>1
  <2>2. CASE k # n + 1
    <3>1. k \in 1 .. n
      BY <2>2
    <3> QED BY <1>1, <1>3, <1>4, <1>5, <3>1 DEF Through
  <2> QED BY <2>1, <2>2
<1>7. f[0] = a /\ f[Len(t)] = c /\ Through(R, f, t)
  BY <1>4, <1>5, <1>6 DEF Through
<1>8. LeadsTo(R, a, t, c)
  BY <1>7 DEF LeadsTo
<1> QED BY <1>8 DEF t

\* The first element, and what follows.
LEMMA LeadsFirst ==
  ASSUME NEW R, NEW S, NEW s \in Seq(S), s # <<>>, NEW a, NEW c, LeadsTo(R, a, s, c)
  PROVE  \E b : <<a, Head(s), b>> \in R /\ LeadsTo(R, b, Tail(s), c)
<1>1. PICK g : g[0] = a /\ g[Len(s)] = c /\ Through(R, g, s)
  BY DEF LeadsTo
<1>2. /\ Len(s) \in Nat \ {0} /\ Head(s) = s[1] /\ Len(Tail(s)) = Len(s) - 1
      /\ \A i \in 1 .. Len(s) - 1 : Tail(s)[i] = s[i + 1]
  BY HeadRest
<1>3. PICK n \in Nat : Len(s) = n + 1
  <2>1. Len(s) - 1 \in Nat /\ Len(s) = (Len(s) - 1) + 1
    BY <1>2
  <2> QED BY <2>1
<1>4. PICK t : t = Tail(s)
  OBVIOUS
<1>5. Len(t) = n /\ \A i \in 1 .. n : t[i] = s[i + 1]
  BY <1>2, <1>3, <1>4
<1> DEFINE f == [k \in 0 .. n |-> g[k + 1]]
<1>6. /\ f[0] = g[1] /\ f[n] = c
      /\ \A k \in 1 .. n : f[k - 1] = g[k] /\ f[k] = g[k + 1] /\ k + 1 \in 1 .. n + 1 /\ (k + 1) - 1 = k
  BY <1>1, <1>3
<1> HIDE DEF f
<1>7. \A j \in 1 .. n + 1 : <<g[j - 1], s[j], g[j]>> \in R
  BY <1>1, <1>3 DEF Through
<1>8. ASSUME NEW k \in 1 .. n PROVE <<f[k - 1], t[k], f[k]>> \in R
  <2>1. PICK j \in 1 .. n + 1 : j = k + 1 /\ j - 1 = k
    BY <1>6
  <2>2. <<g[j - 1], s[j], g[j]>> \in R
    BY <1>7
  <2> QED BY <1>5, <1>6, <2>1, <2>2
<1>9. <<a, s[1], g[1]>> \in R
  <2>1. 1 \in 1 .. n + 1 /\ 1 - 1 = 0
    OBVIOUS
  <2>2. <<g[1 - 1], s[1], g[1]>> \in R
    BY <1>7, <2>1
  <2> QED BY <1>1, <2>1, <2>2
<1>10. f[0] = g[1] /\ f[Len(t)] = c /\ Through(R, f, t)
  BY <1>5, <1>6, <1>8 DEF Through
<1>11. LeadsTo(R, g[1], t, c)
  BY <1>10 DEF LeadsTo
<1> QED BY <1>2, <1>4, <1>9, <1>11

\* Another last element, that leads elsewhere.
LEMMA LeadsElse ==
  ASSUME NEW R, NEW S, NEW s \in Seq(S), s # <<>>, NEW e \in S, NEW a, NEW b, NEW c,
         LeadsTo(R, a, s, b), \A x : <<x, Last(s), b>> \in R => <<x, e, c>> \in R
  PROVE  LeadsTo(R, a, [s EXCEPT ![Len(s)] = e], c)
<1>1. PICK g : g[0] = a /\ g[Len(s)] = b /\ Through(R, g, s)
  BY DEF LeadsTo
<1>2. PICK t : t = [s EXCEPT ![Len(s)] = e]
  OBVIOUS
<1>3. Len(s) \in Nat \ {0} /\ Last(s) = s[Len(s)] /\ DOMAIN s = 1 .. Len(s)
  BY FrontLast
<1>4. PICK n \in Nat \ {0} : n = Len(s)
  BY <1>3
<1>5. Len(t) = n /\ t[n] = e /\ \A i \in 1 .. n : i # n => t[i] = s[i]
  <2>1. /\ Len(t) = Len(s) /\ t[Len(s)] = e
        /\ \A i \in 1 .. Len(s) - 1 : t[i] = s[i]
    BY <1>2, TopReplaced
  <2>2. \A i \in 1 .. n : i # n => i \in 1 .. n - 1
    OBVIOUS
  <2> QED BY <1>4, <2>1, <2>2
<1> DEFINE f == [k \in 0 .. n |-> IF k = n THEN c ELSE g[k]]
<1>6. /\ f[0] = a /\ f[n] = c
      /\ \A k \in 1 .. n : f[k - 1] = g[k - 1] /\ (k # n => f[k] = g[k])
  BY <1>1, <1>4
<1> HIDE DEF f
<1>7. \A k \in 1 .. n : <<g[k - 1], s[k], g[k]>> \in R
  BY <1>1, <1>4 DEF Through
<1>8. ASSUME NEW k \in 1 .. n PROVE <<f[k - 1], t[k], f[k]>> \in R
  <2>1. CASE k # n
    BY <1>5, <1>6, <1>7, <2>1
  <2>2. CASE k = n
    <3>1. <<g[k - 1], Last(s), b>> \in R
      BY <1>1, <1>3, <1>4, <1>7, <2>2
    <3>2. <<g[k - 1], e, c>> \in R
      BY <3>1
    <3> QED BY <1>5, <1>6, <2>2, <3>2
  <2> QED BY <2>1, <2>2
<1>9. f[0] = a /\ f[Len(t)] = c /\ Through(R, f, t)
  BY <1>5, <1>6, <1>8 DEF Through
<1>10. LeadsTo(R, a, t, c)
  BY <1>9 DEF LeadsTo
<1> QED BY <1>2, <1>10

-----------------------------------------------------------------------------
(* Touches: the invariant                                                  *)

DeskInputs == TouchFingers \cup Pads \cup Keys \cup {"mouse", "stick", "cursor"}
Strokes == {"down", "move", "up"}
PumpEvents ==
    [what : Strokes, input : DeskInputs, at : Places, same : BOOLEAN]
      \cup [what : {"added", "removed"}, input : {"controller"}, at : Places, same : BOOLEAN]
      \cup [what : {"quit", "background", "terminating", "F12"}, input : {"system"},
            at : Places, same : BOOLEAN]
TouchMaps == UNION {[F -> Places] : F \in SUBSET Fingers}
WindowEvents ==
    [kind : {"quit", "debugger"}] \cup [kind : Strokes, at : TouchMaps]
WindowRecord ==
    [queue : Seq(WindowEvents), high : {"none", "background", "terminating"}, polling : BOOLEAN,
     gathering : BOOLEAN, pads : SUBSET Pads, padActive : BOOLEAN, stickActive : BOOLEAN,
     cursor : BOOLEAN, pinch : BOOLEAN, controllers : BOOLEAN, updated : BOOLEAN,
     rest : Seq(PumpEvents)]
Windows == {w \in WindowRecord : w.gathering => w.queue # <<>>}

\* An event of SDL's: the inputs held down before and after it.
Presses(A, e, B) ==
    \/ e.what = "down" /\ e.input \in DeskInputs \ A /\ B = A \cup {e.input}
    \/ e.what = "up" /\ e.input \in DeskInputs \cap A /\ B = A \ {e.input}
    \/ e.what = "move" /\ e.input \in A \cap (TouchFingers \cup {"mouse"}) /\ B = A
    \/ e.what \notin Strokes /\ B = A
Pressing ==
    {t \in (SUBSET DeskInputs) \X PumpEvents \X (SUBSET DeskInputs) : Presses(t[1], t[2], t[3])}

\* An event of the window's: the fingers on the screen before and after it.
Affects(A, e, B) ==
    \/ e.kind = "down" /\ IsFiniteSet(DOMAIN e.at) /\ DOMAIN e.at \cap A = {} /\ B = A \cup DOMAIN e.at
    \/ e.kind = "up" /\ B = A \ DOMAIN e.at
    \/ e.kind \notin {"down", "up"} /\ B = A
Touching ==
    {t \in (SUBSET Fingers) \X WindowEvents \X (SUBSET Fingers) : Affects(t[1], t[2], t[3])}

\* The fingers that inputs held down stand for.
Stands(f, H, pad, stick, cursor, pinch) ==
    \/ f \in H \cap (TouchFingers \cup Keys)
    \/ pad /\ f = "DpadToTouch"
    \/ stick /\ f = "StickToTouch"
    \/ cursor /\ f = "VirtualCursor"
    \/ "mouse" \in H /\ IF pinch THEN f \in {"PinchFinger1", "PinchFinger2"} ELSE f = "Mouse"
FingersOf(H, pad, stick, cursor, pinch) ==
    {f \in Fingers : Stands(f, H, pad, stick, cursor, pinch)}

\* The window has told, by its queue, of the inputs that were held when it
\* looked: H, or for the stick and the cursor, those held now.
Reported(w, T, H, hands) ==
    /\ w.high = "none" /\ w.rest = <<>>
    /\ LeadsTo(Touching, T, w.queue, FingersOf(H, w.padActive, w.stickActive, w.cursor, w.pinch))
    /\ w.pads = H \cap Pads /\ w.padActive = (w.pads # {})
    /\ w.pinch => "mouse" \in H
    /\ w.stickActive = ("stick" \in H) \/ w.stickActive = ("stick" \in hands)
    /\ w.updated \/ w.cursor = ("cursor" \in H)
    /\ "stick" \in hands \/ "cursor" \in hands => w.controllers
FollowsHands(w, T, H, hands) == IF w.polling THEN Reported(w, T, H, hands) ELSE w.high # "none"

\* Between two batches all is as it was when the pump was last empty.
Hands == held \ {"shift"}
InStep(w, T, H) ==
    /\ w.high = "none" /\ w.rest = <<>> /\ ~w.gathering /\ ~w.updated
    /\ LeadsTo(Touching, T, w.queue, FingersOf(H, w.padActive, w.stickActive, w.cursor, w.pinch))
    /\ w.pads = H \cap Pads /\ w.padActive = (w.pads # {})
    /\ w.pinch => "mouse" \in H
    /\ w.stickActive = ("stick" \in H) /\ w.cursor = ("cursor" \in H)

ControllerInv ==
    /\ Hands \cap onController # {} => plugged /\ win.controllers
    /\ \A k \in DOMAIN pump : pump[k].input = "controller" => (pump[k].what = "added") = plugged
    /\ plugged = win.controllers <=> \A k \in DOMAIN pump : pump[k].input # "controller"

TouchTypeOK ==
    /\ pump \in Seq(PumpEvents) /\ desk \in Desks /\ held \subseteq desk /\ plugged \in BOOLEAN
    /\ win \in Windows /\ inputPanic \in BOOLEAN /\ exited \in BOOLEAN
    /\ DOMAIN touches \in SUBSET Fingers /\ touches \in [DOMAIN touches -> Places]

TouchInv ==
    /\ TouchTypeOK /\ ~inputPanic /\ OneTouchPerView
    /\ ~win.polling => win.high # "none" \/ exited
    /\ win.polling =>
         /\ ControllerInv
         /\ \E H : LeadsTo(Pressing, H, pump, Hands) /\ InStep(win, DOMAIN touches, H)

\* The inputs and fingers are all different.
LEMMA Inputs ==
  /\ DeskInputs \cap {"controller", "system", "shift"} = {}
  /\ \A x \in TouchFingers \cup Keys : x \in Fingers /\ x \in DeskInputs /\ x \notin NamedFingers
                                       /\ x \notin {"mouse", "stick", "cursor"}
  /\ \A x \in TouchFingers : x \notin Pads /\ x \notin Keys
  /\ \A x \in Keys : x \notin Pads
  /\ \A x \in Pads : x \in DeskInputs /\ x \notin {"mouse", "stick", "cursor"}
  /\ NamedFingers \subseteq Fingers
BY TouchAssumption DEF DeskInputs, Fingers, NamedInputs, NamedFingers

\* Touches of some fingers, all at one place.
LEMMA AtOnePlace ==
  ASSUME NEW F \in SUBSET Fingers, NEW p \in Places
  PROVE  [f \in F |-> p] \in TouchMaps /\ DOMAIN [f \in F |-> p] = F
<1>1. [f \in F |-> p] \in [F -> Places]
  OBVIOUS
<1> QED BY <1>1 DEF TouchMaps

\* What a map of touches is.
LEMMA TouchMap ==
  ASSUME NEW m \in TouchMaps
  PROVE  DOMAIN m \in SUBSET Fingers /\ m \in [DOMAIN m -> Places] /\ \A f \in DOMAIN m : m[f] \in Places
BY DEF TouchMaps

\* One more finger in it.
LEMMA MoreTouches ==
  ASSUME NEW m \in TouchMaps, NEW x \in Fingers, NEW p \in Places
  PROVE  LET n == [f \in DOMAIN m \cup {x} |-> IF f = x THEN p ELSE m[f]]
         IN  n \in TouchMaps /\ DOMAIN n = DOMAIN m \cup {x}
<1> DEFINE F == DOMAIN m \cup {x}
           n == [f \in F |-> IF f = x THEN p ELSE m[f]]
<1>1. F \in SUBSET Fingers /\ n \in [F -> Places]
  BY TouchMap
<1> QED BY <1>1 DEF TouchMaps

\* The relations, as sets of triples.
LEMMA TouchingIs ==
  ASSUME NEW A, NEW e, NEW B
  PROVE  /\ <<A, e, B>> \in Touching => /\ A \in SUBSET Fingers /\ e \in WindowEvents /\ B \in SUBSET Fingers
                                        /\ Affects(A, e, B)
         /\ A \in SUBSET Fingers /\ e \in WindowEvents /\ B \in SUBSET Fingers /\ Affects(A, e, B)
              => <<A, e, B>> \in Touching
BY DEF Touching

\* And those of SDL's events.
LEMMA PressingIs ==
  ASSUME NEW A, NEW e, NEW B
  PROVE  /\ <<A, e, B>> \in Pressing => /\ A \in SUBSET DeskInputs /\ e \in PumpEvents /\ B \in SUBSET DeskInputs
                                        /\ Presses(A, e, B)
         /\ A \in SUBSET DeskInputs /\ e \in PumpEvents /\ B \in SUBSET DeskInputs /\ Presses(A, e, B)
              => <<A, e, B>> \in Pressing
BY DEF Pressing

\* A touch event that is put in the queue.
LEMMA QueuedTouch ==
  ASSUME NEW w \in Windows, NEW e \in WindowEvents
  PROVE  LET v == Queued(w, e)
         IN  /\ v \in Windows /\ v.queue = Append(w.queue, e) /\ ~v.gathering
             /\ v.high = w.high /\ v.polling = w.polling /\ v.pads = w.pads /\ v.padActive = w.padActive
             /\ v.stickActive = w.stickActive /\ v.cursor = w.cursor /\ v.pinch = w.pinch
             /\ v.controllers = w.controllers /\ v.updated = w.updated /\ v.rest = w.rest
<1>1. Append(w.queue, e) \in Seq(WindowEvents)
  BY AppendProperties DEF Windows, WindowRecord
<1> QED BY <1>1 DEF Queued, Windows, WindowRecord

\* A touch event of some fingers.
LEMMA TouchedIs ==
  ASSUME NEW kind \in Strokes, NEW F \in SUBSET Fingers, NEW p \in Places
  PROVE  LET e == Touched(kind, F, p)
         IN  e \in WindowEvents /\ e.kind = kind /\ DOMAIN e.at = F
<1>1. [f \in F |-> p] \in TouchMaps /\ DOMAIN [f \in F |-> p] = F
  BY AtOnePlace
<1> QED BY <1>1 DEF Touched, WindowEvents

\* One or two fingers are finitely many.
LEMMA FewFingers ==
  ASSUME NEW x, NEW y
  PROVE  IsFiniteSet({x}) /\ IsFiniteSet({x, y})
<1>1. IsFiniteSet({x})
  BY FS_Singleton
<1>2. IsFiniteSet({x} \cup {y}) /\ {x} \cup {y} = {x, y}
  BY <1>1, FS_AddElement
<1> QED BY <1>1, <1>2

\* The button of the mouse.
LEMMA MouseIs ==
  ASSUME NEW w \in Windows, NEW e \in PumpEvents, e.input = "mouse", NEW shift \in BOOLEAN
  PROVE  LET v == OfMouse(w, e, shift)
             pinching == IF e.what = "down" THEN shift ELSE w.pinch
             F == IF pinching THEN {"PinchFinger1", "PinchFinger2"} ELSE {"Mouse"}
         IN  \E t \in WindowEvents :
               /\ t.kind = e.what /\ t.kind \in Strokes /\ DOMAIN t.at = F
               /\ v \in Windows /\ v.queue = Append(w.queue, t) /\ ~v.gathering
               /\ v.pinch = (e.what # "up" /\ pinching)
               /\ v.high = w.high /\ v.polling = w.polling /\ v.pads = w.pads /\ v.padActive = w.padActive
               /\ v.stickActive = w.stickActive /\ v.cursor = w.cursor
               /\ v.controllers = w.controllers /\ v.updated = w.updated /\ v.rest = w.rest
<1> DEFINE pinching == IF e.what = "down" THEN shift ELSE w.pinch
           F == IF pinching THEN {"PinchFinger1", "PinchFinger2"} ELSE {"Mouse"}
<1>1. e.what \in Strokes /\ e.at \in Places
  BY DEF PumpEvents
<1>2. F \in SUBSET Fingers
  BY DEF Fingers, NamedFingers
<1>3. PICK t : t = Touched(e.what, F, e.at)
  OBVIOUS
<1> HIDE DEF F
<1>4. t \in WindowEvents /\ t.kind = e.what /\ DOMAIN t.at = F
  BY <1>1, <1>2, <1>3, TouchedIs
<1>5. PICK u : u = Queued(w, t)
  OBVIOUS
<1>6. /\ u \in Windows /\ u.queue = Append(w.queue, t) /\ ~u.gathering
      /\ u.high = w.high /\ u.polling = w.polling /\ u.pads = w.pads /\ u.padActive = w.padActive
      /\ u.stickActive = w.stickActive /\ u.cursor = w.cursor /\ u.pinch = w.pinch
      /\ u.controllers = w.controllers /\ u.updated = w.updated /\ u.rest = w.rest
  BY <1>4, <1>5, QueuedTouch
<1>7. PICK b : b = IF e.what = "up" THEN FALSE ELSE pinching
  OBVIOUS
<1>8. b \in BOOLEAN /\ b = (e.what # "up" /\ pinching)
  BY <1>7 DEF Windows, WindowRecord
<1>9. OfMouse(w, e, shift) = [u EXCEPT !.pinch = b]
  BY <1>3, <1>5, <1>7 DEF OfMouse, F
<1>10. PICK v : v = [u EXCEPT !.pinch = b]
  OBVIOUS
<1>11. /\ v \in Windows /\ v.queue = u.queue /\ ~v.gathering /\ v.pinch = b
       /\ v.high = u.high /\ v.polling = u.polling /\ v.pads = u.pads /\ v.padActive = u.padActive
       /\ v.stickActive = u.stickActive /\ v.cursor = u.cursor
       /\ v.controllers = u.controllers /\ v.updated = u.updated /\ v.rest = u.rest
  BY <1>6, <1>8, <1>10 DEF Windows, WindowRecord
<1> QED BY <1>1, <1>4, <1>6, <1>8, <1>9, <1>10, <1>11 DEF F

\* What the window has told so far, with its events in the queue.
LEMMA ReportedOf ==
  ASSUME NEW w, NEW T, NEW H, NEW hands, Reported(w, T, H, hands)
  PROVE  LeadsTo(Touching, T, w.queue, FingersOf(H, w.padActive, w.stickActive, w.cursor, w.pinch))
BY DEF Reported

\* One more touch event.
LEMMA OneMoreTouch ==
  ASSUME NEW q \in Seq(WindowEvents), NEW t \in WindowEvents, NEW T, NEW D \in SUBSET Fingers,
         NEW E \in SUBSET Fingers, LeadsTo(Touching, T, q, D), Affects(D, t, E)
  PROVE  LeadsTo(Touching, T, Append(q, t), E)
<1>1. <<D, t, E>> \in Touching
  BY TouchingIs
<1> QED BY <1>1, LeadsOn

\* One more touch event of one finger.
LEMMA OneFinger ==
  ASSUME NEW q \in Seq(WindowEvents), NEW t \in WindowEvents, NEW T, NEW D \in SUBSET Fingers,
         NEW E \in SUBSET Fingers, LeadsTo(Touching, T, q, D), NEW x, DOMAIN t.at = {x},
         t.kind \in Strokes, \A f : f # x => (f \in E <=> f \in D),
         t.kind = "down" => x \notin D /\ x \in E, t.kind = "up" => x \notin E,
         t.kind = "move" => (x \in E <=> x \in D)
  PROVE  LeadsTo(Touching, T, Append(q, t), E)
<1>1. CASE t.kind = "down"
  <2>1. \A f : f \in E <=> f \in D \cup {x}
    BY <1>1
  <2>2. E = D \cup {x} /\ IsFiniteSet({x})
    BY <2>1, FewFingers
  <2>3. Affects(D, t, E)
    BY <1>1, <2>2 DEF Affects
  <2> QED BY <2>3, OneMoreTouch
<1>2. CASE t.kind = "up"
  <2>1. \A f : f \in E <=> f \in D \ {x}
    BY <1>2
  <2>2. E = D \ {x}
    BY <2>1
  <2>3. Affects(D, t, E)
    BY <1>2, <2>2 DEF Affects
  <2> QED BY <2>3, OneMoreTouch
<1>3. CASE t.kind = "move"
  <2>1. \A f : f \in E <=> f \in D
    BY <1>3
  <2>2. E = D
    BY <2>1
  <2>3. Affects(D, t, E)
    BY <1>3, <2>2 DEF Affects
  <2> QED BY <2>3, OneMoreTouch
<1> QED BY <1>1, <1>2, <1>3 DEF Strokes

\* The mouse.
LEMMA MouseFollows ==
  ASSUME NEW w \in Windows, NEW e \in PumpEvents, e.input = "mouse", NEW shift \in BOOLEAN,
         NEW T, NEW H, NEW H2, NEW hands, Reported(w, T, H, hands), <<H, e, H2>> \in Pressing
  PROVE  Reported(OfMouse(w, e, shift), T, H2, hands)
<1> DEFINE pinching == IF e.what = "down" THEN shift ELSE w.pinch
           F == IF pinching THEN {"PinchFinger1", "PinchFinger2"} ELSE {"Mouse"}
<1>1. PICK v : v = OfMouse(w, e, shift)
  OBVIOUS
<1>2. PICK t \in WindowEvents :
        /\ t.kind = e.what /\ t.kind \in Strokes /\ DOMAIN t.at = F
        /\ v \in Windows /\ v.queue = Append(w.queue, t) /\ ~v.gathering
        /\ v.pinch = (e.what # "up" /\ pinching)
        /\ v.high = w.high /\ v.polling = w.polling /\ v.pads = w.pads /\ v.padActive = w.padActive
        /\ v.stickActive = w.stickActive /\ v.cursor = w.cursor
        /\ v.controllers = w.controllers /\ v.updated = w.updated /\ v.rest = w.rest
  BY <1>1, MouseIs
<1>3. /\ H \in SUBSET DeskInputs /\ H2 \in SUBSET DeskInputs
      /\ Presses(H, e, H2)
  BY PressingIs
<1>4. \A x \in {"stick", "cursor"} \cup Pads \cup TouchFingers \cup Keys : x \in H2 <=> x \in H
  BY <1>3, Inputs DEF Presses
<1> DEFINE D == FingersOf(H, w.padActive, w.stickActive, w.cursor, w.pinch)
           E == FingersOf(H2, v.padActive, v.stickActive, v.cursor, v.pinch)
<1>5. "mouse" \in H2 <=> e.what # "up"
  BY <1>2, <1>3 DEF Presses, Strokes
<1>6. Affects(D, t, E)
  <2>1. IsFiniteSet(F)
    BY FewFingers
  <2>2. \A f : Stands(f, H2, v.padActive, v.stickActive, v.cursor, v.pinch) <=>
               \/ f \in H \cap (TouchFingers \cup Keys)
               \/ w.padActive /\ f = "DpadToTouch"
               \/ w.stickActive /\ f = "StickToTouch"
               \/ w.cursor /\ f = "VirtualCursor"
               \/ e.what # "up" /\ f \in F
    BY <1>2, <1>4, <1>5 DEF Stands
  <2>3. \A f : Stands(f, H, w.padActive, w.stickActive, w.cursor, w.pinch) <=>
               \/ f \in H \cap (TouchFingers \cup Keys)
               \/ w.padActive /\ f = "DpadToTouch"
               \/ w.stickActive /\ f = "StickToTouch"
               \/ w.cursor /\ f = "VirtualCursor"
               \/ e.what # "down" /\ f \in F
    BY <1>2, <1>3 DEF Stands, Presses, Strokes, Reported
  <2>4. \A f \in F : f \in Fingers /\ f \in {"PinchFinger1", "PinchFinger2", "Mouse"}
                     /\ f \notin TouchFingers \cup Keys
    BY Inputs DEF NamedFingers
  <2> HIDE DEF F
  <2>5. CASE e.what = "down"
    <3>1. DOMAIN t.at \cap D = {} /\ E = D \cup DOMAIN t.at
      BY <1>2, <2>2, <2>3, <2>4, <2>5 DEF FingersOf
    <3> QED BY <1>2, <2>1, <2>5, <3>1 DEF Affects
  <2>6. CASE e.what = "up"
    <3>1. E = D \ DOMAIN t.at
      BY <1>2, <2>2, <2>3, <2>4, <2>6 DEF FingersOf
    <3> QED BY <1>2, <2>6, <3>1 DEF Affects
  <2>7. CASE e.what = "move"
    <3>1. E = D
      BY <2>2, <2>3, <2>7 DEF FingersOf
    <3> QED BY <1>2, <2>7, <3>1 DEF Affects
  <2> QED BY <1>2, <2>5, <2>6, <2>7 DEF Strokes
<1>7. LeadsTo(Touching, T, v.queue, E)
  <2>1. D \in SUBSET Fingers /\ E \in SUBSET Fingers
    BY DEF FingersOf
  <2>2. w.queue \in Seq(WindowEvents) /\ LeadsTo(Touching, T, w.queue, D)
    BY ReportedOf DEF Windows, WindowRecord
  <2> HIDE DEF D, E
  <2> QED BY <1>2, <1>6, <2>1, <2>2, OneMoreTouch
<1>8. Reported(v, T, H2, hands)
  <2>1. H2 \cap Pads = H \cap Pads /\ ("stick" \in H2 <=> "stick" \in H) /\ ("cursor" \in H2 <=> "cursor" \in H)
    BY <1>4
  <2>2. v.pinch => "mouse" \in H2
    BY <1>2, <1>5
  <2> QED BY <1>2, <1>7, <2>1, <2>2 DEF Reported
<1> QED BY <1>1, <1>8

\* An event is about one input.
LEMMA OneInput ==
  ASSUME NEW H, NEW e, NEW H2, <<H, e, H2>> \in Pressing
  PROVE  /\ H \in SUBSET DeskInputs /\ H2 \in SUBSET DeskInputs /\ e \in PumpEvents
         /\ \A x : x # e.input => (x \in H2 <=> x \in H)
         /\ e.what \in Strokes => /\ e.input \in DeskInputs
                                  /\ e.input \in H2 <=> e.what # "up"
                                  /\ e.input \in H <=> e.what # "down"
         /\ e.what \notin Strokes => H2 = H
<1>1. /\ H \in SUBSET DeskInputs /\ H2 \in SUBSET DeskInputs /\ e \in PumpEvents
      /\ Presses(H, e, H2)
  BY PressingIs
<1> QED BY <1>1 DEF Presses, Strokes, PumpEvents

\* A direction of the pad.
LEMMA PadIs ==
  ASSUME NEW w \in Windows, NEW e \in PumpEvents, e.input \in Pads
  PROVE  LET v == OfPad(w, e)
             dirs == IF e.what = "down" THEN w.pads \cup {e.input} ELSE w.pads \ {e.input}
             kind == IF dirs = {} THEN "up" ELSE IF w.padActive THEN "move" ELSE "down"
         IN  /\ IF dirs = {} /\ ~w.padActive THEN v.queue = w.queue
                ELSE \E t \in WindowEvents : /\ t.kind = kind /\ DOMAIN t.at = {"DpadToTouch"}
                                             /\ v.queue = Append(w.queue, t)
             /\ v \in Windows /\ ~v.gathering /\ v.pads = dirs /\ v.padActive = (dirs # {}) /\ v.updated
             /\ v.high = w.high /\ v.polling = w.polling /\ v.pinch = w.pinch
             /\ v.stickActive = w.stickActive /\ v.cursor = w.cursor
             /\ v.controllers = w.controllers /\ v.rest = w.rest
<1> DEFINE dirs == IF e.what = "down" THEN w.pads \cup {e.input} ELSE w.pads \ {e.input}
           kind == IF dirs = {} THEN "up" ELSE IF w.padActive THEN "move" ELSE "down"
<1>1. PICK d : d = dirs
  OBVIOUS
<1>2. d \in SUBSET Pads
  BY <1>1 DEF Windows, WindowRecord
<1>3. PICK u : u = [w EXCEPT !.pads = d, !.padActive = d # {}, !.updated = TRUE, !.gathering = FALSE]
  OBVIOUS
<1>4. /\ u \in Windows /\ u.queue = w.queue /\ ~u.gathering /\ u.pads = d /\ u.padActive = (d # {}) /\ u.updated
      /\ u.high = w.high /\ u.polling = w.polling /\ u.pinch = w.pinch
      /\ u.stickActive = w.stickActive /\ u.cursor = w.cursor
      /\ u.controllers = w.controllers /\ u.rest = w.rest
  BY <1>2, <1>3 DEF Windows, WindowRecord
<1>5. PICK t : t = Touched(kind, {"DpadToTouch"}, nowhere)
  OBVIOUS
<1>6. t \in WindowEvents /\ t.kind = kind /\ DOMAIN t.at = {"DpadToTouch"}
  <2>1. kind \in Strokes
    BY DEF Strokes
  <2>2. {"DpadToTouch"} \in SUBSET Fingers /\ nowhere \in Places
    BY DEF Fingers, NamedFingers, Places
  <2> HIDE DEF kind
  <2> QED BY <1>5, <2>1, <2>2, TouchedIs
<1>7. OfPad(w, e) = IF d = {} /\ ~w.padActive THEN u ELSE Queued(u, t)
  BY <1>1, <1>3, <1>5, Zenon DEF OfPad
<1>8. CASE d = {} /\ ~w.padActive
  BY <1>1, <1>4, <1>7, <1>8
<1>9. CASE ~(d = {} /\ ~w.padActive)
  <2>1. PICK v : v = Queued(u, t)
    OBVIOUS
  <2>2. /\ v \in Windows /\ v.queue = Append(u.queue, t) /\ ~v.gathering
        /\ v.high = u.high /\ v.polling = u.polling /\ v.pads = u.pads /\ v.padActive = u.padActive
        /\ v.stickActive = u.stickActive /\ v.cursor = u.cursor /\ v.pinch = u.pinch
        /\ v.controllers = u.controllers /\ v.updated = u.updated /\ v.rest = u.rest
    BY <1>4, <1>6, <2>1, QueuedTouch
  <2>3. OfPad(w, e) = v
    BY <1>7, <1>9, <2>1
  <2>4. /\ v \in Windows /\ ~v.gathering /\ v.pads = d /\ v.padActive = (d # {}) /\ v.updated
        /\ v.high = w.high /\ v.polling = w.polling /\ v.pinch = w.pinch
        /\ v.stickActive = w.stickActive /\ v.cursor = w.cursor
        /\ v.controllers = w.controllers /\ v.rest = w.rest
    BY <1>4, <2>2
  <2>5. v.queue = Append(w.queue, t)
    BY <1>4, <2>2
  <2> HIDE DEF kind, dirs
  <2>6. \E x \in WindowEvents : /\ x.kind = kind /\ DOMAIN x.at = {"DpadToTouch"}
                                /\ v.queue = Append(w.queue, x)
    BY <1>6, <2>5
  <2>7. ~(dirs = {} /\ ~w.padActive)
    BY <1>1, <1>9
  <2> QED BY <1>1, <2>3, <2>4, <2>6, <2>7 DEF dirs, kind
<1> QED BY <1>8, <1>9

\* The pad.
LEMMA PadFollows ==
  ASSUME NEW w \in Windows, NEW e \in PumpEvents, e.input \in Pads,
         NEW T, NEW H, NEW H2, NEW hands, Reported(w, T, H, hands), <<H, e, H2>> \in Pressing
  PROVE  Reported(OfPad(w, e), T, H2, hands)
<1> DEFINE dirs == IF e.what = "down" THEN w.pads \cup {e.input} ELSE w.pads \ {e.input}
           kind == IF dirs = {} THEN "up" ELSE IF w.padActive THEN "move" ELSE "down"
<1>1. PICK v : v = OfPad(w, e)
  OBVIOUS
<1>2. /\ IF dirs = {} /\ ~w.padActive THEN v.queue = w.queue
         ELSE \E t \in WindowEvents : /\ t.kind = kind /\ DOMAIN t.at = {"DpadToTouch"}
                                      /\ v.queue = Append(w.queue, t)
      /\ v \in Windows /\ ~v.gathering /\ v.pads = dirs /\ v.padActive = (dirs # {}) /\ v.updated
      /\ v.high = w.high /\ v.polling = w.polling /\ v.pinch = w.pinch
      /\ v.stickActive = w.stickActive /\ v.cursor = w.cursor
      /\ v.controllers = w.controllers /\ v.rest = w.rest
  BY <1>1, PadIs
<1>3. /\ H \in SUBSET DeskInputs /\ H2 \in SUBSET DeskInputs
      /\ \A x : x # e.input => (x \in H2 <=> x \in H)
      /\ e.what \in Strokes /\ Presses(H, e, H2)
  <2>1. e.input \notin {"controller", "system"}
    BY Inputs
  <2> QED BY <2>1, OneInput, PressingIs DEF PumpEvents
<1>4. \A x \in {"stick", "cursor", "mouse"} \cup TouchFingers \cup Keys : x \in H2 <=> x \in H
  BY <1>3, Inputs
<1>5. dirs = H2 \cap Pads /\ w.padActive = (w.pads # {})
  BY <1>3, Inputs DEF Presses, Reported
<1> DEFINE D == FingersOf(H, w.padActive, w.stickActive, w.cursor, w.pinch)
           E == FingersOf(H2, v.padActive, v.stickActive, v.cursor, v.pinch)
<1>6. \A f : f # "DpadToTouch" => (f \in E <=> f \in D)
  <2>1. \A f \in TouchFingers \cup Keys : f \in H2 <=> f \in H
    BY <1>4
  <2>2. "mouse" \in H2 <=> "mouse" \in H
    BY <1>4
  <2> QED BY <1>2, <2>1, <2>2 DEF FingersOf, Stands
<1>7. /\ "DpadToTouch" \in D <=> w.padActive
      /\ "DpadToTouch" \in E <=> dirs # {}
  BY <1>2, Inputs DEF FingersOf, Stands, NamedFingers
<1>8. D \in SUBSET Fingers /\ E \in SUBSET Fingers
  BY DEF FingersOf
<1>9. w.queue \in Seq(WindowEvents) /\ LeadsTo(Touching, T, w.queue, D)
  BY ReportedOf DEF Windows, WindowRecord
<1> HIDE DEF D, E, dirs
<1>10. LeadsTo(Touching, T, v.queue, E)
  <2>1. CASE dirs = {} /\ ~w.padActive
    <3>1. \A f : f \in E <=> f \in D
      BY <1>6, <1>7, <2>1
    <3>2. D = E
      BY <3>1
    <3> QED BY <1>2, <1>9, <2>1, <3>2
  <2>2. CASE ~(dirs = {} /\ ~w.padActive)
    <3>1. PICK t \in WindowEvents : /\ t.kind = kind /\ DOMAIN t.at = {"DpadToTouch"}
                                    /\ v.queue = Append(w.queue, t)
      BY <1>2, <2>2
    <3>2. /\ t.kind \in Strokes
          /\ t.kind = "down" => "DpadToTouch" \notin D /\ "DpadToTouch" \in E
          /\ t.kind = "up" => "DpadToTouch" \notin E
          /\ t.kind = "move" => ("DpadToTouch" \in E <=> "DpadToTouch" \in D)
      BY <1>7, <3>1 DEF Strokes
    <3>3. LeadsTo(Touching, T, Append(w.queue, t), E)
      BY <1>6, <1>8, <1>9, <3>1, <3>2, OneFinger
    <3> QED BY <3>1, <3>3
  <2> QED BY <2>1, <2>2
<1>11. ("stick" \in H2 <=> "stick" \in H) /\ ("cursor" \in H2 <=> "cursor" \in H) /\ ("mouse" \in H2 <=> "mouse" \in H)
  BY <1>4
<1>12. Reported(v, T, H2, hands)
  BY <1>2, <1>5, <1>10, <1>11 DEF Reported, E
<1> QED BY <1>1, <1>12

\* A button of the controller.
LEMMA KeyIs ==
  ASSUME NEW w \in Windows, NEW e \in PumpEvents, e.input \in Keys
  PROVE  LET v == [Queued(w, Touched(e.what, {e.input}, nowhere)) EXCEPT !.updated = TRUE]
         IN  \E t \in WindowEvents :
               /\ t.kind = e.what /\ t.kind \in Strokes /\ DOMAIN t.at = {e.input}
               /\ v \in Windows /\ v.queue = Append(w.queue, t) /\ ~v.gathering /\ v.updated
               /\ v.high = w.high /\ v.polling = w.polling /\ v.pads = w.pads /\ v.padActive = w.padActive
               /\ v.stickActive = w.stickActive /\ v.cursor = w.cursor /\ v.pinch = w.pinch
               /\ v.controllers = w.controllers /\ v.rest = w.rest
<1>1. e.what \in Strokes /\ nowhere \in Places /\ {e.input} \in SUBSET Fingers
  BY Inputs DEF PumpEvents, Places
<1>2. PICK t : t = Touched(e.what, {e.input}, nowhere)
  OBVIOUS
<1>3. t \in WindowEvents /\ t.kind = e.what /\ DOMAIN t.at = {e.input}
  BY <1>1, <1>2, TouchedIs
<1>4. PICK u : u = Queued(w, t)
  OBVIOUS
<1>5. /\ u \in Windows /\ u.queue = Append(w.queue, t) /\ ~u.gathering
      /\ u.high = w.high /\ u.polling = w.polling /\ u.pads = w.pads /\ u.padActive = w.padActive
      /\ u.stickActive = w.stickActive /\ u.cursor = w.cursor /\ u.pinch = w.pinch
      /\ u.controllers = w.controllers /\ u.updated = w.updated /\ u.rest = w.rest
  BY <1>3, <1>4, QueuedTouch
<1>6. PICK v : v = [u EXCEPT !.updated = TRUE]
  OBVIOUS
<1>7. /\ v \in Windows /\ v.queue = u.queue /\ ~v.gathering /\ v.pinch = u.pinch /\ v.updated
      /\ v.high = u.high /\ v.polling = u.polling /\ v.pads = u.pads /\ v.padActive = u.padActive
      /\ v.stickActive = u.stickActive /\ v.cursor = u.cursor
      /\ v.controllers = u.controllers /\ v.rest = u.rest
  BY <1>5, <1>6 DEF Windows, WindowRecord
<1> QED BY <1>1, <1>2, <1>3, <1>4, <1>5, <1>6, <1>7

\* The controller's buttons.
LEMMA KeyFollows ==
  ASSUME NEW w \in Windows, NEW e \in PumpEvents, e.input \in Keys,
         NEW T, NEW H, NEW H2, NEW hands, Reported(w, T, H, hands), <<H, e, H2>> \in Pressing
  PROVE  Reported([Queued(w, Touched(e.what, {e.input}, nowhere)) EXCEPT !.updated = TRUE], T, H2, hands)
<1>1. PICK v : v = [Queued(w, Touched(e.what, {e.input}, nowhere)) EXCEPT !.updated = TRUE]
  OBVIOUS
<1>2. PICK t \in WindowEvents :
        /\ t.kind = e.what /\ t.kind \in Strokes /\ DOMAIN t.at = {e.input}
        /\ v \in Windows /\ v.queue = Append(w.queue, t) /\ ~v.gathering /\ v.updated
        /\ v.high = w.high /\ v.polling = w.polling /\ v.pads = w.pads /\ v.padActive = w.padActive
        /\ v.stickActive = w.stickActive /\ v.cursor = w.cursor /\ v.pinch = w.pinch
        /\ v.controllers = w.controllers /\ v.rest = w.rest
  BY <1>1, KeyIs
<1>3. PICK x : x = e.input
  OBVIOUS
<1>4. /\ H \in SUBSET DeskInputs /\ H2 \in SUBSET DeskInputs
      /\ \A y : y # x => (y \in H2 <=> y \in H)
      /\ x \in H2 <=> e.what # "up"
      /\ x \in H <=> e.what # "down"
  BY <1>2, <1>3, OneInput
<1>5. x \in Keys /\ x \in Fingers /\ x \notin NamedFingers /\ x \notin Pads /\ x \notin {"mouse", "stick", "cursor"}
  BY <1>3, Inputs
<1>6. /\ H2 \cap Pads = H \cap Pads /\ ("mouse" \in H2 <=> "mouse" \in H)
      /\ ("stick" \in H2 <=> "stick" \in H) /\ ("cursor" \in H2 <=> "cursor" \in H)
  BY <1>4, <1>5
<1> DEFINE D == FingersOf(H, w.padActive, w.stickActive, w.cursor, w.pinch)
           E == FingersOf(H2, v.padActive, v.stickActive, v.cursor, v.pinch)
<1>7. \A f : f # x => (f \in E <=> f \in D)
  BY <1>2, <1>4, <1>6 DEF FingersOf, Stands
<1>8. (x \in D <=> x \in H) /\ (x \in E <=> x \in H2)
  BY <1>5 DEF FingersOf, Stands, NamedFingers
<1>9. D \in SUBSET Fingers /\ E \in SUBSET Fingers
  BY DEF FingersOf
<1>10. w.queue \in Seq(WindowEvents) /\ LeadsTo(Touching, T, w.queue, D)
  BY ReportedOf DEF Windows, WindowRecord
<1> HIDE DEF D, E
<1>11. LeadsTo(Touching, T, v.queue, E)
  <2>1. /\ t.kind = "down" => x \notin D /\ x \in E
        /\ t.kind = "up" => x \notin E
        /\ t.kind = "move" => (x \in E <=> x \in D)
    BY <1>2, <1>4, <1>8
  <2>2. LeadsTo(Touching, T, Append(w.queue, t), E)
    BY <1>2, <1>3, <1>7, <1>9, <1>10, <2>1, OneFinger
  <2> QED BY <1>2, <2>2
<1>12. Reported(v, T, H2, hands)
  BY <1>2, <1>6, <1>11 DEF Reported, E
<1> QED BY <1>1, <1>12

\* The stick of the controller: out tells whether it is moved.
Stick(v, w, out) ==
    LET kind == IF ~out THEN "up" ELSE IF w.stickActive THEN "move" ELSE "down"
    IN  /\ IF ~out /\ ~w.stickActive THEN v.queue = w.queue
           ELSE \E t \in WindowEvents : /\ t.kind = kind /\ DOMAIN t.at = {"StickToTouch"}
                                        /\ v.queue = Append(w.queue, t)
        /\ v \in Windows /\ ~v.gathering /\ v.stickActive = out /\ v.updated
        /\ v.high = w.high /\ v.polling = w.polling /\ v.pinch = w.pinch
        /\ v.pads = w.pads /\ v.padActive = w.padActive /\ v.cursor = w.cursor
        /\ v.controllers = w.controllers /\ v.rest = w.rest

\* The stick is moved, or let go.
LEMMA StickIs ==
  ASSUME NEW w \in Windows, NEW e \in PumpEvents, NEW out \in BOOLEAN
  PROVE  Stick(OfStick(w, e, out), w, out)
<1> DEFINE kind == IF ~out THEN "up" ELSE IF w.stickActive THEN "move" ELSE "down"
<1>1. PICK u : u = [w EXCEPT !.stickActive = out, !.updated = TRUE, !.gathering = FALSE]
  OBVIOUS
<1>2. /\ u \in Windows /\ u.queue = w.queue /\ ~u.gathering /\ u.stickActive = out /\ u.updated
      /\ u.high = w.high /\ u.polling = w.polling /\ u.pinch = w.pinch
      /\ u.pads = w.pads /\ u.padActive = w.padActive /\ u.cursor = w.cursor
      /\ u.controllers = w.controllers /\ u.rest = w.rest
  BY <1>1 DEF Windows, WindowRecord
<1>3. PICK t : t = Touched(kind, {"StickToTouch"}, nowhere)
  OBVIOUS
<1>4. t \in WindowEvents /\ t.kind = kind /\ DOMAIN t.at = {"StickToTouch"}
  <2>1. kind \in Strokes
    BY DEF Strokes
  <2>2. {"StickToTouch"} \in SUBSET Fingers /\ nowhere \in Places
    BY DEF Fingers, NamedFingers, Places
  <2> HIDE DEF kind
  <2> QED BY <1>3, <2>1, <2>2, TouchedIs
<1>5. OfStick(w, e, out) = IF ~out /\ ~w.stickActive THEN u ELSE Queued(u, t)
  BY <1>1, <1>3, Zenon DEF OfStick
<1>6. CASE ~out /\ ~w.stickActive
  BY <1>2, <1>5, <1>6 DEF Stick
<1>7. CASE ~(~out /\ ~w.stickActive)
  <2>1. PICK v : v = Queued(u, t)
    OBVIOUS
  <2>2. /\ v \in Windows /\ v.queue = Append(u.queue, t) /\ ~v.gathering
        /\ v.high = u.high /\ v.polling = u.polling /\ v.pads = u.pads /\ v.padActive = u.padActive
        /\ v.stickActive = u.stickActive /\ v.cursor = u.cursor /\ v.pinch = u.pinch
        /\ v.controllers = u.controllers /\ v.updated = u.updated /\ v.rest = u.rest
    BY <1>2, <1>4, <2>1, QueuedTouch
  <2>3. OfStick(w, e, out) = v
    BY <1>5, <1>7, <2>1
  <2>4. /\ v \in Windows /\ ~v.gathering /\ v.stickActive = out /\ v.updated
        /\ v.high = w.high /\ v.polling = w.polling /\ v.pinch = w.pinch
        /\ v.pads = w.pads /\ v.padActive = w.padActive /\ v.cursor = w.cursor
        /\ v.controllers = w.controllers /\ v.rest = w.rest
    BY <1>2, <2>2
  <2>5. v.queue = Append(w.queue, t)
    BY <1>2, <2>2
  <2> HIDE DEF kind
  <2>6. \E x \in WindowEvents : /\ x.kind = kind /\ DOMAIN x.at = {"StickToTouch"}
                                /\ v.queue = Append(w.queue, x)
    BY <1>4, <2>5
  <2> QED BY <1>7, <2>3, <2>4, <2>6 DEF kind, Stick
<1> QED BY <1>6, <1>7

\* The stick: what counts is where it is now.
LEMMA StickFollows ==
  ASSUME NEW w \in Windows, NEW e \in PumpEvents, e.input = "stick",
         NEW T, NEW H, NEW H2, NEW hands, Reported(w, T, H, hands), <<H, e, H2>> \in Pressing
  PROVE  Reported(OfStick(w, e, w.controllers /\ "stick" \in hands), T, H2, hands)
<1>1. PICK out : out = (w.controllers /\ "stick" \in hands)
  OBVIOUS
<1>2. out \in BOOLEAN /\ (out <=> "stick" \in hands) /\ w.stickActive \in BOOLEAN
  BY <1>1 DEF Reported, Windows, WindowRecord
<1>3. PICK v : v = OfStick(w, e, out)
  OBVIOUS
<1> DEFINE kind == IF ~out THEN "up" ELSE IF w.stickActive THEN "move" ELSE "down"
<1>4. /\ IF ~out /\ ~w.stickActive THEN v.queue = w.queue
         ELSE \E t \in WindowEvents : /\ t.kind = kind /\ DOMAIN t.at = {"StickToTouch"}
                                      /\ v.queue = Append(w.queue, t)
      /\ v \in Windows /\ ~v.gathering /\ v.stickActive = out /\ v.updated
      /\ v.high = w.high /\ v.polling = w.polling /\ v.pinch = w.pinch
      /\ v.pads = w.pads /\ v.padActive = w.padActive /\ v.cursor = w.cursor
      /\ v.controllers = w.controllers /\ v.rest = w.rest
  <2>1. out \in BOOLEAN
    BY <1>2
  <2>2. Stick(v, w, out)
    BY <1>3, <2>1, StickIs, Zenon
  <2> QED BY <2>2 DEF Stick
<1>5. \A y : y # "stick" => (y \in H2 <=> y \in H)
  BY OneInput
<1>6. \A y \in Pads \cup TouchFingers \cup Keys : y # "stick"
  BY Inputs
<1>7. H2 \cap Pads = H \cap Pads /\ ("mouse" \in H2 <=> "mouse" \in H) /\ ("cursor" \in H2 <=> "cursor" \in H)
  BY <1>5, <1>6
<1> DEFINE D == FingersOf(H, w.padActive, w.stickActive, w.cursor, w.pinch)
           E == FingersOf(H2, v.padActive, v.stickActive, v.cursor, v.pinch)
           x == "StickToTouch"
<1>8. \A f : f # x => (f \in E <=> f \in D)
  <2>1. \A f \in TouchFingers \cup Keys : f \in H2 <=> f \in H
    BY <1>5, <1>6
  <2> QED BY <1>4, <1>7, <2>1 DEF FingersOf, Stands
<1>9. (x \in D <=> w.stickActive) /\ (x \in E <=> out)
  BY <1>4, Inputs DEF FingersOf, Stands, NamedFingers
<1>10. D \in SUBSET Fingers /\ E \in SUBSET Fingers
  BY DEF FingersOf
<1>11. w.queue \in Seq(WindowEvents) /\ LeadsTo(Touching, T, w.queue, D)
  BY ReportedOf DEF Windows, WindowRecord
<1> HIDE DEF D, E, x
<1>12. LeadsTo(Touching, T, v.queue, E)
  <2>1. CASE ~out /\ ~w.stickActive
    <3>1. \A f : f \in E <=> f \in D
      BY <1>8, <1>9, <2>1
    <3>2. D = E
      BY <3>1
    <3> QED BY <1>4, <1>11, <2>1, <3>2
  <2>2. CASE ~(~out /\ ~w.stickActive)
    <3>1. PICK t \in WindowEvents : /\ t.kind = kind /\ DOMAIN t.at = {"StickToTouch"}
                                    /\ v.queue = Append(w.queue, t)
      BY <1>4, <2>2
    <3>2. /\ t.kind \in Strokes /\ DOMAIN t.at = {x}
          /\ t.kind = "down" => x \notin D /\ x \in E
          /\ t.kind = "up" => x \notin E
          /\ t.kind = "move" => (x \in E <=> x \in D)
      BY <1>9, <3>1 DEF Strokes, x
    <3>3. LeadsTo(Touching, T, Append(w.queue, t), E)
      BY <1>8, <1>10, <1>11, <3>1, <3>2, OneFinger
    <3> QED BY <3>1, <3>3
  <2> QED BY <2>1, <2>2
<1>13. Reported(v, T, H2, hands)
  BY <1>2, <1>4, <1>7, <1>12 DEF Reported, E
<1> QED BY <1>1, <1>3, <1>13

\* The stick's button, the virtual cursor, is looked at after the batch.
LEMMA CursorFollows ==
  ASSUME NEW w \in Windows, NEW e \in PumpEvents, e.input = "cursor"
  PROVE  LET v == [w EXCEPT !.updated = TRUE, !.gathering = FALSE]
         IN  /\ v \in Windows /\ v.controllers = w.controllers /\ v.polling = w.polling
             /\ \A T, H, H2, hands : Reported(w, T, H, hands) /\ <<H, e, H2>> \in Pressing => Reported(v, T, H2, hands)
<1>1. PICK v : v = [w EXCEPT !.updated = TRUE, !.gathering = FALSE]
  OBVIOUS
<1>2. /\ v \in Windows /\ v.queue = w.queue /\ ~v.gathering /\ v.pinch = w.pinch /\ v.updated
      /\ v.high = w.high /\ v.polling = w.polling /\ v.pads = w.pads /\ v.padActive = w.padActive
      /\ v.stickActive = w.stickActive /\ v.cursor = w.cursor
      /\ v.controllers = w.controllers /\ v.rest = w.rest
  BY <1>1 DEF Windows, WindowRecord
<1>3. ASSUME NEW T, NEW H, NEW H2, NEW hands, Reported(w, T, H, hands), <<H, e, H2>> \in Pressing
      PROVE  Reported(v, T, H2, hands)
  <2>1. \A y : y # "cursor" => (y \in H2 <=> y \in H)
    BY <1>3, OneInput
  <2>2. \A y \in Pads \cup TouchFingers \cup Keys : y # "cursor"
    BY Inputs
  <2>3. H2 \cap Pads = H \cap Pads /\ ("mouse" \in H2 <=> "mouse" \in H) /\ ("stick" \in H2 <=> "stick" \in H)
    BY <2>1, <2>2
  <2> DEFINE D == FingersOf(H, w.padActive, w.stickActive, w.cursor, w.pinch)
             E == FingersOf(H2, v.padActive, v.stickActive, v.cursor, v.pinch)
  <2>4. \A f : f \in E <=> f \in D
    <3>1. \A f \in TouchFingers \cup Keys : f \in H2 <=> f \in H
      BY <2>1, <2>2
    <3> QED BY <1>2, <2>3, <3>1 DEF FingersOf, Stands
  <2> HIDE DEF D, E
  <2>5. D = E
    BY <2>4
  <2>6. LeadsTo(Touching, T, w.queue, D)
    BY <1>3, ReportedOf DEF D
  <2> QED BY <1>2, <1>3, <2>3, <2>5, <2>6 DEF Reported, E
<1> QED BY <1>1, <1>2, <1>3

\* A controller that comes or goes.
LEMMA ControllerFollows ==
  ASSUME NEW w \in Windows, NEW e \in PumpEvents, e.input = "controller"
  PROVE  LET v == [w EXCEPT !.controllers = (e.what = "added"), !.gathering = FALSE]
         IN  /\ v \in Windows /\ v.controllers = (e.what = "added") /\ v.polling = w.polling
             /\ \A T, H, H2, hands :
                  /\ Reported(w, T, H, hands) /\ <<H, e, H2>> \in Pressing
                  /\ "stick" \notin hands /\ "cursor" \notin hands
                  => Reported(v, T, H2, hands)
<1>1. PICK b : b = (e.what = "added")
  OBVIOUS
<1>2. b \in BOOLEAN
  BY <1>1
<1>3. PICK v : v = [w EXCEPT !.controllers = b, !.gathering = FALSE]
  OBVIOUS
<1>4. /\ v \in Windows /\ v.queue = w.queue /\ ~v.gathering /\ v.pinch = w.pinch /\ v.updated = w.updated
      /\ v.high = w.high /\ v.polling = w.polling /\ v.pads = w.pads /\ v.padActive = w.padActive
      /\ v.stickActive = w.stickActive /\ v.cursor = w.cursor
      /\ v.controllers = b /\ v.rest = w.rest
  BY <1>2, <1>3 DEF Windows, WindowRecord
<1>5. ASSUME NEW T, NEW H, NEW H2, NEW hands, Reported(w, T, H, hands), <<H, e, H2>> \in Pressing,
             "stick" \notin hands, "cursor" \notin hands
      PROVE  Reported(v, T, H2, hands)
  <2>1. e.what \notin Strokes
    BY Inputs DEF PumpEvents, Strokes
  <2>2. H2 = H
    BY <1>5, <2>1, OneInput
  <2> QED BY <1>4, <1>5, <2>2 DEF Reported
<1> QED BY <1>1, <1>3, <1>4, <1>5

\* The system: what is urgent ends the polling.
LEMMA SystemFollows ==
  ASSUME NEW w \in Windows, w.polling, NEW e \in PumpEvents, e.input = "system"
  PROVE  LET v == OfSystem(w, e)
         IN  /\ v \in Windows /\ v.controllers = w.controllers
             /\ ~v.polling => v.high # "none"
             /\ \A T, H, H2, hands :
                  Reported(w, T, H, hands) /\ <<H, e, H2>> \in Pressing => FollowsHands(v, T, H2, hands)
<1>1. e.what \in {"quit", "background", "terminating", "F12"} /\ e.what \notin Strokes
  BY Inputs DEF PumpEvents, Strokes
<1>2. CASE e.what \in {"quit", "F12"}
  <2>1. PICK t : t = IF e.what = "quit" THEN [kind |-> "quit"] ELSE [kind |-> "debugger"]
    OBVIOUS
  <2>2. t \in WindowEvents /\ t.kind \notin {"down", "up"}
    BY <2>1 DEF WindowEvents
  <2>3. PICK v : v = Queued(w, t)
    OBVIOUS
  <2>4. OfSystem(w, e) = v
    BY <1>2, <2>1, <2>3 DEF OfSystem
  <2>5. /\ v \in Windows /\ v.queue = Append(w.queue, t) /\ ~v.gathering
        /\ v.high = w.high /\ v.polling = w.polling /\ v.pads = w.pads /\ v.padActive = w.padActive
        /\ v.stickActive = w.stickActive /\ v.cursor = w.cursor /\ v.pinch = w.pinch
        /\ v.controllers = w.controllers /\ v.updated = w.updated /\ v.rest = w.rest
    BY <2>2, <2>3, QueuedTouch
  <2>6. ASSUME NEW T, NEW H, NEW H2, NEW hands, Reported(w, T, H, hands), <<H, e, H2>> \in Pressing
        PROVE  Reported(v, T, H2, hands)
    <3> DEFINE D == FingersOf(H, w.padActive, w.stickActive, w.cursor, w.pinch)
    <3>1. H2 = H
      BY <1>1, <2>6, OneInput
    <3>2. D \in SUBSET Fingers /\ w.queue \in Seq(WindowEvents) /\ LeadsTo(Touching, T, w.queue, D)
      BY <2>6, ReportedOf DEF FingersOf, Windows, WindowRecord
    <3> HIDE DEF D
    <3>3. Affects(D, t, D)
      BY <2>2 DEF Affects
    <3>4. LeadsTo(Touching, T, Append(w.queue, t), D)
      BY <2>2, <3>2, <3>3, OneMoreTouch
    <3> QED BY <2>5, <2>6, <3>1, <3>4 DEF Reported, D
  <2>7. v.polling
    BY <2>5
  <2> QED BY <2>4, <2>5, <2>6, <2>7 DEF FollowsHands
<1>3. CASE e.what \in {"background", "terminating"}
  <2>1. PICK v : v = [w EXCEPT !.high = e.what, !.polling = FALSE, !.gathering = FALSE]
    OBVIOUS
  <2>2. OfSystem(w, e) = v
    BY <1>3, <2>1 DEF OfSystem
  <2>3. v \in Windows /\ v.high = e.what /\ ~v.polling /\ v.controllers = w.controllers
    BY <1>3, <2>1 DEF Windows, WindowRecord
  <2> QED BY <1>3, <2>2, <2>3 DEF FollowsHands
<1> QED BY <1>1, <1>2, <1>3

\* A touch event with one more finger.
WithFinger(t, x, p) ==
    [t EXCEPT !.at = [f \in DOMAIN @ \cup {x} |-> IF f = x THEN p ELSE @[f]]]
\* It is another touch event of its kind.
LEMMA AnotherTouch ==
  ASSUME NEW t \in WindowEvents, t.kind \in Strokes, NEW x \in Fingers, NEW p \in Places
  PROVE  /\ WithFinger(t, x, p) \in WindowEvents /\ WithFinger(t, x, p).kind = t.kind
         /\ DOMAIN WithFinger(t, x, p).at = DOMAIN t.at \cup {x}
<1>1. t \in [kind : Strokes, at : TouchMaps]
  BY DEF WindowEvents, Strokes
<1>2. PICK m : m = [f \in DOMAIN t.at \cup {x} |-> IF f = x THEN p ELSE t.at[f]]
  OBVIOUS
<1>3. m \in TouchMaps /\ DOMAIN m = DOMAIN t.at \cup {x}
  BY <1>1, <1>2, MoreTouches
<1>4. WithFinger(t, x, p) = [t EXCEPT !.at = m]
  BY <1>2 DEF WithFinger
<1>5. PICK n : n = [t EXCEPT !.at = m]
  OBVIOUS
<1>6. n \in WindowEvents /\ n.kind = t.kind /\ n.at = m
  BY <1>1, <1>3, <1>5 DEF WindowEvents
<1> QED BY <1>3, <1>4, <1>5, <1>6

\* A finger: its event joins the last one, or follows it.
LEMMA FingerIs ==
  ASSUME NEW w \in Windows, NEW e \in PumpEvents, e.input \in TouchFingers
  PROVE  LET v == OfFinger(w, e)
         IN  /\ v \in Windows
             /\ v.high = w.high /\ v.polling = w.polling /\ v.pads = w.pads /\ v.padActive = w.padActive
             /\ v.stickActive = w.stickActive /\ v.cursor = w.cursor /\ v.pinch = w.pinch
             /\ v.controllers = w.controllers /\ v.updated = w.updated /\ v.rest = w.rest
             /\ \/ \E t \in WindowEvents : /\ t.kind = e.what /\ DOMAIN t.at = {e.input}
                                           /\ v.queue = Append(w.queue, t)
                \/ /\ w.queue # <<>> /\ Last(w.queue).kind = e.what
                   /\ \E t \in WindowEvents :
                        /\ t.kind = e.what /\ DOMAIN t.at = DOMAIN Last(w.queue).at \cup {e.input}
                        /\ v.queue = [w.queue EXCEPT ![Len(w.queue)] = t]
<1>1. e.what \in Strokes /\ e.at \in Places /\ e.input \in Fingers
  BY Inputs DEF PumpEvents
<1>2. w.queue \in Seq(WindowEvents) /\ w.gathering \in BOOLEAN /\ (w.gathering => w.queue # <<>>)
  BY DEF Windows, WindowRecord
<1>3. CASE w.gathering /\ e.same /\ Last(w.queue).kind = e.what
  <2>1. PICK l : l = Last(w.queue)
    OBVIOUS
  <2>2. l \in WindowEvents /\ l = w.queue[Len(w.queue)] /\ l.kind \in Strokes
    <3>1. w.queue \in Seq(WindowEvents) /\ w.queue # <<>>
      BY <1>2, <1>3
    <3>2. Last(w.queue) \in WindowEvents /\ Last(w.queue) = w.queue[Len(w.queue)]
      BY <3>1, FrontLast
    <3> QED BY <1>1, <1>3, <2>1, <3>2
  <2>3. PICK t : t = WithFinger(l, e.input, e.at)
    OBVIOUS
  <2>4. t \in WindowEvents /\ t.kind = l.kind /\ DOMAIN t.at = DOMAIN l.at \cup {e.input}
    BY <1>1, <2>2, <2>3, AnotherTouch
  <2>5. PICK q : q = [w.queue EXCEPT ![Len(w.queue)] = t]
    OBVIOUS
  <2>6. q \in Seq(WindowEvents) /\ q # <<>>
    BY <1>2, <1>3, <2>4, <2>5, TopReplaced
  <2>7. PICK v : v = [w EXCEPT !.queue = q]
    OBVIOUS
  <2>8. OfFinger(w, e) = v
    <3>1. OfFinger(w, e) = [w EXCEPT !.queue[Len(w.queue)].at =
             [f \in DOMAIN @ \cup {e.input} |-> IF f = e.input THEN e.at ELSE @[f]]]
      BY <1>3 DEF OfFinger
    <3> QED BY <2>2, <2>3, <2>5, <2>7, <3>1 DEF WithFinger
  <2>9. /\ v \in Windows
        /\ v.high = w.high /\ v.polling = w.polling /\ v.pads = w.pads /\ v.padActive = w.padActive
        /\ v.stickActive = w.stickActive /\ v.cursor = w.cursor /\ v.pinch = w.pinch
        /\ v.controllers = w.controllers /\ v.updated = w.updated /\ v.rest = w.rest /\ v.queue = q
    BY <2>6, <2>7 DEF Windows, WindowRecord
  <2> QED BY <1>2, <1>3, <2>1, <2>4, <2>5, <2>8, <2>9
<1>4. CASE ~(w.gathering /\ e.same /\ Last(w.queue).kind = e.what)
  <2>1. PICK t : t = Touched(e.what, {e.input}, e.at)
    OBVIOUS
  <2>2. t \in WindowEvents /\ t.kind = e.what /\ DOMAIN t.at = {e.input}
    BY <1>1, <2>1, TouchedIs
  <2>3. PICK u : u = Queued(w, t)
    OBVIOUS
  <2>4. /\ u \in Windows /\ u.queue = Append(w.queue, t) /\ ~u.gathering
        /\ u.high = w.high /\ u.polling = w.polling /\ u.pads = w.pads /\ u.padActive = w.padActive
        /\ u.stickActive = w.stickActive /\ u.cursor = w.cursor /\ u.pinch = w.pinch
        /\ u.controllers = w.controllers /\ u.updated = w.updated /\ u.rest = w.rest
    BY <2>2, <2>3, QueuedTouch
  <2>5. Append(w.queue, t) # <<>>
    BY <1>2, <2>2, Pushed
  <2>6. PICK v : v = [u EXCEPT !.gathering = TRUE]
    OBVIOUS
  <2>7. OfFinger(w, e) = v
    BY <1>4, <2>1, <2>3, <2>6 DEF OfFinger
  <2>8. /\ v \in Windows
        /\ v.high = u.high /\ v.polling = u.polling /\ v.pads = u.pads /\ v.padActive = u.padActive
        /\ v.stickActive = u.stickActive /\ v.cursor = u.cursor /\ v.pinch = u.pinch
        /\ v.controllers = u.controllers /\ v.updated = u.updated /\ v.rest = u.rest /\ v.queue = u.queue
    BY <2>4, <2>5, <2>6 DEF Windows, WindowRecord
  <2>9. v.queue = Append(w.queue, t)
    BY <2>4, <2>8
  <2> QED BY <2>2, <2>4, <2>7, <2>8, <2>9
<1> QED BY <1>3, <1>4

\* The touch screen.
LEMMA FingerFollows ==
  ASSUME NEW w \in Windows, NEW e \in PumpEvents, e.input \in TouchFingers,
         NEW T, NEW H, NEW H2, NEW hands, Reported(w, T, H, hands), <<H, e, H2>> \in Pressing
  PROVE  Reported(OfFinger(w, e), T, H2, hands)
<1>1. PICK v : v = OfFinger(w, e)
  OBVIOUS
<1>2. PICK x : x = e.input
  OBVIOUS
<1>3. /\ v \in Windows
      /\ v.high = w.high /\ v.polling = w.polling /\ v.pads = w.pads /\ v.padActive = w.padActive
      /\ v.stickActive = w.stickActive /\ v.cursor = w.cursor /\ v.pinch = w.pinch
      /\ v.controllers = w.controllers /\ v.updated = w.updated /\ v.rest = w.rest
      /\ \/ \E t \in WindowEvents : /\ t.kind = e.what /\ DOMAIN t.at = {x}
                                    /\ v.queue = Append(w.queue, t)
         \/ /\ w.queue # <<>> /\ Last(w.queue).kind = e.what
            /\ \E t \in WindowEvents :
                 /\ t.kind = e.what /\ DOMAIN t.at = DOMAIN Last(w.queue).at \cup {x}
                 /\ v.queue = [w.queue EXCEPT ![Len(w.queue)] = t]
  BY <1>1, <1>2, FingerIs
<1>4. x \in TouchFingers /\ x \in Fingers /\ x \notin NamedFingers /\ x \notin Pads /\ x \notin {"mouse", "stick", "cursor"}
  BY <1>2, Inputs
<1>5. /\ e.what \in Strokes
      /\ H \in SUBSET DeskInputs /\ H2 \in SUBSET DeskInputs
      /\ \A y : y # x => (y \in H2 <=> y \in H)
      /\ x \in H2 <=> e.what # "up"
      /\ x \in H <=> e.what # "down"
  <2>1. e.what \in Strokes
    BY Inputs DEF PumpEvents
  <2> QED BY <1>2, <2>1, OneInput
<1>6. /\ H2 \cap Pads = H \cap Pads /\ ("mouse" \in H2 <=> "mouse" \in H)
      /\ ("stick" \in H2 <=> "stick" \in H) /\ ("cursor" \in H2 <=> "cursor" \in H)
  BY <1>4, <1>5
<1> DEFINE D == FingersOf(H, w.padActive, w.stickActive, w.cursor, w.pinch)
           E == FingersOf(H2, v.padActive, v.stickActive, v.cursor, v.pinch)
<1>7. \A f : f # x => (f \in E <=> f \in D)
  BY <1>3, <1>5, <1>6 DEF FingersOf, Stands
<1>8. (x \in D <=> x \in H) /\ (x \in E <=> x \in H2)
  BY <1>4 DEF FingersOf, Stands, NamedFingers
<1>9. D \in SUBSET Fingers /\ E \in SUBSET Fingers
  BY DEF FingersOf
<1>10. w.queue \in Seq(WindowEvents) /\ LeadsTo(Touching, T, w.queue, D)
  BY ReportedOf DEF Windows, WindowRecord
<1> HIDE DEF D, E
<1>11. LeadsTo(Touching, T, v.queue, E)
  <2>1. CASE \E t \in WindowEvents : /\ t.kind = e.what /\ DOMAIN t.at = {x}
                                     /\ v.queue = Append(w.queue, t)
    <3>1. PICK t \in WindowEvents : t.kind = e.what /\ DOMAIN t.at = {x} /\ v.queue = Append(w.queue, t)
      BY <2>1
    <3>2. /\ t.kind = "down" => x \notin D /\ x \in E
          /\ t.kind = "up" => x \notin E
          /\ t.kind = "move" => (x \in E <=> x \in D)
      BY <1>5, <1>8, <3>1
    <3>3. LeadsTo(Touching, T, Append(w.queue, t), E)
      BY <1>5, <1>7, <1>9, <1>10, <3>1, <3>2, OneFinger
    <3> QED BY <3>1, <3>3
  <2>2. CASE /\ w.queue # <<>> /\ Last(w.queue).kind = e.what
             /\ \E t \in WindowEvents :
                  /\ t.kind = e.what /\ DOMAIN t.at = DOMAIN Last(w.queue).at \cup {x}
                  /\ v.queue = [w.queue EXCEPT ![Len(w.queue)] = t]
    <3>1. PICK l : l = Last(w.queue)
      OBVIOUS
    <3>2. PICK t \in WindowEvents :
            /\ t.kind = e.what /\ DOMAIN t.at = DOMAIN l.at \cup {x}
            /\ v.queue = [w.queue EXCEPT ![Len(w.queue)] = t]
      BY <2>2, <3>1
    <3>3. ASSUME NEW A, <<A, l, D>> \in Touching PROVE <<A, t, E>> \in Touching
      <4>1. A \in SUBSET Fingers /\ Affects(A, l, D) /\ l.kind = e.what
        BY <2>2, <3>1, <3>3, TouchingIs
      <4>2. CASE e.what = "down"
        <5>1. x \notin D /\ x \in E
          BY <1>5, <1>8, <4>2
        <5>2. DOMAIN l.at \cap A = {} /\ D = A \cup DOMAIN l.at /\ IsFiniteSet(DOMAIN l.at)
          BY <4>1, <4>2 DEF Affects
        <5>3. IsFiniteSet(DOMAIN t.at)
          BY <3>2, <5>2, FS_AddElement
        <5>4. DOMAIN t.at \cap A = {} /\ \A f : f \in E <=> f \in A \cup DOMAIN t.at
          BY <1>7, <3>2, <5>1, <5>2
        <5>5. E = A \cup DOMAIN t.at
          BY <5>4
        <5>6. Affects(A, t, E)
          BY <3>2, <4>2, <5>3, <5>4, <5>5 DEF Affects
        <5> QED BY <1>9, <4>1, <5>6, TouchingIs
      <4>3. CASE e.what = "up"
        <5>1. x \notin E
          BY <1>5, <1>8, <4>3
        <5>2. D = A \ DOMAIN l.at
          BY <4>1, <4>3 DEF Affects
        <5>3. \A f : f \in E <=> f \in A \ DOMAIN t.at
          BY <1>7, <3>2, <5>1, <5>2
        <5>4. E = A \ DOMAIN t.at
          BY <5>3
        <5>5. Affects(A, t, E)
          BY <3>2, <4>3, <5>4 DEF Affects
        <5> QED BY <1>9, <4>1, <5>5, TouchingIs
      <4>4. CASE e.what = "move"
        <5>1. \A f : f \in E <=> f \in D
          BY <1>5, <1>7, <1>8, <4>4
        <5>2. E = D
          BY <5>1
        <5>3. Affects(A, t, E)
          BY <3>2, <4>1, <4>4, <5>2 DEF Affects
        <5> QED BY <1>9, <4>1, <5>3, TouchingIs
      <4> QED BY <1>5, <4>2, <4>3, <4>4 DEF Strokes
    <3>4. LeadsTo(Touching, T, [w.queue EXCEPT ![Len(w.queue)] = t], E)
      BY <1>10, <2>2, <3>1, <3>2, <3>3, LeadsElse
    <3> QED BY <3>2, <3>4
  <2> QED BY <1>3, <2>1, <2>2
<1>12. Reported(v, T, H2, hands)
  BY <1>3, <1>6, <1>11 DEF Reported, E
<1> QED BY <1>1, <1>12

-----------------------------------------------------------------------------
(* Touches: a batch                                                        *)

\* What one event does to the window, whichever it is.
Steps(w, e, v, hands) ==
    /\ v \in Windows
    /\ \A T, H, H2 :
         /\ FollowsHands(w, T, H, hands) /\ <<H, e, H2>> \in Pressing
         /\ e.input = "controller" => "stick" \notin hands /\ "cursor" \notin hands
         => FollowsHands(v, T, H2, hands)
    /\ w.polling => v.controllers = IF e.input = "controller" THEN e.what = "added" ELSE w.controllers
    /\ v.polling => w.polling

\* While the window polls, it is enough that it reports what is held.
LEMMA StepsBy ==
  ASSUME NEW w \in Windows, w.polling, NEW e, NEW hands, NEW v \in Windows,
         v.controllers = IF e.input = "controller" THEN e.what = "added" ELSE w.controllers,
         v.polling = w.polling,
         \A T, H, H2 :
           /\ Reported(w, T, H, hands) /\ <<H, e, H2>> \in Pressing
           /\ e.input = "controller" => "stick" \notin hands /\ "cursor" \notin hands
           => Reported(v, T, H2, hands)
  PROVE  Steps(w, e, v, hands)
BY Zenon DEF Steps, FollowsHands

\* One event.
LEMMA PollEventFollows ==
  ASSUME NEW w \in Windows, NEW e \in PumpEvents, NEW hands
  PROVE  Steps(w, e, PollEvent(w, e, hands), hands)
<1>1. CASE ~w.polling
  <2>1. PICK v : v = [w EXCEPT !.rest = Append(@, e)]
    OBVIOUS
  <2>2. Append(w.rest, e) \in Seq(PumpEvents)
    BY AppendProperties DEF Windows, WindowRecord
  <2>3. v \in Windows /\ v.polling = w.polling /\ v.high = w.high
    BY <2>1, <2>2 DEF Windows, WindowRecord
  <2>4. PollEvent(w, e, hands) = v
    BY <1>1, <2>1 DEF PollEvent
  <2>5. ~v.polling
    BY <1>1, <2>3
  <2> QED BY <1>1, <2>3, <2>4, <2>5 DEF Steps, FollowsHands
<1>2. CASE w.polling
  <2>0. /\ (TouchFingers \cup Pads \cup Keys) \cap {"mouse", "stick", "cursor", "controller", "system"} = {}
        /\ TouchFingers \cap Pads = {} /\ TouchFingers \cap Keys = {} /\ Pads \cap Keys = {}
    BY TouchAssumption DEF NamedInputs
  <2>1. CASE e.input = "mouse"
    <3>1. PICK v : v = OfMouse(w, e, "shift" \in hands)
      OBVIOUS
    <3>2. PollEvent(w, e, hands) = v
      BY <1>2, <2>0, <2>1, <3>1 DEF PollEvent
    <3>3. PICK shift : shift = ("shift" \in hands)
      OBVIOUS
    <3>4. shift \in BOOLEAN /\ v = OfMouse(w, e, shift)
      BY <3>1, <3>3
    <3>5. v \in Windows /\ v.polling = w.polling /\ v.controllers = w.controllers
      BY <2>1, <3>4, MouseIs
    <3>7. \A T, H, H2 : Reported(w, T, H, hands) /\ <<H, e, H2>> \in Pressing => Reported(v, T, H2, hands)
      BY <2>1, <3>4, MouseFollows
    <3>6. e.input # "controller"
      BY <2>1
    <3> QED BY <1>2, <3>2, <3>5, <3>6, <3>7, StepsBy
  <2>2. CASE e.input \in Pads
    <3>1. PICK v : v = OfPad(w, e)
      OBVIOUS
    <3>2. e.input \notin {"controller", "mouse"}
      BY <2>2, Inputs
    <3>3. PollEvent(w, e, hands) = v
      BY <1>2, <2>0, <2>2, <3>1, <3>2 DEF PollEvent
    <3>4. v \in Windows /\ v.polling = w.polling /\ v.controllers = w.controllers
      BY <2>2, <3>1, PadIs
    <3>5. \A T, H, H2 : Reported(w, T, H, hands) /\ <<H, e, H2>> \in Pressing => Reported(v, T, H2, hands)
      BY <2>2, <3>1, PadFollows
    <3> QED BY <1>2, <3>2, <3>3, <3>4, <3>5, StepsBy
  <2>3. CASE e.input \in Keys
    <3>1. PICK v : v = [Queued(w, Touched(e.what, {e.input}, nowhere)) EXCEPT !.updated = TRUE]
      OBVIOUS
    <3>2. e.input \notin {"controller", "mouse"} \cup Pads
      BY <2>3, Inputs
    <3>3. PollEvent(w, e, hands) = v
      BY <1>2, <2>0, <2>3, <3>1, <3>2 DEF PollEvent
    <3>4. v \in Windows /\ v.polling = w.polling /\ v.controllers = w.controllers
      BY <2>3, <3>1, KeyIs
    <3>5. \A T, H, H2 : Reported(w, T, H, hands) /\ <<H, e, H2>> \in Pressing => Reported(v, T, H2, hands)
      BY <2>3, <3>1, KeyFollows
    <3> QED BY <1>2, <3>2, <3>3, <3>4, <3>5, StepsBy
  <2>4. CASE e.input = "stick"
    <3>1. PICK out \in BOOLEAN : out = (w.controllers /\ "stick" \in hands)
      OBVIOUS
    <3>2. PICK v : v = OfStick(w, e, out)
      OBVIOUS
    <3>3. e.input \notin {"controller", "mouse"} \cup Pads \cup Keys
      BY <2>4, Inputs
    <3>4. PollEvent(w, e, hands) = v
      BY <1>2, <2>0, <2>4, <3>1, <3>2, <3>3 DEF PollEvent
    <3>5. v \in Windows /\ v.polling = w.polling /\ v.controllers = w.controllers
      <4>1. Stick(v, w, out)
        BY <3>2, StickIs, Zenon
      <4> QED BY <4>1 DEF Stick
    <3>6. \A T, H, H2 : Reported(w, T, H, hands) /\ <<H, e, H2>> \in Pressing => Reported(v, T, H2, hands)
      BY <2>4, <3>1, <3>2, StickFollows, Zenon
    <3> QED BY <1>2, <3>3, <3>4, <3>5, <3>6, StepsBy
  <2>5. CASE e.input = "cursor"
    <3>1. PICK v : v = [w EXCEPT !.updated = TRUE, !.gathering = FALSE]
      OBVIOUS
    <3>2. e.input \notin {"controller", "mouse", "stick"} \cup Pads \cup Keys
      BY <2>5, Inputs
    <3>3. PollEvent(w, e, hands) = v
      BY <1>2, <2>0, <2>5, <3>1, <3>2 DEF PollEvent
    <3>4. /\ v \in Windows /\ v.polling = w.polling /\ v.controllers = w.controllers
          /\ \A T, H, H2 : Reported(w, T, H, hands) /\ <<H, e, H2>> \in Pressing => Reported(v, T, H2, hands)
      BY <2>5, <3>1, CursorFollows
    <3> QED BY <1>2, <3>2, <3>3, <3>4, StepsBy
  <2>6. CASE e.input = "controller"
    <3>1. PICK v : v = [w EXCEPT !.controllers = (e.what = "added"), !.gathering = FALSE]
      OBVIOUS
    <3>2. e.input \notin {"mouse", "stick", "cursor"} \cup Pads \cup Keys
      BY <2>6, TouchAssumption
    <3>3. PollEvent(w, e, hands) = v
      BY <1>2, <2>0, <2>6, <3>1, <3>2 DEF PollEvent
    <3>4. /\ v \in Windows /\ v.polling = w.polling /\ v.controllers = (e.what = "added")
          /\ \A T, H, H2 :
               /\ Reported(w, T, H, hands) /\ <<H, e, H2>> \in Pressing
               /\ "stick" \notin hands /\ "cursor" \notin hands
               => Reported(v, T, H2, hands)
      BY <2>6, <3>1, ControllerFollows
    <3> QED BY <1>2, <2>6, <3>3, <3>4, StepsBy
  <2>7. CASE e.input = "system"
    <3>1. PICK v : v = OfSystem(w, e)
      OBVIOUS
    <3>2. e.input \notin {"mouse", "stick", "cursor", "controller"} \cup Pads \cup Keys
      BY <2>7, TouchAssumption
    <3>3. PollEvent(w, e, hands) = v
      BY <1>2, <2>0, <2>7, <3>1, <3>2 DEF PollEvent
    <3>4. /\ v \in Windows /\ v.controllers = w.controllers
          /\ ~v.polling => v.high # "none"
          /\ \A T, H, H2 : Reported(w, T, H, hands) /\ <<H, e, H2>> \in Pressing => FollowsHands(v, T, H2, hands)
      BY <1>2, <2>7, <3>1, SystemFollows
    <3>5. \A T, H : FollowsHands(w, T, H, hands) => Reported(w, T, H, hands)
      BY <1>2 DEF FollowsHands
    <3> QED BY <1>2, <3>2, <3>3, <3>4, <3>5 DEF Steps
  <2>8. CASE e.input \in TouchFingers
    <3>1. PICK v : v = OfFinger(w, e)
      OBVIOUS
    <3>2. e.input \notin {"mouse", "stick", "cursor", "controller", "system"} \cup Pads \cup Keys
      BY <2>8, TouchAssumption DEF NamedInputs
    <3>3. PollEvent(w, e, hands) = v
      BY <1>2, <2>0, <2>8, <3>1, <3>2 DEF PollEvent
    <3>4. v \in Windows /\ v.polling = w.polling /\ v.controllers = w.controllers
      BY <2>8, <3>1, FingerIs
    <3>5. \A T, H, H2 : Reported(w, T, H, hands) /\ <<H, e, H2>> \in Pressing => Reported(v, T, H2, hands)
      BY <2>8, <3>1, FingerFollows
    <3> QED BY <1>2, <3>2, <3>3, <3>4, <3>5, StepsBy
  <2> QED BY <2>1, <2>2, <2>3, <2>4, <2>5, <2>6, <2>7, <2>8 DEF PumpEvents, DeskInputs
<1> QED BY <1>1, <1>2

\* The loop over the events of a batch.
PollLoop(w, p, hands) ==
    LET polled[k \in 0..Len(p)] == IF k = 0 THEN w ELSE PollEvent(polled[k - 1], p[k], hands)
    IN  polled

\* Each turn is one event: induction along the batch (StepIteration).
LEMMA PollLoopSteps ==
  ASSUME NEW w \in Windows, NEW p \in Seq(PumpEvents), NEW hands
  PROVE  /\ PollLoop(w, p, hands)[0] = w
         /\ \A k \in 0 .. Len(p) : PollLoop(w, p, hands)[k] \in Windows
         /\ \A k \in 1 .. Len(p) : Steps(PollLoop(w, p, hands)[k - 1], p[k], PollLoop(w, p, hands)[k], hands)
<1> DEFINE V == Windows
           n == Len(p)
           H == [e \in (1 .. n) \X V |-> PollEvent(e[2], p[e[1]], hands)]
           loop == PollLoop(w, p, hands)
<1>1. n \in Nat /\ \A k \in 1 .. n : p[k] \in PumpEvents
  BY LenProperties, ElementOfSeq
<1>2. \A k \in 1 .. n : \A s \in V : PollEvent(s, p[k], hands) \in V /\ Steps(s, p[k], PollEvent(s, p[k], hands), hands)
  BY <1>1, PollEventFollows DEF Steps
<1>3. H \in [(1 .. n) \X V -> V] /\ \A k \in 1 .. n : \A s \in V : H[<<k, s>>] = PollEvent(s, p[k], hands)
  <2> HIDE DEF V
  <2> QED BY <1>2
<1> HIDE DEF V, H
<1>4. w \in V
  BY DEF V
<1>5. PICK g : StepIterates(g, n, V, w, H)
  BY <1>1, <1>3, <1>4, StepIteration, Zenon
<1>6. /\ g \in [0 .. n -> V] /\ g[0] = w /\ \A k \in 1 .. n : g[k] = H[<<k, g[k - 1]>>]
      /\ \A h : h[0] = w /\ (\A k \in 1 .. n : h[k - 1] \in V => h[k] = H[<<k, h[k - 1]>>]) =>
           \A k \in 0 .. n : h[k] = g[k]
  BY <1>5 DEF StepIterates
<1>7. \A k \in 1 .. n : k \in 0 .. n /\ k - 1 \in 0 .. n /\ k # 0 /\ g[k - 1] \in V
  BY <1>1, <1>6
<1>8. \A k \in 1 .. n : g[k] = PollEvent(g[k - 1], p[k], hands)
  BY <1>3, <1>6, <1>7
<1>9. g = [k \in 0 .. n |-> IF k = 0 THEN w ELSE PollEvent(g[k - 1], p[k], hands)]
  <2>1. ASSUME NEW k \in 0 .. n PROVE g[k] = IF k = 0 THEN w ELSE PollEvent(g[k - 1], p[k], hands)
    <3>1. k # 0 => k \in 1 .. n
      BY <1>1
    <3> QED BY <1>6, <1>8, <3>1
  <2> QED BY <1>6, <2>1
<1>10. loop = [k \in 0 .. n |-> IF k = 0 THEN w ELSE PollEvent(loop[k - 1], p[k], hands)]
  BY <1>9, Zenon DEF PollLoop
<1> HIDE DEF loop
<1>11. loop[0] = w /\ \A k \in 1 .. n : loop[k - 1] \in V => loop[k] = H[<<k, loop[k - 1]>>]
  <2>1. loop[0] = w
    BY <1>1, <1>10
  <2>2. \A k \in 1 .. n : loop[k] = PollEvent(loop[k - 1], p[k], hands)
    BY <1>7, <1>10
  <2> QED BY <1>3, <2>1, <2>2
<1>12. \A k \in 0 .. n : loop[k] = g[k]
  BY <1>6, <1>11, Zenon
<1>13. \A k \in 0 .. n : loop[k] \in V
  BY <1>6, <1>12
<1>14. ASSUME NEW k \in 1 .. n PROVE Steps(loop[k - 1], p[k], loop[k], hands)
  <2>1. loop[k] = PollEvent(loop[k - 1], p[k], hands) /\ loop[k - 1] \in V
    BY <1>7, <1>8, <1>12
  <2> QED BY <1>2, <2>1
<1> QED BY <1>11, <1>13, <1>14 DEF V, loop

\* The batch: induction along it.
LEMMA BatchFollows ==
  ASSUME NEW w \in Windows, NEW p \in Seq(PumpEvents), NEW hands, NEW T, NEW A, NEW B,
         Reported(w, T, A, hands), w.polling, LeadsTo(Pressing, A, p, B), NEW plug \in BOOLEAN,
         \A k \in DOMAIN p : p[k].input = "controller" =>
            (p[k].what = "added") = plug /\ "stick" \notin hands /\ "cursor" \notin hands
  PROVE  LET v == PollLoop(w, p, hands)[Len(p)]
         IN  /\ v \in Windows /\ FollowsHands(v, T, B, hands)
             /\ v.polling => \/ v.controllers = plug
                             \/ /\ \A k \in DOMAIN p : p[k].input # "controller"
                                /\ v.controllers = w.controllers
<1> DEFINE loop == PollLoop(w, p, hands)
<1>1. PICK n : n = Len(p)
  OBVIOUS
<1>2. n \in Nat /\ DOMAIN p = 1 .. n
  BY <1>1, LenProperties
<1>3. /\ loop[0] = w /\ \A k \in 0 .. n : loop[k] \in Windows
      /\ \A k \in 1 .. n : Steps(loop[k - 1], p[k], loop[k], hands)
  BY <1>1, PollLoopSteps
<1> HIDE DEF loop
<1>4. PICK g : g[0] = A /\ g[n] = B /\ \A k \in 1 .. n : <<g[k - 1], p[k], g[k]>> \in Pressing
  BY <1>1 DEF LeadsTo, Through
<1> DEFINE Before(k) == \A j \in 1 .. k : p[j].input # "controller"
           Good(k) == /\ FollowsHands(loop[k], T, g[k], hands)
                      /\ loop[k].polling => \/ loop[k].controllers = plug
                                            \/ Before(k) /\ loop[k].controllers = w.controllers
<1>5. Good(0)
  <2>1. FollowsHands(loop[0], T, g[0], hands)
    BY <1>3, <1>4 DEF FollowsHands
  <2>2. Before(0)
    OBVIOUS
  <2> HIDE DEF Before
  <2> QED BY <1>3, <2>1, <2>2
<1>6. ASSUME NEW k \in 1 .. n, Good(k - 1) PROVE Good(k)
  <2>1. PICK u, v, e : u = loop[k - 1] /\ v = loop[k] /\ e = p[k]
    OBVIOUS
  <2>2. Steps(u, e, v, hands)
    BY <1>3, <2>1
  <2>3. FollowsHands(u, T, g[k - 1], hands) /\ <<g[k - 1], e, g[k]>> \in Pressing
    BY <1>4, <1>6, <2>1
  <2>4. e.input = "controller" => (e.what = "added") = plug /\ "stick" \notin hands /\ "cursor" \notin hands
    BY <1>2, <2>1
  <2>5. FollowsHands(v, T, g[k], hands)
    BY <2>2, <2>3, <2>4 DEF Steps
  <2>6. ASSUME v.polling
        PROVE  v.controllers = plug \/ (Before(k) /\ v.controllers = w.controllers)
    <3>1. u.polling /\ v.controllers = IF e.input = "controller" THEN e.what = "added" ELSE u.controllers
      BY <2>2, <2>6 DEF Steps
    <3>2. u.controllers = plug \/ (Before(k - 1) /\ u.controllers = w.controllers)
      BY <1>6, <2>1, <3>1
    <3>3. CASE e.input = "controller"
      BY <2>4, <3>1, <3>3
    <3>4. CASE e.input # "controller"
      <4>1. Before(k - 1) => Before(k)
        <5>1. \A j \in 1 .. k : j = k \/ j \in 1 .. k - 1
          OBVIOUS
        <5> QED BY <2>1, <3>4, <5>1
      <4> HIDE DEF Before
      <4> QED BY <3>1, <3>2, <3>4, <4>1
    <3> QED BY <3>3, <3>4
  <2> QED BY <2>1, <2>5, <2>6
<1> HIDE DEF Good
<1> DEFINE Bad == {k \in Nat : k <= n /\ ~Good(k)}
<1>7. Bad = {}
  <2>1. SUFFICES ASSUME Bad # {} PROVE FALSE
    OBVIOUS
  <2>2. PICK m \in Bad : \A k \in Bad : m <= k
    BY <2>1, LeastNatural
  <2>3. m # 0
    BY <1>5, <2>2
  <2>4. m - 1 \in Nat /\ m - 1 <= n /\ ~(m <= m - 1) /\ m \in 1 .. n
    BY <1>2, <2>2, <2>3
  <2>5. Good(m - 1)
    BY <2>2, <2>4
  <2> QED BY <1>6, <2>2, <2>4, <2>5
<1>8. Good(n)
  BY <1>2, <1>7
<1>9. loop[n] \in Windows
  BY <1>2, <1>3
<1> QED BY <1>1, <1>2, <1>4, <1>8, <1>9 DEF Good, loop

\* After the batch the virtual cursor is looked at, and the batch's own fields
\* are cleared.
Ended(v, hands) ==
    [UpdateVirtualCursor(v, hands) EXCEPT !.rest = <<>>, !.updated = FALSE, !.gathering = FALSE]
Clears(u, v) ==
    /\ u \in Windows /\ u.high = v.high /\ u.polling = v.polling /\ u.controllers = v.controllers
    /\ u.rest = <<>> /\ ~u.updated /\ ~u.gathering
    /\ u.pads = v.pads /\ u.padActive = v.padActive /\ u.stickActive = v.stickActive /\ u.pinch = v.pinch

CursorTold(u, v, pressed) ==
    IF ~v.updated \/ pressed = v.cursor THEN u.queue = v.queue
    ELSE \E t \in WindowEvents : /\ t.kind = (IF pressed THEN "down" ELSE "up")
                                 /\ DOMAIN t.at = {"VirtualCursor"}
                                 /\ u.queue = Append(v.queue, t)

\* What it does then.
LEMMA EndedIs ==
  ASSUME NEW v \in Windows, NEW hands, NEW pressed \in BOOLEAN,
         pressed = (v.controllers /\ "cursor" \in hands)
  PROVE  /\ Clears(Ended(v, hands), v) /\ Ended(v, hands).cursor = pressed
         /\ CursorTold(Ended(v, hands), v, pressed)
<1>1. PICK x : x = [v EXCEPT !.cursor = pressed]
  OBVIOUS
<1>2. /\ x \in Windows /\ x.queue = v.queue /\ x.cursor = pressed
      /\ x.high = v.high /\ x.polling = v.polling /\ x.controllers = v.controllers
      /\ x.pads = v.pads /\ x.padActive = v.padActive /\ x.stickActive = v.stickActive /\ x.pinch = v.pinch
  BY <1>1 DEF Windows, WindowRecord
<1>3. PICK kind : kind = IF pressed THEN "down" ELSE "up"
  OBVIOUS
<1>4. PICK t : t = Touched(kind, {"VirtualCursor"}, nowhere)
  OBVIOUS
<1>5. t \in WindowEvents /\ t.kind = kind /\ DOMAIN t.at = {"VirtualCursor"}
  <2>1. kind \in Strokes
    BY <1>3 DEF Strokes
  <2>2. {"VirtualCursor"} \in SUBSET Fingers /\ nowhere \in Places
    BY DEF Fingers, NamedFingers, Places
  <2> QED BY <1>4, <2>1, <2>2, TouchedIs
<1>6. PICK y : y = UpdateVirtualCursor(v, hands)
  OBVIOUS
<1>7. y = IF ~v.updated \/ pressed = v.cursor THEN x ELSE Queued(x, t)
  BY <1>1, <1>3, <1>4, <1>6, Zenon DEF UpdateVirtualCursor
<1>8. /\ y \in Windows /\ y.cursor = pressed
      /\ y.high = v.high /\ y.polling = v.polling /\ y.controllers = v.controllers
      /\ y.pads = v.pads /\ y.padActive = v.padActive /\ y.stickActive = v.stickActive /\ y.pinch = v.pinch
      /\ y.queue = IF ~v.updated \/ pressed = v.cursor THEN v.queue ELSE Append(v.queue, t)
  <2>1. CASE ~v.updated \/ pressed = v.cursor
    BY <1>2, <1>7, <2>1
  <2>2. CASE ~(~v.updated \/ pressed = v.cursor)
    <3>1. y = Queued(x, t)
      BY <1>7, <2>2
    <3>2. /\ y \in Windows /\ y.queue = Append(x.queue, t)
          /\ y.high = x.high /\ y.polling = x.polling /\ y.pads = x.pads /\ y.padActive = x.padActive
          /\ y.stickActive = x.stickActive /\ y.cursor = x.cursor /\ y.pinch = x.pinch
          /\ y.controllers = x.controllers
      BY <1>2, <1>5, <3>1, QueuedTouch
    <3>3. y.queue = Append(v.queue, t)
      BY <1>2, <3>2
    <3> QED BY <1>2, <2>2, <3>2, <3>3
  <2> QED BY <2>1, <2>2
<1>9. PICK u : u = [y EXCEPT !.rest = <<>>, !.updated = FALSE, !.gathering = FALSE]
  OBVIOUS
<1>10. <<>> \in Seq(PumpEvents)
  OBVIOUS
<1>11. Clears(u, y) /\ u.cursor = y.cursor /\ u.queue = y.queue
  BY <1>8, <1>9, <1>10 DEF Clears, Windows, WindowRecord
<1>12. Ended(v, hands) = u
  BY <1>6, <1>9 DEF Ended
<1>13. Clears(u, v) /\ u.cursor = pressed
  BY <1>8, <1>11 DEF Clears
<1>14. CASE ~v.updated \/ pressed = v.cursor
  BY <1>8, <1>11, <1>12, <1>13, <1>14 DEF CursorTold
<1>15. CASE ~(~v.updated \/ pressed = v.cursor)
  <2>1. u.queue = Append(v.queue, t)
    BY <1>8, <1>11, <1>15
  <2> QED BY <1>3, <1>5, <1>12, <1>13, <1>15, <2>1 DEF CursorTold
<1> QED BY <1>14, <1>15

\* So the window is in step with what is held.
LEMMA EndedInStep ==
  ASSUME NEW v \in Windows, NEW hands, NEW T, NEW H, Reported(v, T, H, hands),
         "stick" \in H <=> "stick" \in hands, "cursor" \in H <=> "cursor" \in hands
  PROVE  InStep(Ended(v, hands), T, H)
<1>1. PICK pressed : pressed = (v.controllers /\ "cursor" \in hands)
  OBVIOUS
<1>2. /\ pressed \in BOOLEAN /\ (pressed <=> "cursor" \in H) /\ v.cursor \in BOOLEAN /\ v.updated \in BOOLEAN
      /\ v.stickActive \in BOOLEAN
  BY <1>1 DEF Reported, Windows, WindowRecord
<1>3. PICK u : u = Ended(v, hands)
  OBVIOUS
<1>4. /\ Clears(u, v) /\ u.cursor = pressed
      /\ IF ~v.updated \/ pressed = v.cursor THEN u.queue = v.queue
         ELSE \E t \in WindowEvents : /\ t.kind = (IF pressed THEN "down" ELSE "up")
                                      /\ DOMAIN t.at = {"VirtualCursor"}
                                      /\ u.queue = Append(v.queue, t)
  <2>1. Clears(u, v) /\ u.cursor = pressed /\ CursorTold(u, v, pressed)
    BY <1>1, <1>2, <1>3, EndedIs, Zenon
  <2> QED BY <2>1 DEF CursorTold
<1> DEFINE D == FingersOf(H, v.padActive, v.stickActive, v.cursor, v.pinch)
           E == FingersOf(H, u.padActive, u.stickActive, u.cursor, u.pinch)
           x == "VirtualCursor"
<1>5. \A f : f # x => (f \in E <=> f \in D)
  BY <1>4 DEF FingersOf, Stands, Clears
<1>6. (x \in D <=> v.cursor) /\ (x \in E <=> pressed)
  BY <1>4, Inputs DEF FingersOf, Stands, NamedFingers
<1>7. D \in SUBSET Fingers /\ E \in SUBSET Fingers
  BY DEF FingersOf
<1>8. v.queue \in Seq(WindowEvents) /\ LeadsTo(Touching, T, v.queue, D)
  BY ReportedOf DEF Windows, WindowRecord
<1> HIDE DEF D, E, x
<1>9. LeadsTo(Touching, T, u.queue, E)
  <2>1. CASE ~v.updated \/ pressed = v.cursor
    <3>1. pressed <=> v.cursor
      BY <1>2, <2>1 DEF Reported
    <3>2. \A f : f \in E <=> f \in D
      BY <1>5, <1>6, <3>1
    <3>3. D = E
      BY <3>2
    <3> QED BY <1>4, <1>8, <2>1, <3>3
  <2>2. CASE ~(~v.updated \/ pressed = v.cursor)
    <3>1. PICK t \in WindowEvents : /\ t.kind = (IF pressed THEN "down" ELSE "up")
                                    /\ DOMAIN t.at = {x} /\ u.queue = Append(v.queue, t)
      BY <1>4, <2>2 DEF x
    <3>2. /\ t.kind \in Strokes
          /\ t.kind = "down" => x \notin D /\ x \in E
          /\ t.kind = "up" => x \notin E
          /\ t.kind = "move" => (x \in E <=> x \in D)
      BY <1>2, <1>6, <2>2, <3>1 DEF Strokes
    <3>3. LeadsTo(Touching, T, Append(v.queue, t), E)
      BY <1>5, <1>7, <1>8, <3>1, <3>2, OneFinger
    <3> QED BY <3>1, <3>3
  <2> QED BY <2>1, <2>2
<1>10. u.stickActive = ("stick" \in H) /\ u.cursor = ("cursor" \in H)
  BY <1>2, <1>4 DEF Clears, Reported
<1>11. InStep(u, T, H)
  BY <1>4, <1>9, <1>10 DEF InStep, Clears, Reported, E
<1> QED BY <1>3, <1>11

\* Window::poll_for_events is that loop and what follows it.
LEMMA PollIsLoop ==
  ASSUME PollForEvents
  PROVE  LET w == [win EXCEPT !.updated = FALSE, !.gathering = FALSE]
             v == PollLoop(w, pump, held)[Len(pump)]
         IN  /\ win' = Ended(v, held) /\ pump' = v.rest
             /\ inputPanic' = (inputPanic \/ (v.high # "none" /\ win.high # "none"))
             /\ win.polling /\ ~exited
             /\ UNCHANGED <<desk, held, plugged, touches, exited>>
BY Zenon DEF PollForEvents, PollLoop, Ended

\* A batch.
LEMMA PollKeeps ==
  ASSUME TouchInv, PollForEvents
  PROVE  TouchInv'
<1>1. PICK w, v : /\ w = [win EXCEPT !.updated = FALSE, !.gathering = FALSE]
                  /\ v = PollLoop(w, pump, held)[Len(pump)]
  OBVIOUS
<1>2. /\ win' = Ended(v, held) /\ pump' = v.rest
      /\ inputPanic' = (inputPanic \/ (v.high # "none" /\ win.high # "none"))
      /\ win.polling /\ ~exited
      /\ UNCHANGED <<desk, held, plugged, touches, exited>>
  BY <1>1, PollIsLoop
<1>3. /\ TouchTypeOK /\ ~inputPanic /\ OneTouchPerView /\ ControllerInv
  BY <1>2 DEF TouchInv
<1>4. PICK H : LeadsTo(Pressing, H, pump, Hands) /\ InStep(win, DOMAIN touches, H)
  BY <1>2 DEF TouchInv
<1>5. PICK T : T = DOMAIN touches
  OBVIOUS
<1>6. /\ w \in Windows /\ w.queue = win.queue /\ ~w.gathering /\ w.pinch = win.pinch /\ ~w.updated
      /\ w.high = win.high /\ w.polling /\ w.pads = win.pads /\ w.padActive = win.padActive
      /\ w.stickActive = win.stickActive /\ w.cursor = win.cursor
      /\ w.controllers = win.controllers /\ w.rest = win.rest
  BY <1>1, <1>2, <1>3 DEF TouchTypeOK, Windows, WindowRecord
<1>7. /\ "stick" \in Hands <=> "stick" \in held
      /\ "cursor" \in Hands <=> "cursor" \in held
      /\ "stick" \in held \/ "cursor" \in held => Hands \cap onController # {}
  BY DEF Hands, onController
<1>8. Reported(w, T, H, held)
  BY <1>3, <1>4, <1>5, <1>6, <1>7 DEF Reported, InStep, ControllerInv
<1>9. \A k \in DOMAIN pump : pump[k].input = "controller" =>
         (pump[k].what = "added") = plugged /\ "stick" \notin held /\ "cursor" \notin held
  BY <1>3, <1>7 DEF ControllerInv
<1>10. /\ v \in Windows /\ FollowsHands(v, T, Hands, held)
       /\ v.polling => \/ v.controllers = plugged
                       \/ /\ \A k \in DOMAIN pump : pump[k].input # "controller"
                          /\ v.controllers = w.controllers
  <2>1. pump \in Seq(PumpEvents) /\ plugged \in BOOLEAN
    BY <1>3 DEF TouchTypeOK
  <2> QED BY <1>1, <1>4, <1>6, <1>8, <1>9, <2>1, BatchFollows
<1>11. PICK u : u = Ended(v, held)
  OBVIOUS
<1>12. Clears(u, v)
  <2>1. PICK pressed : pressed = (v.controllers /\ "cursor" \in held)
    OBVIOUS
  <2>2. pressed \in BOOLEAN
    BY <1>10, <2>1 DEF Windows, WindowRecord
  <2> QED BY <1>10, <1>11, <2>1, <2>2, EndedIs, Zenon
<1>13. TouchTypeOK'
  <2>1. v.rest \in Seq(PumpEvents)
    BY <1>10 DEF Windows, WindowRecord
  <2>2. win.high = "none"
    BY <1>4 DEF InStep
  <2> QED BY <1>2, <1>3, <1>11, <1>12, <2>1, <2>2 DEF TouchTypeOK, Clears
<1>14. ~inputPanic' /\ OneTouchPerView'
  <2>1. win.high = "none"
    BY <1>4 DEF InStep
  <2> QED BY <1>2, <1>3, <2>1 DEF OneTouchPerView
<1>15. CASE ~v.polling
  <2>1. ~win'.polling /\ win'.high # "none"
    BY <1>2, <1>10, <1>11, <1>12, <1>15 DEF FollowsHands, Clears
  <2> QED BY <1>13, <1>14, <2>1 DEF TouchInv
<1>16. CASE v.polling
  <2>1. Reported(v, T, Hands, held)
    BY <1>10, <1>16 DEF FollowsHands
  <2>2. pump' = <<>>
    BY <1>2, <2>1 DEF Reported
  <2>3. InStep(u, T, Hands)
    BY <1>7, <1>10, <1>11, <2>1, EndedInStep
  <2>4. Hands' = Hands /\ T = DOMAIN touches' /\ win' = u
    BY <1>2, <1>5, <1>11 DEF Hands
  <2>5. LeadsTo(Pressing, Hands, pump', Hands')
    BY <2>2, <2>4, LeadsNowhere
  <2>6. InStep(win', DOMAIN touches', Hands)
    BY <2>3, <2>4
  <2>7. win'.controllers = plugged' /\ plugged' = plugged
    <3>1. v.controllers = plugged
      BY <1>3, <1>6, <1>10, <1>16 DEF ControllerInv
    <3> QED BY <1>2, <1>11, <1>12, <3>1 DEF Clears
  <2>8. DOMAIN pump' = {}
    BY <2>2
  <2>9. ControllerInv'
    BY <1>3, <2>4, <2>7, <2>8 DEF ControllerInv
  <2>10. win'.polling
    BY <1>2, <1>11, <1>12, <1>16 DEF Clears
  <2> QED BY <1>13, <1>14, <2>5, <2>6, <2>9, <2>10 DEF TouchInv
<1> QED BY <1>15, <1>16

-----------------------------------------------------------------------------
(* Touches: the views                                                      *)

\* The touches a down event begins: each view that takes one at a time has at
\* most one, and none if it has one already.
LEMMA NewTouches ==
  ASSUME NEW ts, NEW at, NEW v \in Assignments(ts, at), IsFiniteSet(DOMAIN at)
  PROVE  /\ v \in [DOMAIN at -> Places]
         /\ \A f, g \in DOMAIN at : v[f] = v[g] /\ v[f] \in TouchViews \ MultiTouch => f = g
         /\ \A f \in DOMAIN at, g \in DOMAIN ts :
              v[f] \in TouchViews \ MultiTouch => v[f] # ts[g]
<1>1. /\ v \in [DOMAIN at -> Places]
      /\ \A f \in DOMAIN at : v[f] \in {nowhere, at[f]}
      /\ \A view \in TouchViews :
           LET here == {f \in DOMAIN at : at[f] = view}
               taken == {f \in here : v[f] = view}
               busy == \E f \in DOMAIN ts : ts[f] = view
           IN  IF view \in MultiTouch THEN taken = here
               ELSE Cardinality(taken) = IF here = {} \/ busy THEN 0 ELSE 1
  BY DEF Assignments
<1>2. ASSUME NEW f \in DOMAIN at, v[f] \in TouchViews \ MultiTouch
      PROVE  /\ \A g \in DOMAIN at : v[g] = v[f] => g = f
             /\ \A g \in DOMAIN ts : v[f] # ts[g]
  <2>1. PICK view : view = v[f]
    OBVIOUS
  <2>2. view \in TouchViews /\ view \notin MultiTouch /\ view # nowhere
    BY <1>2, <2>1, TouchAssumption
  <2> DEFINE here == {g \in DOMAIN at : at[g] = view}
             taken == {g \in here : v[g] = view}
             busy == \E g \in DOMAIN ts : ts[g] = view
  <2>3. Cardinality(taken) = IF here = {} \/ busy THEN 0 ELSE 1
    BY <1>1, <2>2
  <2>4. \A g \in DOMAIN at : v[g] = view => g \in taken
    BY <1>1, <2>2
  <2>5. IsFiniteSet(taken)
    <3>1. taken \subseteq DOMAIN at
      OBVIOUS
    <3> QED BY <3>1, FS_Subset
  <2> HIDE DEF taken, here
  <2>6. f \in taken
    BY <2>1, <2>4
  <2>7. Cardinality(taken) # 0
    BY <2>5, <2>6, FS_EmptySet
  <2>8. ~busy /\ Cardinality(taken) = 1
    BY <2>3, <2>7
  <2>9. PICK z : taken = {z}
    BY <2>5, <2>8, FS_Singleton
  <2> QED BY <2>1, <2>4, <2>6, <2>8, <2>9
<1> QED BY <1>1, <1>2

\* A touch begins.
LEMMA TouchesBegin ==
  ASSUME OneTouchPerView, touches \in [DOMAIN touches -> Places], NEW at \in TouchMaps,
         IsFiniteSet(DOMAIN at), DOMAIN at \cap DOMAIN touches = {}, HandleTouchesDown(at)
  PROVE  /\ DOMAIN touches' = DOMAIN touches \cup DOMAIN at /\ touches' \in [DOMAIN touches' -> Places]
         /\ OneTouchPerView' /\ UNCHANGED inputPanic
<1>1. PICK v \in Assignments(touches, at) :
        touches' = [f \in DOMAIN at \cup DOMAIN touches |-> IF f \in DOMAIN at THEN v[f] ELSE touches[f]]
  BY DEF HandleTouchesDown
<1>2. UNCHANGED inputPanic
  BY DEF HandleTouchesDown
<1>3. /\ v \in [DOMAIN at -> Places]
      /\ \A f, g \in DOMAIN at : v[f] = v[g] /\ v[f] \in TouchViews \ MultiTouch => f = g
      /\ \A f \in DOMAIN at, g \in DOMAIN touches :
           v[f] \in TouchViews \ MultiTouch => v[f] # touches[g]
  BY NewTouches
<1>4. /\ DOMAIN touches' = DOMAIN touches \cup DOMAIN at
      /\ \A f \in DOMAIN at : touches'[f] = v[f]
      /\ \A f \in DOMAIN touches : touches'[f] = touches[f]
      /\ touches' = [f \in DOMAIN touches' |-> touches'[f]]
  BY <1>1
<1>5. touches' \in [DOMAIN touches' -> Places]
  <2>1. \A f \in DOMAIN touches' : touches'[f] \in Places
    BY <1>3, <1>4
  <2> QED BY <1>4, <2>1
<1>6. OneTouchPerView'
  <2>1. SUFFICES ASSUME NEW f \in DOMAIN touches', NEW g \in DOMAIN touches',
                        touches'[f] = touches'[g], touches'[f] \in TouchViews \ MultiTouch
                 PROVE  f = g
    BY DEF OneTouchPerView
  <2>2. CASE f \in DOMAIN at /\ g \in DOMAIN at
    BY <1>3, <1>4, <2>1, <2>2
  <2>3. CASE f \in DOMAIN at /\ g \in DOMAIN touches
    BY <1>3, <1>4, <2>1, <2>3
  <2>4. CASE f \in DOMAIN touches /\ g \in DOMAIN at
    BY <1>3, <1>4, <2>1, <2>4
  <2>5. CASE f \in DOMAIN touches /\ g \in DOMAIN touches
    BY <1>4, <2>1, <2>5 DEF OneTouchPerView
  <2> QED BY <1>4, <2>2, <2>3, <2>4, <2>5
<1> QED BY <1>2, <1>4, <1>5, <1>6

\* Touches end.
LEMMA TouchesEnd ==
  ASSUME OneTouchPerView, touches \in [DOMAIN touches -> Places], NEW at, HandleTouchesUp(at)
  PROVE  /\ DOMAIN touches' = DOMAIN touches \ DOMAIN at /\ touches' \in [DOMAIN touches' -> Places]
         /\ OneTouchPerView' /\ UNCHANGED inputPanic
<1>1. /\ touches' = [f \in DOMAIN touches \ DOMAIN at |-> touches[f]]
      /\ UNCHANGED inputPanic
  BY DEF HandleTouchesUp
<1>2. DOMAIN touches' = DOMAIN touches \ DOMAIN at /\ \A f \in DOMAIN touches' : touches'[f] = touches[f]
  BY <1>1
<1>3. touches' \in [DOMAIN touches' -> Places]
  BY <1>1, <1>2
<1>4. OneTouchPerView'
  BY <1>2 DEF OneTouchPerView
<1> QED BY <1>1, <1>2, <1>3, <1>4

\* An event is handled.
LEMMA EventHandledKeeps ==
  ASSUME TouchInv, HandleEvent
  PROVE  TouchInv'
<1>1. /\ TouchTypeOK /\ ~inputPanic /\ OneTouchPerView
      /\ ~exited /\ UNCHANGED <<pump, desk, held, plugged>>
  BY DEF TouchInv, HandleEvent
<1>2. CASE win.high # "none"
  <2>1. win' = [win EXCEPT !.high = "none"] /\ exited' = TRUE /\ UNCHANGED <<touches, inputPanic>>
    BY <1>2 DEF HandleEvent
  <2>2. ~win.polling
    BY <1>2 DEF TouchInv, InStep
  <2>3. win' \in Windows /\ win'.polling = win.polling
    BY <1>1, <2>1 DEF TouchTypeOK, Windows, WindowRecord
  <2>4. TouchTypeOK'
    BY <1>1, <2>1, <2>3 DEF TouchTypeOK
  <2>5. OneTouchPerView' /\ ~inputPanic'
    BY <1>1, <2>1 DEF OneTouchPerView
  <2>6. ~win'.polling
    BY <2>2, <2>3
  <2> QED BY <2>1, <2>4, <2>5, <2>6 DEF TouchInv
<1>3. CASE win.high = "none"
  <2>1. PICK e : e = Head(win.queue)
    OBVIOUS
  <2>2. /\ win.queue # <<>> /\ win' = [win EXCEPT !.queue = Tail(@)] /\ exited' = (e.kind = "quit")
        /\ CASE e.kind = "down" -> HandleTouchesDown(e.at)
             [] e.kind = "move" -> HandleTouchesMove(e.at)
             [] e.kind = "up" -> HandleTouchesUp(e.at)
             [] OTHER -> UNCHANGED <<touches, inputPanic>>
    BY <1>3, <2>1 DEF HandleEvent
  <2>3. win.polling /\ ControllerInv
    BY <1>1, <1>3 DEF TouchInv
  <2>4. PICK H : LeadsTo(Pressing, H, pump, Hands) /\ InStep(win, DOMAIN touches, H)
    BY <2>3 DEF TouchInv
  <2>5. PICK T : T = DOMAIN touches
    OBVIOUS
  <2>6. PICK E : E = FingersOf(H, win.padActive, win.stickActive, win.cursor, win.pinch)
    OBVIOUS
  <2>7. win.queue \in Seq(WindowEvents) /\ LeadsTo(Touching, T, win.queue, E)
    BY <1>1, <2>4, <2>5, <2>6 DEF TouchTypeOK, Windows, WindowRecord, InStep
  <2>8. PICK D : <<T, e, D>> \in Touching /\ LeadsTo(Touching, D, Tail(win.queue), E)
    BY <2>1, <2>2, <2>7, LeadsFirst
  <2>9. T \in SUBSET Fingers /\ e \in WindowEvents /\ D \in SUBSET Fingers /\ Affects(T, e, D)
    BY <2>8, TouchingIs
  <2>10. /\ DOMAIN touches' = D /\ touches' \in [DOMAIN touches' -> Places]
         /\ OneTouchPerView' /\ UNCHANGED inputPanic
    <3>1. touches \in [DOMAIN touches -> Places]
      BY <1>1 DEF TouchTypeOK
    <3>2. CASE e.kind = "down"
      <4>1. HandleTouchesDown(e.at)
        BY <2>2, <3>2
      <4>2. e.at \in TouchMaps
        BY <2>9, <3>2 DEF WindowEvents
      <4>3. IsFiniteSet(DOMAIN e.at) /\ DOMAIN e.at \cap T = {} /\ D = T \cup DOMAIN e.at
        BY <2>9, <3>2 DEF Affects
      <4> QED BY <1>1, <2>5, <3>1, <4>1, <4>2, <4>3, TouchesBegin
    <3>3. CASE e.kind = "up"
      <4>1. HandleTouchesUp(e.at)
        BY <2>2, <3>3
      <4>2. D = T \ DOMAIN e.at
        BY <2>9, <3>3 DEF Affects
      <4> QED BY <1>1, <2>5, <3>1, <4>1, <4>2, TouchesEnd
    <3>4. CASE e.kind \notin {"down", "up"}
      <4>1. UNCHANGED <<touches, inputPanic>>
        BY <2>2, <3>4 DEF HandleTouchesMove
      <4>2. D = T
        BY <2>9, <3>4 DEF Affects
      <4> QED BY <1>1, <2>5, <3>1, <4>1, <4>2 DEF OneTouchPerView
    <3> QED BY <3>2, <3>3, <3>4
  <2>11. /\ win' \in Windows /\ win'.queue = Tail(win.queue) /\ win'.gathering = win.gathering /\ win'.pinch = win.pinch
         /\ win'.high = win.high /\ win'.polling = win.polling /\ win'.pads = win.pads
         /\ win'.padActive = win.padActive /\ win'.updated = win.updated
         /\ win'.stickActive = win.stickActive /\ win'.cursor = win.cursor
         /\ win'.controllers = win.controllers /\ win'.rest = win.rest
    <3>1. Tail(win.queue) \in Seq(WindowEvents)
      BY <2>2, <2>7, HeadRest
    <3>2. ~win.gathering
      BY <2>4 DEF InStep
    <3> QED BY <1>1, <2>2, <3>1, <3>2 DEF TouchTypeOK, Windows, WindowRecord
  <2>12. TouchTypeOK'
    <3>1. exited' \in BOOLEAN /\ inputPanic' = inputPanic
      BY <2>2, <2>10
    <3> QED BY <1>1, <2>9, <2>10, <2>11, <3>1 DEF TouchTypeOK
  <2>13. Hands' = Hands /\ pump' = pump
    BY <1>1 DEF Hands
  <2>14. ControllerInv'
    BY <1>1, <2>3, <2>11, <2>13 DEF ControllerInv
  <2>15. InStep(win', D, H)
    BY <2>4, <2>6, <2>8, <2>11 DEF InStep
  <2>16. win'.polling
    BY <2>3, <2>11
  <2> QED BY <1>1, <2>4, <2>10, <2>12, <2>13, <2>14, <2>15, <2>16 DEF TouchInv
<1> QED BY <1>2, <1>3

-----------------------------------------------------------------------------
(* Touches: the user                                                       *)

\* One sequence and then another.
LEMMA LeadsBoth ==
  ASSUME NEW R, NEW S, NEW s \in Seq(S), NEW t \in Seq(S), NEW a, NEW b, NEW c,
         LeadsTo(R, a, s, b), LeadsTo(R, b, t, c)
  PROVE  LeadsTo(R, a, s \o t, c)
<1>1. PICK g : g[0] = a /\ g[Len(s)] = b /\ Through(R, g, s)
  BY DEF LeadsTo
<1>2. PICK h : h[0] = b /\ h[Len(t)] = c /\ Through(R, h, t)
  BY DEF LeadsTo
<1>3. PICK n \in Nat, m \in Nat : n = Len(s) /\ m = Len(t)
  BY LenProperties
<1>4. PICK u : u = s \o t
  OBVIOUS
<1>5. Len(u) = n + m /\ \A i \in 1 .. n + m : u[i] = IF i <= n THEN s[i] ELSE t[i - n]
  BY <1>3, <1>4, ConcatProperties
<1> DEFINE f == [k \in 0 .. n + m |-> IF k <= n THEN g[k] ELSE h[k - n]]
<1>6. /\ f[0] = a /\ f[n] = b /\ f[n + m] = c
      /\ \A k \in 0 .. n : f[k] = g[k]
      /\ \A k \in 0 .. m : f[n + k] = h[k]
  <2>1. f[0] = a
    BY <1>1
  <2>2. \A k \in 0 .. n : f[k] = g[k]
    OBVIOUS
  <2>3. \A k \in 0 .. m : f[n + k] = h[k]
    <3>1. SUFFICES ASSUME NEW k \in 0 .. m PROVE f[n + k] = h[k]
      OBVIOUS
    <3>2. CASE k = 0
      BY <1>1, <1>2, <1>3, <3>2
    <3>3. CASE k # 0
      <4>1. n + k \in 0 .. n + m /\ ~(n + k <= n) /\ (n + k) - n = k
        BY <3>3
      <4> QED BY <4>1
    <3> QED BY <3>2, <3>3
  <2>4. f[n] = b
    BY <1>1, <1>3, <2>2
  <2>5. f[n + m] = c
    BY <1>2, <1>3, <2>3
  <2> QED BY <2>1, <2>2, <2>3, <2>4, <2>5
<1> HIDE DEF f
<1>7. ASSUME NEW k \in 1 .. n + m PROVE <<f[k - 1], u[k], f[k]>> \in R
  <2>1. CASE k <= n
    <3>1. k \in 1 .. n /\ k \in 0 .. n /\ k - 1 \in 0 .. n
      BY <2>1
    <3>2. <<g[k - 1], s[k], g[k]>> \in R
      BY <1>1, <1>3, <3>1 DEF Through
    <3> QED BY <1>5, <1>6, <2>1, <3>1, <3>2
  <2>2. CASE ~(k <= n)
    <3>1. PICK j \in 1 .. m : k = n + j
      <4>1. k - n \in 1 .. m /\ k = n + (k - n)
        BY <2>2
      <4> QED BY <4>1
    <3>2. j \in 0 .. m /\ j - 1 \in 0 .. m /\ k - 1 = n + (j - 1) /\ k - n = j
      BY <3>1
    <3>3. <<h[j - 1], t[j], h[j]>> \in R
      BY <1>2, <1>3 DEF Through
    <3>4. f[k - 1] = h[j - 1] /\ f[k] = h[j] /\ u[k] = t[j]
      BY <1>5, <1>6, <2>2, <3>1, <3>2
    <3> QED BY <3>3, <3>4
  <2> QED BY <2>1, <2>2
<1>8. f[0] = a /\ f[Len(u)] = c /\ Through(R, f, u)
  BY <1>5, <1>6, <1>7 DEF Through
<1>9. LeadsTo(R, a, u, c)
  BY <1>8 DEF LeadsTo
<1> QED BY <1>4, <1>9

\* A finite set as a sequence: each element is there, once.
LEMMA ListedOnce ==
  ASSUME NEW E, IsFiniteSet(E)
  PROVE  /\ SetToSeq(E) \in Seq(E)
         /\ \A i, j \in 1 .. Len(SetToSeq(E)) : SetToSeq(E)[i] = SetToSeq(E)[j] => i = j
         /\ \A e \in E : \E i \in 1 .. Len(SetToSeq(E)) : SetToSeq(E)[i] = e
<1> DEFINE n == Cardinality(E)
           s == SetToSeq(E)
<1>1. n \in Nat /\ ExistsBijection(1 .. n, E)
  BY FS_CardinalityType
<1>2. PICK b : b \in Bijection(1 .. n, E)
  BY <1>1 DEF ExistsBijection
<1>3. b \in [1 .. n -> E] /\ IsInjective(b)
  BY <1>2 DEF Bijection, Injection, IsInjective
<1>4. s \in [1 .. n -> E] /\ IsInjective(s)
  BY <1>3 DEF SetToSeq
<1>5. s \in Seq(E) /\ Len(s) = n
  <2>1. PICK k : k = n
    OBVIOUS
  <2>2. k \in Nat /\ s \in [1 .. k -> E]
    BY <1>1, <1>4, <2>1
  <2> HIDE DEF s, n
  <2>3. s \in Seq(E)
    BY <2>2, SeqDef
  <2> QED BY <2>1, <2>2, <2>3, LenProperties
<1>6. s \in Injection(1 .. n, E) /\ \A i, j \in 1 .. n : s[i] = s[j] => i = j
  BY <1>4 DEF Injection, IsInjective
<1>7. IsFiniteSet(1 .. n) /\ Cardinality(1 .. n) = n
  BY <1>1, FS_Interval
<1> HIDE DEF s
<1>8. s \in Surjection(1 .. n, E)
  BY <1>6, <1>7, FS_Injection
<1>9. \A e \in E : \E i \in 1 .. n : s[i] = e
  BY <1>8 DEF Surjection
<1> HIDE DEF n
<1>10. /\ s \in Seq(E)
       /\ \A i, j \in 1 .. Len(s) : s[i] = s[j] => i = j
       /\ \A e \in E : \E i \in 1 .. Len(s) : s[i] = e
  BY <1>5, <1>6, <1>9
<1> QED BY <1>10 DEF s

\* The inputs that are held, as SDL reports them.
LEMMA HandsAre ==
  ASSUME desk \in Desks, held \subseteq desk
  PROVE  /\ Hands \in SUBSET DeskInputs /\ IsFiniteSet(held)
         /\ held \cap onController \subseteq Hands
         /\ \A i \in desk : i = "shift" \/ i \in DeskInputs
<1>1. \A i \in desk : i = "shift" \/ i \in DeskInputs
  BY TouchAssumption DEF DeskInputs, NamedInputs
<1>2. IsFiniteSet(held)
  BY TouchAssumption, FS_Subset
<1>3. "shift" \notin onController
  BY TouchAssumption DEF onController, NamedInputs
<1> QED BY <1>1, <1>2, <1>3 DEF Hands

\* One more event in SDL's queue.
LEMMA EventKeeps ==
  ASSUME TouchInv, NEW e \in PumpEvents, pump' = Append(pump, e),
         UNCHANGED <<desk, win, touches, inputPanic, exited>>,
         held' \subseteq desk, plugged' \in BOOLEAN, Presses(Hands, e, Hands'),
         win.polling => ControllerInv'
  PROVE  TouchInv'
<1>1. TouchTypeOK /\ pump' \in Seq(PumpEvents)
  BY AppendProperties DEF TouchInv, TouchTypeOK
<1>2. TouchTypeOK'
  BY <1>1 DEF TouchTypeOK
<1>3. ~inputPanic' /\ OneTouchPerView' /\ (~win'.polling => win'.high # "none" \/ exited')
  BY DEF TouchInv, OneTouchPerView
<1>4. ASSUME win.polling
      PROVE  \E H : LeadsTo(Pressing, H, pump', Hands') /\ InStep(win', DOMAIN touches', H)
  <2>1. PICK H : LeadsTo(Pressing, H, pump, Hands) /\ InStep(win, DOMAIN touches, H)
    BY <1>4 DEF TouchInv
  <2>2. Hands \in SUBSET DeskInputs /\ Hands' \in SUBSET DeskInputs
    <3>1. desk \in Desks /\ held \subseteq desk /\ desk' \in Desks /\ held' \subseteq desk'
      BY <1>1 DEF TouchTypeOK
    <3>2. \A i \in desk : i = "shift" \/ i \in DeskInputs
      BY <3>1, HandsAre
    <3> QED BY <3>1, <3>2 DEF Hands
  <2>3. PICK K : K = Hands'
    OBVIOUS
  <2>4. <<Hands, e, K>> \in Pressing
    BY <2>2, <2>3, PressingIs
  <2>5. LeadsTo(Pressing, H, Append(pump, e), K)
    BY <1>1, <2>1, <2>4, LeadsOn DEF TouchTypeOK
  <2> QED BY <2>1, <2>3, <2>5
<1> QED BY <1>2, <1>3, <1>4 DEF TouchInv

\* An event that is not about the controller leaves this connected as it is.
LEMMA StaysConnected ==
  ASSUME TouchTypeOK, ControllerInv, NEW e \in PumpEvents, e.input # "controller",
         pump' = Append(pump, e), UNCHANGED <<win, plugged>>,
         Hands' \cap onController # {} => Hands \cap onController # {} \/ (plugged /\ win.controllers)
  PROVE  ControllerInv'
<1>1. PICK n \in Nat : n = Len(pump)
  BY LenProperties DEF TouchTypeOK
<1>2. /\ DOMAIN pump = 1 .. n /\ DOMAIN pump' = 1 .. n + 1
      /\ pump'[n + 1] = e /\ \A k \in 1 .. n : pump'[k] = pump[k]
  <2>1. /\ Len(Append(pump, e)) = Len(pump) + 1 /\ Append(pump, e)[Len(pump) + 1] = e
        /\ \A k \in 1 .. Len(pump) : Append(pump, e)[k] = pump[k]
    BY Pushed DEF TouchTypeOK
  <2>2. Append(pump, e) \in Seq(PumpEvents)
    BY AppendProperties DEF TouchTypeOK
  <2> QED BY <1>1, <2>1, <2>2, LenProperties DEF TouchTypeOK
<1>3. \A k \in DOMAIN pump' : k \in DOMAIN pump \/ k = n + 1
  BY <1>2
<1>4. \A k \in DOMAIN pump : k \in DOMAIN pump'
  BY <1>2
<1> QED BY <1>2, <1>3, <1>4 DEF ControllerInv

\* The Shift key is pressed or released: SDL's queue tells of no event.
LEMMA ShiftKeeps ==
  ASSUME TouchInv, UNCHANGED <<pump, desk, plugged, win, touches, inputPanic, exited>>,
         held' \subseteq desk, held' = held \cup {"shift"} \/ held' = held \ {"shift"}
  PROVE  TouchInv'
<1>1. Hands' = Hands
  BY DEF Hands
<1>2. TouchTypeOK'
  BY DEF TouchInv, TouchTypeOK
<1>3. OneTouchPerView'
  BY DEF TouchInv, OneTouchPerView
<1>4. win.polling => ControllerInv'
  BY <1>1 DEF TouchInv, ControllerInv
<1> QED BY <1>1, <1>2, <1>3, <1>4 DEF TouchInv

\* An input is pressed.
LEMMA PressKeeps ==
  ASSUME TouchInv, Press
  PROVE  TouchInv'
<1>1. PICK i \in desk \ held, p \in Places, same \in BOOLEAN :
        /\ MayPress(i)
        /\ held' = held \cup {i}
        /\ pump' = IF i = "shift" THEN pump ELSE Append(pump, sdl("down", i, p, same))
        /\ UNCHANGED <<desk, plugged, win, touches, inputPanic, exited>>
  BY DEF Press
<1>2. TouchTypeOK
  BY DEF TouchInv
<1>3. desk \in Desks /\ held \subseteq desk /\ held' \subseteq desk /\ plugged' \in BOOLEAN
  BY <1>1, <1>2 DEF TouchTypeOK
<1>4. CASE i = "shift"
  BY <1>1, <1>3, <1>4, ShiftKeeps
<1>5. CASE i # "shift"
  <2>1. PICK e : e = sdl("down", i, p, same)
    OBVIOUS
  <2>2. i \in DeskInputs
    BY <1>3, <1>5, HandsAre
  <2>3. e \in PumpEvents /\ e.what = "down" /\ e.input = i
    BY <2>1, <2>2 DEF sdl, PumpEvents, Strokes
  <2>4. pump' = Append(pump, e)
    BY <1>1, <1>5, <2>1
  <2>5. Presses(Hands, e, Hands')
    BY <1>1, <1>5, <2>2, <2>3 DEF Presses, Hands
  <2>6. e.input # "controller"
    BY <2>2, <2>3, Inputs
  <2>7. ASSUME win.polling PROVE ControllerInv'
    <3>1. ControllerInv
      BY <2>7 DEF TouchInv
    <3>2. Hands' \cap onController # {} => Hands \cap onController # {} \/ (plugged /\ win.controllers)
      BY <1>1 DEF Hands, MayPress
    <3> QED BY <1>1, <1>2, <2>3, <2>4, <2>6, <3>1, <3>2, StaysConnected
  <2> QED BY <1>1, <1>3, <2>3, <2>4, <2>5, <2>7, EventKeeps
<1> QED BY <1>4, <1>5

\* A finger or the mouse moves.
LEMMA DragKeeps ==
  ASSUME TouchInv, Drag
  PROVE  TouchInv'
<1>1. PICK i \in held \cap (TouchFingers \cup {"mouse"}), same \in BOOLEAN :
        /\ pump' = Append(pump, sdl("move", i, nowhere, same))
        /\ UNCHANGED <<desk, held, plugged, win, touches, inputPanic, exited>>
  BY DEF Drag
<1>2. TouchTypeOK
  BY DEF TouchInv
<1>3. desk \in Desks /\ held \subseteq desk /\ held' \subseteq desk /\ plugged' \in BOOLEAN
  BY <1>1, <1>2 DEF TouchTypeOK
<1>4. i \in DeskInputs /\ i # "shift"
  BY Inputs DEF DeskInputs
<1>5. PICK e : e = sdl("move", i, nowhere, same)
  OBVIOUS
<1>6. e \in PumpEvents /\ e.what = "move" /\ e.input = i
  BY <1>4, <1>5 DEF sdl, PumpEvents, Strokes, Places
<1>7. Presses(Hands, e, Hands')
  BY <1>1, <1>4, <1>6 DEF Presses, Hands
<1>8. e.input # "controller"
  BY <1>4, <1>6, Inputs
<1>9. ASSUME win.polling PROVE ControllerInv'
  <2>1. ControllerInv
    BY <1>9 DEF TouchInv
  <2>2. Hands' = Hands
    BY <1>1 DEF Hands
  <2> QED BY <1>1, <1>2, <1>5, <1>6, <1>8, <2>1, <2>2, StaysConnected
<1> QED BY <1>1, <1>3, <1>5, <1>6, <1>7, <1>9, EventKeeps

\* An input is released.
LEMMA ReleaseKeeps ==
  ASSUME TouchInv, Release
  PROVE  TouchInv'
<1>1. PICK i \in held, same \in BOOLEAN :
        /\ held' = held \ {i}
        /\ pump' = IF i = "shift" THEN pump ELSE Append(pump, sdl("up", i, nowhere, same))
        /\ UNCHANGED <<desk, plugged, win, touches, inputPanic, exited>>
  BY DEF Release
<1>2. TouchTypeOK
  BY DEF TouchInv
<1>3. desk \in Desks /\ held \subseteq desk /\ held' \subseteq desk /\ plugged' \in BOOLEAN
  BY <1>1, <1>2 DEF TouchTypeOK
<1>4. CASE i = "shift"
  BY <1>1, <1>3, <1>4, ShiftKeeps
<1>5. CASE i # "shift"
  <2>1. PICK e : e = sdl("up", i, nowhere, same)
    OBVIOUS
  <2>2. i \in DeskInputs
    BY <1>3, <1>5, HandsAre
  <2>3. e \in PumpEvents /\ e.what = "up" /\ e.input = i
    BY <2>1, <2>2 DEF sdl, PumpEvents, Strokes, Places
  <2>4. pump' = Append(pump, e)
    BY <1>1, <1>5, <2>1
  <2>5. Presses(Hands, e, Hands')
    BY <1>1, <1>5, <2>2, <2>3 DEF Presses, Hands
  <2>6. e.input # "controller"
    BY <2>2, <2>3, Inputs
  <2>7. ASSUME win.polling PROVE ControllerInv'
    <3>1. ControllerInv
      BY <2>7 DEF TouchInv
    <3>2. Hands' \cap onController # {} => Hands \cap onController # {}
      BY <1>1 DEF Hands
    <3> QED BY <1>1, <1>2, <2>3, <2>4, <2>6, <3>1, <3>2, StaysConnected
  <2> QED BY <1>1, <1>3, <2>3, <2>4, <2>5, <2>7, EventKeeps
<1> QED BY <1>4, <1>5

\* A controller is connected.
LEMMA PlugKeeps ==
  ASSUME TouchInv, Plug
  PROVE  TouchInv'
<1>1. PICK e : e = sdl("added", "controller", nowhere, FALSE)
  OBVIOUS
<1>2. /\ ~plugged /\ ~win.controllers /\ plugged' = TRUE /\ pump' = Append(pump, e)
      /\ UNCHANGED <<desk, held, win, touches, inputPanic, exited>>
  BY <1>1 DEF Plug
<1>3. TouchTypeOK
  BY DEF TouchInv
<1>4. held' \subseteq desk /\ plugged' \in BOOLEAN /\ Hands' = Hands
  BY <1>2, <1>3 DEF TouchTypeOK, Hands
<1>5. e \in PumpEvents /\ e.what = "added" /\ e.input = "controller"
  BY <1>1 DEF sdl, PumpEvents, Places
<1>6. Presses(Hands, e, Hands')
  BY <1>4, <1>5 DEF Presses, Strokes
<1>7. ASSUME win.polling PROVE ControllerInv'
  <2>1. ControllerInv
    BY <1>7 DEF TouchInv
  <2>2. Hands \cap onController = {} /\ \A k \in DOMAIN pump : pump[k].input # "controller"
    <3>1. plugged \in BOOLEAN /\ win.controllers \in BOOLEAN
      BY <1>3 DEF TouchTypeOK, Windows, WindowRecord
    <3>2. plugged = win.controllers
      BY <1>2, <3>1
    <3>3. /\ Hands \cap onController # {} => plugged /\ win.controllers
          /\ plugged = win.controllers <=> \A k \in DOMAIN pump : pump[k].input # "controller"
      BY <2>1 DEF ControllerInv
    <3> QED BY <1>2, <3>2, <3>3
  <2>3. PICK n \in Nat : n = Len(pump)
    BY <1>3, LenProperties DEF TouchTypeOK
  <2>4. /\ DOMAIN pump = 1 .. n /\ DOMAIN pump' = 1 .. n + 1
        /\ pump'[n + 1] = e /\ \A k \in 1 .. n : pump'[k] = pump[k]
    <3>1. /\ Len(Append(pump, e)) = Len(pump) + 1 /\ Append(pump, e)[Len(pump) + 1] = e
          /\ \A k \in 1 .. Len(pump) : Append(pump, e)[k] = pump[k]
      BY <1>3, <1>5, Pushed DEF TouchTypeOK
    <3>2. Append(pump, e) \in Seq(PumpEvents)
      BY <1>3, <1>5, AppendProperties DEF TouchTypeOK
    <3> QED BY <1>2, <1>3, <2>3, <3>1, <3>2, LenProperties DEF TouchTypeOK
  <2>5. \A k \in DOMAIN pump' : pump'[k].input = "controller" => k = n + 1
    BY <2>2, <2>4
  <2>6. n + 1 \in DOMAIN pump'
    BY <2>4
  <2> QED BY <1>2, <1>4, <1>5, <2>2, <2>4, <2>5, <2>6 DEF ControllerInv
<1> QED BY <1>2, <1>4, <1>5, <1>6, <1>7, EventKeeps

\* The window is closed, or the system suspends or ends the app.
LEMMA SystemEventKeeps ==
  ASSUME TouchInv, SystemEvent
  PROVE  TouchInv'
<1>1. PICK what \in {"quit", "background", "terminating", "F12"} :
        /\ pump' = Append(pump, sdl(what, "system", nowhere, FALSE))
        /\ UNCHANGED <<desk, held, plugged, win, touches, inputPanic, exited>>
  BY DEF SystemEvent
<1>2. TouchTypeOK
  BY DEF TouchInv
<1>3. PICK e : e = sdl(what, "system", nowhere, FALSE)
  OBVIOUS
<1>4. e \in PumpEvents /\ e.what = what /\ e.input = "system"
  BY <1>3 DEF sdl, PumpEvents, Places
<1>5. held' \subseteq desk /\ plugged' \in BOOLEAN /\ Hands' = Hands
  BY <1>1, <1>2 DEF TouchTypeOK, Hands
<1>6. Presses(Hands, e, Hands')
  BY <1>4, <1>5 DEF Presses, Strokes
<1>7. ASSUME win.polling PROVE ControllerInv'
  <2>1. ControllerInv
    BY <1>7 DEF TouchInv
  <2> QED BY <1>1, <1>2, <1>3, <1>4, <1>5, <2>1, StaysConnected
<1> QED BY <1>1, <1>3, <1>4, <1>5, <1>6, <1>7, EventKeeps

\* The releases of the inputs of a set, in any order.
LEMMA ReleasedAll ==
  ASSUME NEW A \in SUBSET DeskInputs, NEW R \in SUBSET A, IsFiniteSet(R)
  PROVE  LET ups == SetToSeq({sdl("up", i, nowhere, FALSE) : i \in R})
         IN  /\ ups \in Seq(PumpEvents)
             /\ \A k \in 1 .. Len(ups) : ups[k].input \in R /\ ups[k].what = "up"
             /\ LeadsTo(Pressing, A, ups, A \ R)
<1> DEFINE E == {sdl("up", i, nowhere, FALSE) : i \in R}
<1>1. IsFiniteSet(E)
  <2> DEFINE h == [i \in R |-> sdl("up", i, nowhere, FALSE)]
  <2>1. h \in Surjection(R, E)
    BY DEF Surjection
  <2> QED BY <2>1, FS_Surjection
<1>2. \A e \in E : e \in PumpEvents /\ e.what = "up" /\ e.input \in R /\ e = sdl("up", e.input, nowhere, FALSE)
  <2>1. SUFFICES ASSUME NEW i \in R, NEW e, e = sdl("up", i, nowhere, FALSE)
                 PROVE  e \in PumpEvents /\ e.what = "up" /\ e.input = i
    OBVIOUS
  <2>2. i \in DeskInputs
    OBVIOUS
  <2> QED BY <2>1, <2>2 DEF sdl, PumpEvents, Strokes, Places
<1>3. \A i \in R : \E e \in E : e.input = i
  <2>1. SUFFICES ASSUME NEW i \in R PROVE \E e \in E : e.input = i
    OBVIOUS
  <2>2. PICK e : e = sdl("up", i, nowhere, FALSE)
    OBVIOUS
  <2>3. e \in E /\ e.input = i
    BY <2>2 DEF sdl
  <2> QED BY <2>3
<1>4. PICK ups : ups = SetToSeq(E)
  OBVIOUS
<1>5. /\ ups \in Seq(E)
      /\ \A i, j \in 1 .. Len(ups) : ups[i] = ups[j] => i = j
      /\ \A e \in E : \E i \in 1 .. Len(ups) : ups[i] = e
  BY <1>1, <1>4, ListedOnce
<1> HIDE DEF E
<1>6. PICK n \in Nat : n = Len(ups)
  BY <1>5, LenProperties
<1>7. \A k \in 1 .. n : ups[k] \in E
  BY <1>5, <1>6, ElementOfSeq
<1>8. ups \in Seq(PumpEvents)
  <2>1. ups \in [1 .. n -> E]
    BY <1>5, <1>6, LenProperties
  <2>2. ups \in [1 .. n -> PumpEvents]
    BY <1>2, <2>1
  <2> QED BY <2>2, SeqDef
<1> DEFINE Gone(k) == {ups[j].input : j \in 1 .. k}
           g == [k \in 0 .. n |-> A \ Gone(k)]
<1>9. /\ g[0] = A /\ \A k \in 0 .. n : g[k] = A \ Gone(k)
  <2>1. 1 .. 0 = {}
    OBVIOUS
  <2>2. Gone(0) = {}
    BY <2>1
  <2>3. \A k \in 0 .. n : g[k] = A \ Gone(k)
    OBVIOUS
  <2>4. 0 \in 0 .. n
    OBVIOUS
  <2> QED BY <2>2, <2>3, <2>4
<1>10. g[n] = A \ R
  <2>1. \A x \in Gone(n) : x \in R
    BY <1>2, <1>7
  <2>2. \A x \in R : x \in Gone(n)
    <3>1. SUFFICES ASSUME NEW x \in R PROVE x \in Gone(n)
      OBVIOUS
    <3>2. PICK e \in E : e.input = x
      BY <1>3
    <3>3. PICK j \in 1 .. n : ups[j] = e
      BY <1>5, <1>6
    <3> QED BY <3>2, <3>3
  <2>3. Gone(n) = R
    BY <2>1, <2>2
  <2>4. n \in 0 .. n
    OBVIOUS
  <2> QED BY <1>9, <2>3, <2>4
<1> HIDE DEF g
<1>11. ASSUME NEW k \in 1 .. n PROVE <<g[k - 1], ups[k], g[k]>> \in Pressing
  <2>1. PICK i : i = ups[k].input
    OBVIOUS
  <2>2. /\ ups[k] \in PumpEvents /\ ups[k].what = "up" /\ i \in R
        /\ ups[k] = sdl("up", i, nowhere, FALSE)
    BY <1>2, <1>7, <2>1
  <2>3. k \in 0 .. n /\ k - 1 \in 0 .. n /\ (k - 1) \in Int
    OBVIOUS
  <2>4. g[k - 1] = A \ Gone(k - 1) /\ g[k] = A \ Gone(k)
    BY <1>9, <2>3
  <2>5. i \notin Gone(k - 1)
    <3>1. SUFFICES ASSUME NEW j \in 1 .. k - 1, ups[j].input = i PROVE FALSE
      OBVIOUS
    <3>2. j \in 1 .. n /\ j # k
      OBVIOUS
    <3>3. ups[j] = ups[k]
      BY <1>2, <1>7, <2>2, <3>1, <3>2
    <3> QED BY <1>5, <1>6, <3>2, <3>3
  <2>6. Gone(k) = Gone(k - 1) \cup {i}
    <3>1. \A j : j \in 1 .. k <=> j \in 1 .. k - 1 \/ j = k
      OBVIOUS
    <3> QED BY <2>1, <3>1
  <2> HIDE DEF Gone
  <2>7. PICK B, C : B = g[k - 1] /\ C = g[k]
    OBVIOUS
  <2>8. B \in SUBSET DeskInputs /\ C \in SUBSET DeskInputs /\ i \in B /\ C = B \ {i}
    BY <2>2, <2>4, <2>5, <2>6, <2>7
  <2>9. PICK e : e = ups[k]
    OBVIOUS
  <2>10. e \in PumpEvents /\ e.what = "up" /\ e.input = i
    BY <2>1, <2>2, <2>9
  <2>11. Presses(B, e, C)
    BY <2>8, <2>10 DEF Presses
  <2>12. <<B, e, C>> \in Pressing
    BY <2>8, <2>10, <2>11, PressingIs
  <2> QED BY <2>7, <2>9, <2>12
<1>12. Through(Pressing, g, ups)
  BY <1>6, <1>11 DEF Through
<1>13. LeadsTo(Pressing, A, ups, A \ R)
  BY <1>6, <1>9, <1>10, <1>12 DEF LeadsTo
<1>14. \A k \in 1 .. Len(ups) : ups[k].input \in R /\ ups[k].what = "up"
  BY <1>2, <1>6, <1>7
<1> QED BY <1>4, <1>8, <1>13, <1>14 DEF E

\* A controller is disconnected.
LEMMA UnplugKeeps ==
  ASSUME TouchInv, Unplug
  PROVE  TouchInv'
<1>1. PICK still : still = held \cap onController
  OBVIOUS
<1>2. PICK ups : ups = SetToSeq({sdl("up", i, nowhere, FALSE) : i \in still})
  OBVIOUS
<1>3. PICK e : e = sdl("removed", "controller", nowhere, FALSE)
  OBVIOUS
<1>4. /\ plugged /\ win.controllers /\ plugged' = FALSE /\ held' = held \ still
      /\ pump' = pump \o Append(ups, e)
      /\ UNCHANGED <<desk, win, touches, inputPanic, exited>>
  BY <1>1, <1>2, <1>3 DEF Unplug
<1>5. TouchTypeOK /\ OneTouchPerView /\ ~inputPanic
  BY DEF TouchInv
<1>6. /\ pump \in Seq(PumpEvents) /\ desk \in Desks /\ held \subseteq desk
      /\ plugged \in BOOLEAN /\ win.controllers \in BOOLEAN
  BY <1>5 DEF TouchTypeOK, Windows, WindowRecord
<1>7. /\ Hands \in SUBSET DeskInputs /\ still \in SUBSET Hands /\ IsFiniteSet(still)
  <2>1. Hands \in SUBSET DeskInputs /\ IsFiniteSet(held) /\ held \cap onController \subseteq Hands
    BY <1>6, HandsAre
  <2>2. IsFiniteSet(still)
    BY <1>1, <2>1, FS_Subset
  <2> QED BY <1>1, <2>1, <2>2
<1>8. /\ ups \in Seq(PumpEvents)
      /\ \A k \in 1 .. Len(ups) : ups[k].input \in still /\ ups[k].what = "up"
      /\ LeadsTo(Pressing, Hands, ups, Hands \ still)
  BY <1>2, <1>7, ReleasedAll
<1>9. e \in PumpEvents /\ e.what = "removed" /\ e.input = "controller"
  BY <1>3 DEF sdl, PumpEvents, Places
<1>10. Hands' = Hands \ still
  BY <1>4 DEF Hands
<1>11. PICK t : t = Append(ups, e)
  OBVIOUS
<1>12. t \in Seq(PumpEvents)
  BY <1>8, <1>9, <1>11, AppendProperties
<1>13. pump' = pump \o t /\ pump' \in Seq(PumpEvents)
  BY <1>4, <1>6, <1>11, <1>12, ConcatProperties
<1>14. TouchTypeOK'
  BY <1>4, <1>5, <1>13 DEF TouchTypeOK
<1>15. OneTouchPerView' /\ ~inputPanic' /\ (~win'.polling => win'.high # "none" \/ exited')
  BY <1>4, <1>5 DEF TouchInv, OneTouchPerView
<1>16. ASSUME win.polling
       PROVE  \E H : LeadsTo(Pressing, H, pump', Hands') /\ InStep(win', DOMAIN touches', H)
  <2>1. PICK H : LeadsTo(Pressing, H, pump, Hands) /\ InStep(win, DOMAIN touches, H)
    BY <1>16 DEF TouchInv
  <2>2. PICK K : K = Hands \ still
    OBVIOUS
  <2>3. Presses(K, e, K) /\ K \in SUBSET DeskInputs
    BY <1>7, <1>9, <2>2 DEF Presses, Strokes
  <2>4. <<K, e, K>> \in Pressing
    BY <1>9, <2>3, PressingIs
  <2>5. LeadsTo(Pressing, Hands, ups, K)
    BY <1>8, <2>2
  <2>6. LeadsTo(Pressing, Hands, t, K)
    BY <1>8, <1>9, <1>11, <2>4, <2>5, LeadsOn
  <2>7. LeadsTo(Pressing, H, pump \o t, K)
    BY <1>6, <1>12, <2>1, <2>6, LeadsBoth
  <2> QED BY <1>4, <1>10, <1>13, <2>1, <2>2, <2>7
<1>17. ASSUME win.polling PROVE ControllerInv'
  <2>1. ControllerInv
    BY <1>17 DEF TouchInv
  <2>2. \A k \in DOMAIN pump : pump[k].input # "controller"
    <3>1. plugged = win.controllers
      BY <1>4, <1>6
    <3>2. plugged = win.controllers <=> \A k \in DOMAIN pump : pump[k].input # "controller"
      BY <2>1 DEF ControllerInv
    <3> QED BY <3>1, <3>2
  <2>3. PICK n \in Nat, m \in Nat : n = Len(pump) /\ m = Len(ups)
    BY <1>6, <1>8, LenProperties
  <2>4. Len(t) = m + 1 /\ t[m + 1] = e /\ \A k \in 1 .. m : t[k] = ups[k]
    BY <1>8, <1>9, <1>11, <2>3, Pushed
  <2>5. /\ DOMAIN pump = 1 .. n /\ DOMAIN pump' = 1 .. n + (m + 1)
        /\ \A k \in 1 .. n + (m + 1) : pump'[k] = IF k <= n THEN pump[k] ELSE t[k - n]
    <3>1. DOMAIN pump = 1 .. Len(pump) /\ DOMAIN pump' = 1 .. Len(pump')
      BY <1>6, <1>13, LenProperties
    <3>2. /\ Len(pump \o t) = Len(pump) + Len(t)
          /\ \A k \in 1 .. Len(pump) + Len(t) : (pump \o t)[k] = IF k <= Len(pump) THEN pump[k] ELSE t[k - Len(pump)]
      BY <1>6, <1>12, ConcatProperties
    <3> QED BY <1>13, <2>3, <2>4, <3>1, <3>2
  <2>6. /\ n + (m + 1) \in DOMAIN pump' /\ pump'[n + (m + 1)] = e
    <3>1. n + (m + 1) \in 1 .. n + (m + 1) /\ ~(n + (m + 1) <= n) /\ (n + (m + 1)) - n = m + 1
      OBVIOUS
    <3> QED BY <2>4, <2>5, <3>1
  <2>7. \A k \in DOMAIN pump' : pump'[k].input = "controller" => k = n + (m + 1)
    <3>1. SUFFICES ASSUME NEW k \in 1 .. n + (m + 1), k # n + (m + 1), pump'[k].input = "controller"
                   PROVE  FALSE
      BY <2>5
    <3>2. CASE k <= n
      <4>1. k \in 1 .. n
        BY <3>2
      <4> QED BY <2>2, <2>5, <3>1, <3>2, <4>1
    <3>3. CASE ~(k <= n)
      <4>1. k - n \in 1 .. m
        BY <3>1, <3>3
      <4>2. pump'[k] = ups[k - n]
        BY <2>4, <2>5, <3>3, <4>1
      <4>3. "controller" \in still
        BY <1>8, <2>3, <3>1, <4>1, <4>2
      <4>4. "controller" \in DeskInputs
        BY <1>7, <4>3
      <4> QED BY <4>4, Inputs
    <3> QED BY <3>2, <3>3
  <2>8. Hands' \cap onController = {}
    BY <1>1, <1>10 DEF Hands
  <2>9. win'.controllers = TRUE /\ plugged' = FALSE
    BY <1>4, <1>6
  <2> QED BY <1>9, <2>6, <2>7, <2>8, <2>9 DEF ControllerInv
<1> QED BY <1>4, <1>14, <1>15, <1>16, <1>17 DEF TouchInv

-----------------------------------------------------------------------------
(* Touches: the invariant holds                                            *)

\* Before the first event.
LEMMA FirstTouches ==
  ASSUME TouchInit
  PROVE  TouchInv
<1>1. /\ pump = <<>> /\ desk \in Desks /\ held = {} /\ plugged = FALSE /\ win = NewWindow
      /\ touches = <<>> /\ inputPanic = FALSE /\ exited = FALSE
  BY DEF TouchInit
<1>2. <<>> \in Seq(PumpEvents) /\ <<>> \in Seq(WindowEvents)
  OBVIOUS
<1>3. win \in Windows
  BY <1>1, <1>2 DEF NewWindow, Windows, WindowRecord
<1>4. /\ win.queue = <<>> /\ win.high = "none" /\ win.polling /\ ~win.gathering
      /\ win.pads = {} /\ ~win.padActive /\ ~win.stickActive /\ ~win.cursor /\ ~win.pinch
      /\ win.controllers = FALSE /\ ~win.updated /\ win.rest = <<>>
  BY <1>1 DEF NewWindow
<1>5. DOMAIN pump = {} /\ DOMAIN touches = {}
  BY <1>1
<1>6. touches \in [DOMAIN touches -> Places]
  <2>1. touches = [f \in {} |-> nowhere]
    BY <1>1
  <2> QED BY <1>5, <2>1
<1>7. TouchTypeOK
  BY <1>1, <1>2, <1>3, <1>5, <1>6 DEF TouchTypeOK
<1>8. Hands = {}
  BY <1>1 DEF Hands
<1>9. ControllerInv
  BY <1>1, <1>4, <1>5, <1>8 DEF ControllerInv
<1>10. LeadsTo(Pressing, {}, pump, Hands)
  BY <1>1, <1>8, LeadsNowhere
<1>11. FingersOf({}, win.padActive, win.stickActive, win.cursor, win.pinch) = {}
  BY <1>4 DEF FingersOf, Stands
<1>12. LeadsTo(Touching, {}, <<>>, {})
  BY LeadsNowhere
<1>13. InStep(win, DOMAIN touches, {})
  <2>1. PICK T, q, E : /\ T = DOMAIN touches /\ q = win.queue
                       /\ E = FingersOf({}, win.padActive, win.stickActive, win.cursor, win.pinch)
    OBVIOUS
  <2>2. T = {} /\ q = <<>> /\ E = {}
    BY <1>4, <1>5, <1>11, <2>1
  <2>3. LeadsTo(Touching, T, q, E)
    BY <1>12, <2>2
  <2>4. LeadsTo(Touching, DOMAIN touches, win.queue,
                FingersOf({}, win.padActive, win.stickActive, win.cursor, win.pinch))
    BY <2>1, <2>3, Zenon
  <2>5. /\ win.pads = {} \cap Pads /\ win.padActive = (win.pads # {})
        /\ win.stickActive = ("stick" \in {}) /\ win.cursor = ("cursor" \in {})
    <3>1. win \in Windows
      BY <1>3
    <3> QED BY <1>4, <3>1 DEF Windows, WindowRecord
  <2> QED BY <1>4, <2>4, <2>5 DEF InStep
<1>14. OneTouchPerView
  BY <1>5 DEF OneTouchPerView
<1> QED BY <1>1, <1>4, <1>7, <1>9, <1>10, <1>13, <1>14 DEF TouchInv

\* When all the events have been handled.
LEMMA TouchInvIsRight ==
  ASSUME TouchInv
  PROVE  TouchesRight
<1>1. ~inputPanic /\ OneTouchPerView /\ TouchTypeOK
  BY DEF TouchInv
<1> DEFINE mouse == IF "mouse" \notin held THEN {{}} ELSE {{"Mouse"}, {"PinchFinger1", "PinchFinger2"}}
           rest == (held \cap (TouchFingers \cup Keys))
                     \cup (IF held \cap Pads # {} THEN {"DpadToTouch"} ELSE {})
                     \cup (IF "stick" \in held THEN {"StickToTouch"} ELSE {})
                     \cup (IF "cursor" \in held THEN {"VirtualCursor"} ELSE {})
<1>2. ASSUME pump = <<>>, win.queue = <<>>, win.polling, ~exited
      PROVE  \E m \in mouse : DOMAIN touches = m \cup rest
  <2>1. PICK H : LeadsTo(Pressing, H, pump, Hands) /\ InStep(win, DOMAIN touches, H)
    BY <1>2 DEF TouchInv
  <2>2. H = Hands
    BY <1>2, <2>1, LeadsNowhere
  <2>3. PICK E : E = FingersOf(H, win.padActive, win.stickActive, win.cursor, win.pinch)
    OBVIOUS
  <2>4. DOMAIN touches = E
    <3>1. LeadsTo(Touching, DOMAIN touches, <<>>, E)
      BY <1>2, <2>1, <2>3 DEF InStep
    <3> QED BY <3>1, LeadsNowhere
  <2>5. \A x \in TouchFingers \cup Pads \cup Keys \cup {"mouse", "stick", "cursor"} : x \in H <=> x \in held
    BY <2>2, TouchAssumption DEF Hands, NamedInputs
  <2>6. /\ win.padActive = (held \cap Pads # {})
        /\ win.stickActive = ("stick" \in held) /\ win.cursor = ("cursor" \in held)
        /\ win.pinch => "mouse" \in held
    <3>1. H \cap Pads = held \cap Pads
      BY <2>5
    <3>2. "stick" \in H <=> "stick" \in held
      BY <2>5
    <3>3. "cursor" \in H <=> "cursor" \in held
      BY <2>5
    <3>4. "mouse" \in H <=> "mouse" \in held
      BY <2>5
    <3> QED BY <2>1, <3>1, <3>2, <3>3, <3>4 DEF InStep
  <2>7. PICK m : m = IF "mouse" \notin held THEN {}
                     ELSE IF win.pinch THEN {"PinchFinger1", "PinchFinger2"} ELSE {"Mouse"}
    OBVIOUS
  <2>8. m \in mouse
    BY <2>7
  <2>9. \A f : f \in E <=> f \in Fingers /\ Stands(f, held, win.padActive, win.stickActive, win.cursor, win.pinch)
    <3>1. \A f : Stands(f, H, win.padActive, win.stickActive, win.cursor, win.pinch)
                   <=> Stands(f, held, win.padActive, win.stickActive, win.cursor, win.pinch)
      BY <2>5 DEF Stands
    <3> QED BY <2>3, <3>1 DEF FingersOf
  <2>10. \A f : f \in E <=> f \in m \cup rest
    <3>1. \A f \in m \cup rest : f \in Fingers
      <4>1. \A f \in m : f \in Fingers
        BY <2>7 DEF Fingers, NamedFingers
      <4>2. \A f \in rest : f \in Fingers
        BY DEF Fingers, NamedFingers
      <4> QED BY <4>1, <4>2
    <3>2. ASSUME NEW f
          PROVE  Stands(f, held, win.padActive, win.stickActive, win.cursor, win.pinch) <=> f \in m \cup rest
      <4>1. f \in m <=> "mouse" \in held
                          /\ IF win.pinch THEN f \in {"PinchFinger1", "PinchFinger2"} ELSE f = "Mouse"
        BY <2>7
      <4>2. f \in rest <=> \/ f \in held \cap (TouchFingers \cup Keys)
                           \/ held \cap Pads # {} /\ f = "DpadToTouch"
                           \/ "stick" \in held /\ f = "StickToTouch"
                           \/ "cursor" \in held /\ f = "VirtualCursor"
        OBVIOUS
      <4> HIDE DEF rest
      <4> QED BY <2>6, <4>1, <4>2 DEF Stands
    <3> QED BY <2>9, <3>1, <3>2
  <2> HIDE DEF rest, mouse
  <2>11. E = m \cup rest
    BY <2>10
  <2> QED BY <2>4, <2>8, <2>11
<1>3. TouchesMatchInput
  BY <1>1, <1>2 DEF TouchesMatchInput
<1> QED BY <1>1, <1>3 DEF TouchesRight

\* Every step.
LEMMA TouchStepKeeps ==
  ASSUME TouchInv, [TouchesNext]_touchVars
  PROVE  TouchInv'
<1>1. CASE Press
  BY <1>1, PressKeeps
<1>2. CASE Drag
  BY <1>2, DragKeeps
<1>3. CASE Release
  BY <1>3, ReleaseKeeps
<1>4. CASE Plug
  BY <1>4, PlugKeeps
<1>5. CASE Unplug
  BY <1>5, UnplugKeeps
<1>6. CASE SystemEvent
  BY <1>6, SystemEventKeeps
<1>7. CASE PollForEvents
  BY <1>7, PollKeeps
<1>8. CASE HandleEvent
  BY <1>8, EventHandledKeeps
<1>9. CASE UNCHANGED touchVars
  <2>1. UNCHANGED <<pump, desk, held, plugged, win, touches, inputPanic, exited>>
    BY <1>9 DEF touchVars
  <2>2. Hands' = Hands
    BY <2>1 DEF Hands
  <2>3. TouchTypeOK'
    BY <2>1 DEF TouchInv, TouchTypeOK
  <2>4. OneTouchPerView'
    BY <2>1 DEF TouchInv, OneTouchPerView
  <2>5. win.polling => ControllerInv'
    BY <2>1, <2>2 DEF TouchInv, ControllerInv
  <2> QED BY <2>1, <2>2, <2>3, <2>4, <2>5 DEF TouchInv
<1> QED BY <1>1, <1>2, <1>3, <1>4, <1>5, <1>6, <1>7, <1>8, <1>9 DEF TouchesNext

\* Whatever inputs a user has, and however their events fall into batches: once
\* all is handled, the touches in progress are those of the inputs held down;
\* no view that takes one touch at a time ever has two; and no assertion of
\* poll_for_events or of handle_touches_down fails.
THEOREM TouchesFollowHands == TouchesSpec => []TouchesRight
<1>1. TouchInit => TouchInv
  BY FirstTouches
<1>2. TouchInv /\ [TouchesNext]_touchVars => TouchInv'
  BY TouchStepKeeps
<1>3. TouchInv => TouchesRight
  BY TouchInvIsRight
<1> QED BY <1>1, <1>2, <1>3, PTL DEF TouchesSpec
==============================================================================
