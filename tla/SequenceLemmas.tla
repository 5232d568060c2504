--------------------------- MODULE SequenceLemmas ---------------------------
(***************************************************************************)
(* Facts about the sequences of SequencesExt that the proofs of several    *)
(* components need: the last element of a stack and what is below it, the  *)
(* head of a queue and what follows, prefixes, the sequences that list a   *)
(* set; the least element of a set of natural numbers; functions defined   *)
(* by recursion and the sums that folds compute; and how many items of a   *)
(* kind there are in sequences that grow and shrink.                       *)
(***************************************************************************)
EXTENDS Integers, Sequences, FiniteSets, SequencesExt, SequenceTheorems, FiniteSetTheorems, TLAPS

\* A stack that is not empty is its last element above the others.
LEMMA FrontLast ==
  ASSUME NEW S, NEW s \in Seq(S), s # <<>>
  PROVE  /\ Len(s) \in Nat \ {0} /\ DOMAIN s = 1 .. Len(s)
         /\ Last(s) = s[Len(s)] /\ Last(s) \in S
         /\ Front(s) \in Seq(S) /\ Len(Front(s)) = Len(s) - 1
         /\ DOMAIN Front(s) = 1 .. Len(s) - 1
         /\ \A i \in 1 .. Len(s) - 1 : Front(s)[i] = s[i]
<1>1. Len(s) \in Nat \ {0} /\ DOMAIN s = 1 .. Len(s) /\ \A i \in 1 .. Len(s) : s[i] \in S
  BY EmptySeq, LenProperties
<1>2. Last(s) = s[Len(s)] /\ Last(s) \in S
  BY <1>1 DEF Last
<1>3. /\ Front(s) \in Seq(S) /\ Len(Front(s)) = Len(s) - 1
      /\ \A i \in 1 .. Len(s) - 1 : Front(s)[i] = s[i]
  <2>1. \A i \in 1 .. Len(s) - 1 : s[i] \in S
    BY <1>1
  <2>2. /\ SubSeq(s, 1, Len(s) - 1) \in Seq(S)
        /\ Len(SubSeq(s, 1, Len(s) - 1)) = IF 1 <= Len(s) - 1 THEN Len(s) - 1 - 1 + 1 ELSE 0
        /\ \A i \in 1 .. Len(s) - 1 - 1 + 1 : SubSeq(s, 1, Len(s) - 1)[i] = s[1 + i - 1]
    BY <1>1, <2>1, SubSeqProperties
  <2>3. \A i \in 1 .. Len(s) - 1 : i \in 1 .. Len(s) - 1 - 1 + 1 /\ 1 + i - 1 = i
    BY <1>1
  <2> QED BY <1>1, <2>2, <2>3 DEF Front
<1>4. DOMAIN Front(s) = 1 .. Len(s) - 1
  BY <1>3, LenProperties
<1> QED BY <1>1, <1>2, <1>3, <1>4

\* What is pushed is on top, and the rest as it was.
LEMMA Pushed ==
  ASSUME NEW S, NEW s \in Seq(S), NEW e \in S
  PROVE  /\ Append(s, e) \in Seq(S) /\ Append(s, e) # <<>>
         /\ Len(Append(s, e)) = Len(s) + 1 /\ Len(s) \in Nat
         /\ DOMAIN Append(s, e) = 1 .. Len(s) + 1 /\ DOMAIN s = 1 .. Len(s)
         /\ Last(Append(s, e)) = e /\ Append(s, e)[Len(s) + 1] = e
         /\ \A i \in 1 .. Len(s) : Append(s, e)[i] = s[i]
<1>1. /\ Append(s, e) \in Seq(S) /\ Append(s, e) # <<>>
      /\ Len(Append(s, e)) = Len(s) + 1 /\ Append(s, e)[Len(s) + 1] = e
      /\ \A i \in 1 .. Len(s) : Append(s, e)[i] = s[i]
  BY AppendProperties
<1> QED BY <1>1, LenProperties DEF Last

\* Replacing the top of a stack leaves what is below.
LEMMA TopReplaced ==
  ASSUME NEW S, NEW s \in Seq(S), s # <<>>, NEW e \in S
  PROVE  /\ [s EXCEPT ![Len(s)] = e] \in Seq(S)
         /\ [s EXCEPT ![Len(s)] = e] # <<>>
         /\ Len([s EXCEPT ![Len(s)] = e]) = Len(s)
         /\ DOMAIN [s EXCEPT ![Len(s)] = e] = 1 .. Len(s)
         /\ Last([s EXCEPT ![Len(s)] = e]) = e
         /\ [s EXCEPT ![Len(s)] = e][Len(s)] = e
         /\ \A i \in 1 .. Len(s) - 1 : [s EXCEPT ![Len(s)] = e][i] = s[i]
<1>1. Len(s) \in 1 .. Len(s) /\ \A i \in 1 .. Len(s) - 1 : i \in 1 .. Len(s) /\ i # Len(s)
  BY EmptySeq
<1>2. /\ [s EXCEPT ![Len(s)] = e] \in Seq(S)
      /\ Len([s EXCEPT ![Len(s)] = e]) = Len(s)
      /\ \A j \in 1 .. Len(s) : [s EXCEPT ![Len(s)] = e][j] = IF j = Len(s) THEN e ELSE s[j]
  BY <1>1, ExceptSeq
<1>3. [s EXCEPT ![Len(s)] = e] # <<>>
  BY <1>1, <1>2, EmptySeq
<1> QED BY <1>1, <1>2, <1>3, LenProperties DEF Last

\* The rest of a queue that is not empty.
LEMMA HeadRest ==
  ASSUME NEW S, NEW s \in Seq(S), s # <<>>
  PROVE  /\ Len(s) \in Nat \ {0} /\ DOMAIN s = 1 .. Len(s)
         /\ Head(s) = s[1] /\ Head(s) \in S
         /\ Tail(s) \in Seq(S) /\ Len(Tail(s)) = Len(s) - 1
         /\ DOMAIN Tail(s) = 1 .. Len(s) - 1
         /\ \A i \in 1 .. Len(s) - 1 : Tail(s)[i] = s[i + 1]
<1>1. Len(s) \in Nat \ {0} /\ DOMAIN s = 1 .. Len(s) /\ \A i \in 1 .. Len(s) : s[i] \in S
  BY EmptySeq, LenProperties
<1>2. /\ Head(s) = s[1] /\ Head(s) \in S /\ Tail(s) \in Seq(S) /\ Len(Tail(s)) = Len(s) - 1
      /\ \A i \in 1 .. Len(s) - 1 : Tail(s)[i] = s[i + 1]
  BY <1>1, HeadTailProperties
<1> QED BY <1>1, <1>2, LenProperties

\* The nth item of a is the nth of b, which may be longer.
Leads(a, b) == Len(a) <= Len(b) /\ \A i \in 1 .. Len(a) : a[i] = b[i]

\* A sequence of which the other has all items is its prefix.
LEMMA LeadsIsPrefix ==
  ASSUME NEW S, NEW a \in Seq(S), NEW b \in Seq(S), Leads(a, b)
  PROVE  IsPrefix(a, b)
<1> DEFINE n == Len(a)
<1>1. /\ n \in Nat /\ Len(b) \in Nat /\ n <= Len(b)
      /\ \A i \in 1 .. n : a[i] = b[i] /\ a[i] \in S /\ b[i] \in S
  <2>1. /\ n \in Nat /\ Len(b) \in Nat /\ n <= Len(b) /\ \A i \in 1 .. n : a[i] = b[i] /\ a[i] \in S
    BY LenProperties, ElementOfSeq DEF Leads
  <2> QED BY <2>1
<1> HIDE DEF n
<1>2. /\ SubSeq(a, 1, n) \in Seq(S)
      /\ Len(SubSeq(a, 1, n)) = IF 1 <= n THEN n - 1 + 1 ELSE 0
      /\ \A i \in 1 .. n - 1 + 1 : SubSeq(a, 1, n)[i] = a[1 + i - 1]
  BY <1>1, SubSeqProperties
<1>3. /\ SubSeq(b, 1, n) \in Seq(S)
      /\ Len(SubSeq(b, 1, n)) = IF 1 <= n THEN n - 1 + 1 ELSE 0
      /\ \A i \in 1 .. n - 1 + 1 : SubSeq(b, 1, n)[i] = b[1 + i - 1]
  BY <1>1, SubSeqProperties
<1>4. \A i \in 1 .. n : i \in 1 .. n - 1 + 1 /\ 1 + i - 1 = i
  BY <1>1
<1>5. Len(SubSeq(a, 1, n)) = n /\ Len(SubSeq(b, 1, n)) = n
  BY <1>1, <1>2, <1>3
<1>6. \A i \in 1 .. n : SubSeq(a, 1, n)[i] = SubSeq(b, 1, n)[i]
  BY <1>1, <1>2, <1>3, <1>4
<1>7. SubSeq(a, 1, n) = SubSeq(b, 1, n)
  BY <1>2, <1>3, <1>5, <1>6, SeqEqual
<1> QED BY <1>1, <1>7 DEF IsPrefix, n

\* Every set of natural numbers that is not empty has a least element.  It is
\* the principle by which the proofs below argue by induction.
LEMMA LeastNatural ==
  ASSUME NEW S \in SUBSET Nat, S # {}
  PROVE  \E n \in S : \A m \in S : n <= m
<1> DEFINE T == {1 .. n : n \in S}
<1>1. T \subseteq FiniteSubsetsOf(Nat) /\ T # {}
  <2>1. \A n \in S : IsFiniteSet(1 .. n) /\ 1 .. n \in SUBSET Nat
    BY FS_Interval
  <2>2. \A n \in S : 1 .. n \in FiniteSubsetsOf(Nat)
    BY <2>1 DEF FiniteSubsetsOf
  <2> QED BY <2>2
<1>2. \E x \in T : \A y \in T : <<y, x>> \notin StrictSubsetOrdering(Nat)
  <2>1. IsWellFoundedOn(StrictSubsetOrdering(Nat), FiniteSubsetsOf(Nat))
    BY FS_StrictSubsetOrderingWellFounded
  <2> HIDE DEF T
  <2> QED BY <1>1, <2>1, WFMin
<1>3. PICK n \in S : \A m \in S : <<1 .. m, 1 .. n>> \notin StrictSubsetOrdering(Nat)
  BY <1>2
<1>4. ASSUME NEW m \in S, m < n PROVE FALSE
  <2>1. 1 .. m \subseteq 1 .. n /\ n \in 1 .. n /\ n \notin 1 .. m
    BY <1>4
  <2>2. 1 .. m \in SUBSET Nat /\ 1 .. n \in SUBSET Nat
    OBVIOUS
  <2>3. <<1 .. m, 1 .. n>> \in StrictSubsetOrdering(Nat)
    BY <2>1, <2>2 DEF StrictSubsetOrdering
  <2> QED BY <2>3, <1>3
<1> QED BY <1>4

\* A sequence that is another one with an element more.
LEMMA AppendIs ==
  ASSUME NEW S, NEW u \in Seq(S), NEW x \in S, NEW w \in Seq(S), Len(w) = Len(u) + 1,
         \A i \in 1 .. Len(u) : w[i] = u[i], w[Len(u) + 1] = x
  PROVE  Append(u, x) = w
<1>1. Append(u, x) \in Seq(S)
  BY AppendProperties
<1>2. Len(Append(u, x)) = Len(u) + 1
  OBVIOUS
<1>3. \A i \in 1 .. Len(u) : Append(u, x)[i] = u[i]
  OBVIOUS
<1>4. Append(u, x)[Len(u) + 1] = x
  OBVIOUS
<1>5. \A i \in 1 .. Len(w) : Append(u, x)[i] = w[i]
  BY <1>2, <1>3, <1>4
<1> QED BY <1>1, <1>2, <1>5, SeqEqual

\* Short sequences, one element after the other.
LEMMA Appended ==
  ASSUME NEW S, NEW a \in S, NEW b \in S, NEW c \in S
  PROVE  /\ <<a, b>> \in Seq(S) /\ <<a, b, c>> \in Seq(S)
         /\ Append(<<>>, a) = <<a>>
         /\ Append(<<a>>, b) = <<a, b>>
         /\ Append(<<a, b>>, c) = <<a, b, c>>
<1>1. /\ <<a>> \in Seq(S) /\ Len(<<a>>) = 1 /\ <<a>>[1] = a
      /\ <<a, b>> \in Seq(S) /\ Len(<<a, b>>) = 2 /\ <<a, b>>[1] = a /\ <<a, b>>[2] = b
  OBVIOUS
<1>2. /\ <<a, b, c>> \in Seq(S) /\ Len(<<a, b, c>>) = 3
      /\ <<a, b, c>>[1] = a /\ <<a, b, c>>[2] = b /\ <<a, b, c>>[3] = c
  OBVIOUS
<1>3. Append(<<>>, a) = <<a>>
  OBVIOUS
<1>4. Append(<<a>>, b) = <<a, b>>
  <2>1. \A i \in 1 .. Len(<<a>>) : <<a, b>>[i] = <<a>>[i]
    OBVIOUS
  <2>2. Len(<<a, b>>) = Len(<<a>>) + 1 /\ <<a, b>>[Len(<<a>>) + 1] = b
    OBVIOUS
  <2> QED BY <1>1, <2>1, <2>2, AppendIs, Zenon
<1>5. Append(<<a, b>>, c) = <<a, b, c>>
  <2>1. \A i \in 1 .. Len(<<a, b>>) : <<a, b, c>>[i] = <<a, b>>[i]
    OBVIOUS
  <2>2. Len(<<a, b, c>>) = Len(<<a, b>>) + 1 /\ <<a, b, c>>[Len(<<a, b>>) + 1] = c
    OBVIOUS
  <2> QED BY <1>1, <1>2, <2>1, <2>2, AppendIs, Zenon
<1> QED BY <1>1, <1>2, <1>3, <1>4, <1>5, Zenon
\* A function takes finitely many values for finitely many arguments.
LEMMA FewValues ==
  ASSUME NEW S, IsFiniteSet(S), NEW f
  PROVE  IsFiniteSet({f[d] : d \in S})
<1> DEFINE R == {f[d] : d \in S}
           g == [d \in S |-> f[d]]
<1>1. g \in [S -> R] /\ \A t \in R : \E d \in S : g[d] = t
  OBVIOUS
<1> HIDE DEF g, R
<1>2. g \in Surjection(S, R)
  BY <1>1 DEF Surjection
<1>3. IsFiniteSet(R)
  BY <1>2, FS_Surjection
<1> QED BY <1>3 DEF R

\* A sequence of the elements of a finite set has each of them once.
LEMMA EachOnce ==
  ASSUME NEW S, IsFiniteSet(S), NEW s \in SetToSeqs(S)
  PROVE  /\ s \in Seq(S) /\ DOMAIN s = 1 .. Len(s) /\ Len(s) \in Nat
         /\ \A i, j \in DOMAIN s : s[i] = s[j] => i = j
         /\ \A x \in S : \E i \in DOMAIN s : s[i] = x
<1>1. PICK n \in Nat : n = Cardinality(S)
  BY FS_CardinalityType
<1>2. s \in [1 .. n -> S] /\ \A i, j \in 1 .. n : i # j => s[i] # s[j]
  BY <1>1 DEF SetToSeqs
<1>3. s \in Seq(S)
  BY <1>2, SeqDef
<1>4. Len(s) = n /\ DOMAIN s = 1 .. n
  BY <1>2, <1>3, LenProperties
<1>5. IsFiniteSet(1 .. n) /\ Cardinality(1 .. n) = n
  BY FS_Interval
<1>6. s \in Injection(1 .. n, S)
  BY <1>2 DEF Injection, IsInjective
<1>7. s \in Surjection(1 .. n, S)
  BY <1>1, <1>5, <1>6, FS_Injection
<1>8. \A x \in S : \E i \in 1 .. n : s[i] = x
  BY <1>7 DEF Surjection
<1> QED BY <1>2, <1>3, <1>4, <1>8

\* A sequence that has each element of S once.
HasOnce(s, S) ==
    /\ s \in Seq(S)
    /\ \A i, j \in DOMAIN s : s[i] = s[j] => i = j
    /\ \A x \in S : \E i \in DOMAIN s : s[i] = x

\* Two such sequences of disjoint sets, one after the other.
LEMMA EachOnceBoth ==
  ASSUME NEW S, IsFiniteSet(S), NEW p \in SetToSeqs(S),
         NEW T, IsFiniteSet(T), NEW q \in SetToSeqs(T), S \cap T = {}
  PROVE  HasOnce(p \o q, S \cup T)
<1>1. /\ p \in Seq(S) /\ DOMAIN p = 1 .. Len(p) /\ Len(p) \in Nat
      /\ \A i, j \in DOMAIN p : p[i] = p[j] => i = j
      /\ \A x \in S : \E i \in DOMAIN p : p[i] = x
  BY EachOnce
<1>2. /\ q \in Seq(T) /\ DOMAIN q = 1 .. Len(q) /\ Len(q) \in Nat
      /\ \A i, j \in DOMAIN q : q[i] = q[j] => i = j
      /\ \A x \in T : \E i \in DOMAIN q : q[i] = x
  BY EachOnce
<1>3. PICK m \in Nat, n \in Nat : m = Len(p) /\ n = Len(q)
  BY <1>1, <1>2
<1>4. /\ \A i \in 1 .. m : p[i] \in S
      /\ \A i \in 1 .. n : q[i] \in T
  BY <1>1, <1>2, <1>3
<1>5. p \in Seq(S \cup T) /\ q \in Seq(S \cup T)
  BY <1>1, <1>2
<1>6. PICK s : s = p \o q
  OBVIOUS
<1>7. s \in Seq(S \cup T) /\ Len(s) = m + n
  BY <1>3, <1>5, <1>6, ConcatProperties
<1>8. DOMAIN s = 1 .. m + n /\ \A i \in 1 .. m + n : s[i] = IF i <= m THEN p[i] ELSE q[i - m]
  BY <1>3, <1>5, <1>6, <1>7, ConcatProperties, LenProperties
<1>9. \A i, j \in 1 .. m + n : s[i] = s[j] => i = j
  <2>1. ASSUME NEW i \in 1 .. m + n, NEW j \in 1 .. m + n, s[i] = s[j] PROVE i = j
    <3>1. CASE i <= m /\ j <= m
      BY <1>1, <1>3, <1>8, <2>1, <3>1
    <3>2. CASE i <= m /\ j > m
      <4>1. i \in 1 .. m /\ j - m \in 1 .. n
        BY <3>2
      <4> QED BY <1>4, <1>8, <2>1, <3>2, <4>1
    <3>3. CASE i > m /\ j <= m
      <4>1. j \in 1 .. m /\ i - m \in 1 .. n
        BY <3>3
      <4> QED BY <1>4, <1>8, <2>1, <3>3, <4>1
    <3>4. CASE i > m /\ j > m
      <4>1. j - m \in 1 .. n /\ i - m \in 1 .. n /\ s[i] = q[i - m] /\ s[j] = q[j - m]
        BY <1>8, <3>4
      <4>2. i - m = j - m
        BY <1>2, <1>3, <2>1, <4>1
      <4> QED BY <4>2
    <3> QED BY <3>1, <3>2, <3>3, <3>4
  <2> QED BY <2>1
<1>10. ASSUME NEW x \in S \cup T PROVE \E i \in 1 .. m + n : s[i] = x
  <2>1. CASE x \in S
    <3>1. PICK i \in 1 .. m : p[i] = x
      BY <1>1, <1>3, <2>1
    <3> QED BY <1>8, <3>1
  <2>2. CASE x \in T
    <3>1. PICK i \in 1 .. n : q[i] = x
      BY <1>2, <1>3, <2>2
    <3>2. PICK k : k = i + m
      OBVIOUS
    <3>3. k \in 1 .. m + n /\ ~(k <= m) /\ k - m = i
      BY <3>2
    <3> QED BY <1>8, <3>1, <3>3
  <2> QED BY <2>1, <2>2
<1>11. HasOnce(s, S \cup T)
  BY <1>7, <1>8, <1>9, <1>10 DEF HasOnce
<1> QED BY <1>6, <1>11

-----------------------------------------------------------------------------
(* Recursion and folds                                                     *)

\* The subsets of S that have at most n elements.
SubsetsUpTo(S, n) == {s \in SUBSET S : Cardinality(s) <= n}

\* A function of the subsets of a finite set can be defined by recursion: its
\* value for a set from that for the set without the element c takes away.
Unfolds(g, U, base, c, H) ==
    \A s \in U : g[s] = IF s = {} THEN base ELSE H[<<s, g[s \ {c[s]}]>>]
Recursion(S, V, base, c, H) ==
    /\ IsFiniteSet(S) /\ base \in V
    /\ \A s \in SUBSET S : s # {} => c[s] \in s
    /\ \A s \in SUBSET S, v \in V : s # {} => H[<<s, v>>] \in V

\* It can: there is such a function.
LEMMA SetRecursion ==
  ASSUME NEW S, NEW V, NEW base, NEW c, NEW H, Recursion(S, V, base, c, H)
  PROVE  \E g \in [SUBSET S -> V] : Unfolds(g, SUBSET S, base, c, H)
<1> DEFINE Upto(n) == SubsetsUpTo(S, n)
           Good(n) == \E g \in [Upto(n) -> V] : Unfolds(g, Upto(n), base, c, H)
           Bad == {n \in Nat : ~Good(n)}
<1>0. /\ IsFiniteSet(S) /\ base \in V
      /\ \A s \in SUBSET S : s # {} => c[s] \in s
      /\ \A s \in SUBSET S, v \in V : s # {} => H[<<s, v>>] \in V
  BY DEF Recursion
<1>1. \A s \in SUBSET S : IsFiniteSet(s) /\ Cardinality(s) \in Nat /\ (Cardinality(s) = 0 <=> s = {})
  BY <1>0, FS_Subset, FS_CardinalityType, FS_EmptySet
<1>2. ASSUME NEW n \in Nat, NEW s \in Upto(n), s # {}
      PROVE  n # 0 /\ s \ {c[s]} \in Upto(n - 1) /\ s \in SUBSET S
  <2>1. s \in SUBSET S /\ Cardinality(s) <= n /\ Cardinality(s) \in Nat /\ c[s] \in s /\ IsFiniteSet(s)
    BY <1>0, <1>1, <1>2 DEF SubsetsUpTo
  <2>2. Cardinality(s) # 0
    BY <2>1, <1>1, <1>2
  <2>3. Cardinality(s \ {c[s]}) = Cardinality(s) - 1
    BY <2>1, FS_RemoveElement
  <2> QED BY <2>1, <2>2, <2>3 DEF SubsetsUpTo
<1>3. Bad = {}
  <2>1. SUFFICES ASSUME Bad # {} PROVE FALSE
    OBVIOUS
  <2>2. PICK m \in Bad : \A k \in Bad : m <= k
    BY <2>1, LeastNatural
  <2>3. m \in Nat /\ ~Good(m) /\ \A k \in Nat : k < m => Good(k)
    BY <2>2
  <2>4. CASE m = 0
    <3> DEFINE g == [s \in Upto(m) |-> base]
    <3>1. \A s \in Upto(m) : s = {}
      BY <2>4, <1>2
    <3>2. g \in [Upto(m) -> V] /\ Unfolds(g, Upto(m), base, c, H)
      BY <1>0, <3>1 DEF Unfolds
    <3> QED BY <3>2, <2>3
  <2>5. CASE m # 0
    <3>1. PICK k \in Nat : k = m - 1 /\ k < m
      BY <2>3, <2>5
    <3>2. PICK g \in [Upto(k) -> V] : Unfolds(g, Upto(k), base, c, H)
      BY <2>3, <3>1
    <3> DEFINE h == [s \in Upto(m) |-> IF s \in Upto(k) THEN g[s]
                                       ELSE H[<<s, g[s \ {c[s]}]>>]]
    <3>3. \A s \in Upto(m) : s # {} => s \ {c[s]} \in Upto(k) /\ s \in SUBSET S
      BY <1>2, <2>3, <3>1
    <3>4. {} \in Upto(k) /\ \A s \in Upto(k) : s \in Upto(m)
      <4>1. Cardinality({}) = 0
        BY FS_EmptySet
      <4> QED BY <1>1, <4>1, <3>1, <2>3 DEF SubsetsUpTo
    <3> HIDE DEF Upto
    <3>5. h \in [Upto(m) -> V]
      <4>1. ASSUME NEW s \in Upto(m) PROVE h[s] \in V
        <5>1. CASE s \in Upto(k)
          BY <5>1, <3>2
        <5>2. CASE s \notin Upto(k)
          <6>1. s # {} /\ s \in SUBSET S /\ g[s \ {c[s]}] \in V
            BY <5>2, <3>2, <3>3, <3>4
          <6> QED BY <1>0, <5>2, <6>1
        <5> QED BY <5>1, <5>2
      <4> QED BY <4>1
    <3>6. Unfolds(h, Upto(m), base, c, H)
      <4>1. ASSUME NEW s \in Upto(m)
            PROVE  h[s] = IF s = {} THEN base ELSE H[<<s, h[s \ {c[s]}]>>]
        <5>1. CASE s = {}
          BY <5>1, <3>2, <3>4 DEF Unfolds
        <5>2. CASE s # {}
          <6>1. s \ {c[s]} \in Upto(k) /\ s \ {c[s]} \in Upto(m)
            BY <5>2, <3>3, <3>4
          <6>2. h[s \ {c[s]}] = g[s \ {c[s]}]
            BY <6>1
          <6>3. h[s] = H[<<s, g[s \ {c[s]}]>>]
            BY <5>2, <3>2 DEF Unfolds
          <6> QED BY <5>2, <6>2, <6>3
        <5> QED BY <5>1, <5>2
      <4> HIDE DEF h
      <4> QED BY <4>1 DEF Unfolds
    <3> HIDE DEF h
    <3> QED BY <2>3, <3>5, <3>6 DEF Good
  <2> QED BY <2>4, <2>5
<1>4. Cardinality(S) \in Nat /\ Upto(Cardinality(S)) = SUBSET S
  <2>1. \A s \in SUBSET S : Cardinality(s) <= Cardinality(S)
    BY <1>0, FS_Subset
  <2> QED BY <1>0, <2>1, FS_CardinalityType DEF SubsetsUpTo
<1>5. Good(Cardinality(S))
  BY <1>3, <1>4
<1> HIDE DEF Upto
<1> QED BY <1>4, <1>5

\* There is only one such function.
Follows(h, S, V, base, c, H) ==
    /\ h[{}] = base
    /\ \A s \in SUBSET S : s # {} /\ h[s \ {c[s]}] \in V => h[s] = H[<<s, h[s \ {c[s]}]>>]
\* A recursion over the subsets of a set has one solution.
LEMMA SetRecursionOnly ==
  ASSUME NEW S, NEW V, NEW base, NEW c, NEW H, Recursion(S, V, base, c, H),
         NEW g \in [SUBSET S -> V], Unfolds(g, SUBSET S, base, c, H),
         NEW h, Follows(h, S, V, base, c, H)
  PROVE  \A s \in SUBSET S : h[s] = g[s]
<1> DEFINE Bad == {n \in Nat : \E s \in SUBSET S : Cardinality(s) = n /\ h[s] # g[s]}
<1>0. IsFiniteSet(S) /\ base \in V /\ \A s \in SUBSET S : s # {} => c[s] \in s
  BY DEF Recursion
<1>1. \A s \in SUBSET S : IsFiniteSet(s) /\ Cardinality(s) \in Nat /\ (Cardinality(s) = 0 <=> s = {})
  BY <1>0, FS_Subset, FS_CardinalityType, FS_EmptySet
<1>2. Bad = {}
  <2>1. SUFFICES ASSUME Bad # {} PROVE FALSE
    OBVIOUS
  <2>2. PICK m \in Bad : \A k \in Bad : m <= k
    BY <2>1, LeastNatural
  <2>3. PICK s \in SUBSET S : Cardinality(s) = m /\ h[s] # g[s]
    BY <2>2
  <2>4. CASE s = {}
    BY <2>3, <2>4 DEF Unfolds, Follows
  <2>5. CASE s # {}
    <3>1. c[s] \in s /\ IsFiniteSet(s) /\ m \in Nat
      BY <1>0, <1>1, <2>3, <2>5
    <3>2. s \ {c[s]} \in SUBSET S /\ Cardinality(s \ {c[s]}) = m - 1
      BY <3>1, <2>3, FS_RemoveElement
    <3>3. h[s \ {c[s]}] = g[s \ {c[s]}]
      BY <3>1, <3>2, <2>2, <1>1
    <3>4. g[s \ {c[s]}] \in V
      BY <3>2
    <3>5. h[s] = H[<<s, h[s \ {c[s]}]>>]
      BY <2>5, <3>3, <3>4 DEF Follows
    <3>6. g[s] = H[<<s, g[s \ {c[s]}]>>]
      BY <2>5 DEF Unfolds
    <3> QED BY <2>3, <3>3, <3>5, <3>6
  <2> QED BY <2>4, <2>5
<1> QED BY <1>1, <1>2

\* A function of the numbers up to n can be defined by recursion: its value for
\* a number from that number and the value for the number before.  There is only
\* one.
StepIterates(g, n, V, base, H) ==
    /\ g \in [0 .. n -> V] /\ g[0] = base /\ \A k \in 1 .. n : g[k] = H[<<k, g[k - 1]>>]
    /\ \A h : h[0] = base /\ (\A k \in 1 .. n : h[k - 1] \in V => h[k] = H[<<k, h[k - 1]>>]) =>
         \A k \in 0 .. n : h[k] = g[k]

\* Its existence, by induction on n.
LEMMA StepIteration ==
  ASSUME NEW n \in Nat, NEW V, NEW base \in V, NEW H \in [(1 .. n) \X V -> V]
  PROVE  \E g : StepIterates(g, n, V, base, H)
<1> DEFINE Good(m) == \E g \in [0 .. m -> V] : g[0] = base /\ \A k \in 1 .. m : g[k] = H[<<k, g[k - 1]>>]
           Bad == {m \in Nat : m <= n /\ ~Good(m)}
<1>1. Bad = {}
  <2>1. SUFFICES ASSUME Bad # {} PROVE FALSE
    OBVIOUS
  <2>2. PICK m \in Bad : \A k \in Bad : m <= k
    BY <2>1, LeastNatural
  <2>3. m \in Nat /\ m <= n /\ ~Good(m) /\ \A k \in Nat : k < m => Good(k)
    <3>1. \A k \in Nat : k < m /\ m <= n => k <= n
      OBVIOUS
    <3> HIDE DEF Good
    <3>2. m \in Nat /\ m <= n /\ ~Good(m)
      OBVIOUS
    <3>3. ASSUME NEW k \in Nat, k < m, ~Good(k) PROVE FALSE
      <4>1. k \in Bad
        BY <3>1, <3>2, <3>3
      <4> QED BY <2>2, <3>2, <3>3, <4>1
    <3> QED BY <3>2, <3>3
  <2>4. CASE m = 0
    <3> DEFINE g == [k \in 0 .. m |-> base]
    <3>1. g \in [0 .. m -> V] /\ g[0] = base /\ \A k \in 1 .. m : g[k] = H[<<k, g[k - 1]>>]
      BY <2>4
    <3> QED BY <3>1, <2>3
  <2>5. CASE m # 0
    <3>1. m - 1 \in Nat /\ m - 1 < m
      BY <2>3, <2>5
    <3>2. PICK g \in [0 .. m - 1 -> V] : g[0] = base /\ \A k \in 1 .. m - 1 : g[k] = H[<<k, g[k - 1]>>]
      BY <2>3, <3>1
    <3> DEFINE h == [k \in 0 .. m |-> IF k < m THEN g[k] ELSE H[<<m, g[m - 1]>>]]
    <3>3. g[m - 1] \in V /\ \A k \in 1 .. m : \A v \in V : H[<<k, v>>] \in V
      <4>1. 1 .. m \subseteq 1 .. n
        BY <2>3
      <4> QED BY <3>1, <3>2, <4>1
    <3>4. h \in [0 .. m -> V]
      <4>1. \A k \in 0 .. m : k < m => k \in 0 .. m - 1
        BY <2>3
      <4>2. \A k \in 0 .. m : k < m => g[k] \in V
        BY <3>2, <4>1
      <4>3. H[<<m, g[m - 1]>>] \in V
        <5>1. m \in 1 .. m
          BY <2>3, <2>5
        <5> QED BY <3>3, <5>1
      <4> QED BY <4>2, <4>3
    <3>5. h[0] = base
      BY <2>3, <2>5, <3>2
    <3>6. ASSUME NEW k \in 1 .. m PROVE h[k] = H[<<k, h[k - 1]>>]
      <4>1. k - 1 \in 0 .. m /\ k - 1 < m /\ h[k - 1] = g[k - 1] /\ k \in 0 .. m
        BY <2>3, <3>6
      <4>2. CASE k < m
        BY <2>3, <3>2, <4>1, <4>2
      <4>3. CASE k = m
        BY <4>1, <4>3
      <4> QED BY <2>3, <4>2, <4>3
    <3> HIDE DEF h
    <3> QED BY <2>3, <3>4, <3>5, <3>6
  <2> QED BY <2>4, <2>5
<1>2. PICK g \in [0 .. n -> V] : g[0] = base /\ \A k \in 1 .. n : g[k] = H[<<k, g[k - 1]>>]
  <2>1. Good(n)
    <3> HIDE DEF Good
    <3>1. n <= n
      OBVIOUS
    <3> QED BY <1>1, <3>1
  <2> QED BY <2>1
<1>3. ASSUME NEW h, h[0] = base, \A k \in 1 .. n : h[k - 1] \in V => h[k] = H[<<k, h[k - 1]>>]
      PROVE  \A k \in 0 .. n : h[k] = g[k]
  <2> DEFINE Off == {k \in Nat : k <= n /\ h[k] # g[k]}
  <2>1. Off = {}
    <3>1. SUFFICES ASSUME Off # {} PROVE FALSE
      OBVIOUS
    <3>2. PICK m \in Off : \A k \in Off : m <= k
      BY <3>1, LeastNatural
    <3>3. m \in 1 .. n
      BY <1>2, <1>3, <3>2
    <3>4. m - 1 \in 0 .. n /\ m - 1 \in Nat /\ m - 1 <= n /\ m - 1 < m
      BY <3>3
    <3>5. h[m - 1] = g[m - 1]
      BY <3>2, <3>4
    <3>6. g[m - 1] \in V
      BY <3>4
    <3> QED BY <1>2, <1>3, <3>2, <3>3, <3>5, <3>6
  <2> QED BY <2>1
<1> QED BY <1>2, <1>3 DEF StepIterates

\* When the number itself does not matter.
Iterates(g, n, V, base, H) ==
    /\ g \in [0 .. n -> V] /\ g[0] = base /\ \A k \in 1 .. n : g[k] = H[g[k - 1]]
    /\ \A h : h[0] = base /\ (\A k \in 1 .. n : h[k - 1] \in V => h[k] = H[h[k - 1]]) =>
         \A k \in 0 .. n : h[k] = g[k]

\* Its existence.
LEMMA Iteration ==
  ASSUME NEW n \in Nat, NEW V, NEW base \in V, NEW H \in [V -> V]
  PROVE  \E g : Iterates(g, n, V, base, H)
<1> DEFINE G == [e \in (1 .. n) \X V |-> H[e[2]]]
<1>1. G \in [(1 .. n) \X V -> V]
  OBVIOUS
<1>2. \A k \in 1 .. n : \A v \in V : G[<<k, v>>] = H[v]
  OBVIOUS
<1> HIDE DEF G
<1>3. PICK g : StepIterates(g, n, V, base, G)
  BY <1>1, StepIteration, Zenon
<1>4. /\ g \in [0 .. n -> V] /\ g[0] = base /\ \A k \in 1 .. n : g[k] = G[<<k, g[k - 1]>>]
      /\ \A h : h[0] = base /\ (\A k \in 1 .. n : h[k - 1] \in V => h[k] = G[<<k, h[k - 1]>>]) =>
           \A k \in 0 .. n : h[k] = g[k]
  BY <1>3 DEF StepIterates
<1>5. \A k \in 1 .. n : g[k] = H[g[k - 1]]
  <2>1. \A k \in 1 .. n : k - 1 \in 0 .. n
    OBVIOUS
  <2> QED BY <1>2, <1>4, <2>1
<1>6. ASSUME NEW h, h[0] = base, \A k \in 1 .. n : h[k - 1] \in V => h[k] = H[h[k - 1]]
      PROVE  \A k \in 0 .. n : h[k] = g[k]
  BY <1>2, <1>4, <1>6
<1> QED BY <1>4, <1>5, <1>6 DEF Iterates

-----------------------------------------------------------------------------
(* Sums                                                                    *)

\* The sum of the values of f for the elements of S, as the folds of the
\* community modules define it.
Total(f, S) == FoldFunctionOnSet(+, 0, f, S)
Ints(f, S) == \A x \in S : f[x] \in Int

SumIter(f, S) ==
    CHOOSE g : g = [t \in SUBSET S |->
                     IF t = {} THEN 0
                     ELSE f[CHOOSE x \in t : TRUE] + g[t \ {CHOOSE x \in t : TRUE}]]

\* A total is what its recursion has for the whole set.
LEMMA TotalIsIter ==
  ASSUME NEW f, NEW S
  PROVE  Total(f, S) = SumIter(f, S)[S]
BY DEF Total, FoldFunctionOnSet, MapThenFoldSet, SumIter

\* What the fold computes for all subsets of S.
Adds(g, f, S) ==
    /\ g[{}] = 0
    /\ \A t \in SUBSET S : t # {} =>
         g[t] = f[CHOOSE x \in t : TRUE] + g[t \ {CHOOSE x \in t : TRUE}]
Sums(g, f, S) == g \in [SUBSET S -> Int] /\ Adds(g, f, S)
\* That recursion has a solution, and one only, which is made of integers.
LEMMA SumsExist ==
  ASSUME NEW S, IsFiniteSet(S), NEW f, Ints(f, S)
  PROVE  \E g : /\ Sums(g, f, S)
                /\ \A h : Adds(h, f, S) => \A t \in SUBSET S : h[t] = g[t]
<1> DEFINE c == [s \in SUBSET S |-> CHOOSE x \in s : TRUE]
           H == [p \in (SUBSET S) \X Int |-> f[c[p[1]]] + p[2]]
<1>1. \A s \in SUBSET S : s # {} => c[s] \in s /\ c[s] = CHOOSE x \in s : TRUE
  OBVIOUS
<1>2. \A s \in SUBSET S, v \in Int : s # {} => H[<<s, v>>] = f[c[s]] + v /\ H[<<s, v>>] \in Int
  <2>1. \A s \in SUBSET S, v \in Int : H[<<s, v>>] = f[c[s]] + v
    OBVIOUS
  <2>2. \A s \in SUBSET S : s # {} => f[c[s]] \in Int
    BY <1>1 DEF Ints
  <2> HIDE DEF c, H
  <2> QED BY <2>1, <2>2
<1> HIDE DEF c, H
<1>6. Recursion(S, Int, 0, c, H)
  BY <1>1, <1>2 DEF Recursion
<1>3. PICK g \in [SUBSET S -> Int] : Unfolds(g, SUBSET S, 0, c, H)
  BY <1>6, SetRecursion
<1>4. Sums(g, f, S)
  <2>1. g[{}] = 0
    BY <1>3 DEF Unfolds
  <2>2. ASSUME NEW t \in SUBSET S, t # {} PROVE g[t] = f[c[t]] + g[t \ {c[t]}]
    <3>1. g[t] = H[<<t, g[t \ {c[t]}]>>] /\ g[t \ {c[t]}] \in Int
      BY <1>3, <2>2 DEF Unfolds
    <3> QED BY <1>2, <3>1, <2>2
  <2> QED BY <1>1, <1>3, <2>1, <2>2 DEF Sums, Adds
<1>5. ASSUME NEW h, Adds(h, f, S)
      PROVE  \A t \in SUBSET S : h[t] = g[t]
  <2>2. \A s \in SUBSET S : s # {} /\ h[s \ {c[s]}] \in Int => h[s] = H[<<s, h[s \ {c[s]}]>>]
    <3>1. ASSUME NEW s \in SUBSET S, s # {}, h[s \ {c[s]}] \in Int
          PROVE  h[s] = H[<<s, h[s \ {c[s]}]>>]
      <4>1. h[s] = f[c[s]] + h[s \ {c[s]}]
        BY <1>1, <1>5, <3>1 DEF Adds
      <4> QED BY <1>2, <3>1, <4>1
    <3> QED BY <3>1
  <2>3. h[{}] = 0
    BY <1>5 DEF Adds
  <2>5. g \in [SUBSET S -> Int] /\ Unfolds(g, SUBSET S, 0, c, H)
    BY <1>3
  <2>6. Follows(h, S, Int, 0, c, H)
    BY <2>2, <2>3 DEF Follows
  <2> QED BY <1>6, <2>5, <2>6, SetRecursionOnly
<1> QED BY <1>4, <1>5

\* A total is a sum in the sense of Sums.
LEMMA SumsOf ==
  ASSUME NEW S, IsFiniteSet(S), NEW f, Ints(f, S)
  PROVE  \E g : Sums(g, f, S) /\ Total(f, S) = g[S]
<1>1. PICK g : /\ Sums(g, f, S)
               /\ \A h : Adds(h, f, S) => \A t \in SUBSET S : h[t] = g[t]
  BY SumsExist
<1>2. g = [t \in SUBSET S |->
             IF t = {} THEN 0 ELSE f[CHOOSE x \in t : TRUE] + g[t \ {CHOOSE x \in t : TRUE}]]
  <2> DEFINE k == [t \in SUBSET S |->
             IF t = {} THEN 0 ELSE f[CHOOSE x \in t : TRUE] + g[t \ {CHOOSE x \in t : TRUE}]]
  <2>1. g \in [SUBSET S -> Int] /\ \A t \in SUBSET S : g[t] = k[t]
    BY <1>1 DEF Sums, Adds
  <2>2. k = [t \in SUBSET S |-> k[t]] /\ g = [t \in SUBSET S |-> g[t]]
    BY <2>1
  <2> HIDE DEF k
  <2>3. g = k
    BY <2>1, <2>2
  <2> QED BY <2>3 DEF k
<1> DEFINE h == SumIter(f, S)
<1>3. h = [t \in SUBSET S |->
             IF t = {} THEN 0 ELSE f[CHOOSE x \in t : TRUE] + h[t \ {CHOOSE x \in t : TRUE}]]
  BY <1>2, Zenon DEF SumIter
<1>4. Total(f, S) = h[S]
  BY TotalIsIter
<1> HIDE DEF h
<1>5. Adds(h, f, S)
  BY <1>3 DEF Adds
<1>6. h[S] = g[S]
  BY <1>1, <1>5
<1> QED BY <1>1, <1>4, <1>6

\* The fold of a set in terms of that of the set without one element, which
\* the fold chooses...
LEMMA TotalChosen ==
  ASSUME NEW S, IsFiniteSet(S), NEW f, Ints(f, S)
  PROVE  /\ Total(f, S) \in Int
         /\ S = {} => Total(f, S) = 0
         /\ S # {} => Total(f, S) = f[CHOOSE x \in S : TRUE] + Total(f, S \ {CHOOSE x \in S : TRUE})
<1>1. PICK g : Sums(g, f, S) /\ Total(f, S) = g[S]
  BY SumsOf
<1>2. Total(f, S) \in Int /\ (S = {} => Total(f, S) = 0)
  BY <1>1 DEF Sums, Adds
<1>3. ASSUME S # {}
      PROVE  Total(f, S) = f[CHOOSE x \in S : TRUE] + Total(f, S \ {CHOOSE x \in S : TRUE})
  <2> DEFINE T == S \ {CHOOSE x \in S : TRUE}
  <2>1. T \in SUBSET S /\ Ints(f, T)
    BY DEF Ints
  <2>2. Total(f, S) = f[CHOOSE x \in S : TRUE] + g[T]
    BY <1>1, <1>3 DEF Sums, Adds
  <2> HIDE DEF T
  <2>3. IsFiniteSet(T)
    BY <2>1, FS_Subset
  <2>4. PICK k : /\ Sums(k, f, T)
                 /\ \A h : Adds(h, f, T) => \A t \in SUBSET T : h[t] = k[t]
    BY <2>1, <2>3, SumsExist
  <2>5. g[T] = k[T]
    <3>1. Adds(g, f, T)
      BY <1>1, <2>1 DEF Sums, Adds
    <3> QED BY <2>4, <3>1
  <2>6. PICK j : Sums(j, f, T) /\ Total(f, T) = j[T]
    BY <2>1, <2>3, SumsOf
  <2>7. j[T] = k[T]
    BY <2>4, <2>6 DEF Sums
  <2> QED BY <2>2, <2>5, <2>6, <2>7 DEF T
<1> QED BY <1>2, <1>3

\* ...or any other.
LEMMA TotalElement ==
  ASSUME NEW S, IsFiniteSet(S), NEW f, Ints(f, S)
  PROVE  \A x \in S : Total(f, S) = f[x] + Total(f, S \ {x})
<1> DEFINE Bad == {n \in Nat : \E s \in SUBSET S : Cardinality(s) = n
                                /\ \E x \in s : Total(f, s) # f[x] + Total(f, s \ {x})}
<1>1. \A s \in SUBSET S : /\ IsFiniteSet(s) /\ Cardinality(s) \in Nat /\ Ints(f, s)
                          /\ \A x \in s : Cardinality(s \ {x}) = Cardinality(s) - 1
  BY FS_Subset, FS_CardinalityType, FS_RemoveElement DEF Ints
<1>2. Bad = {}
  <2>1. SUFFICES ASSUME Bad # {} PROVE FALSE
    OBVIOUS
  <2>2. PICK m \in Bad : \A k \in Bad : m <= k
    BY <2>1, LeastNatural
  <2>3. PICK s \in SUBSET S : Cardinality(s) = m /\ \E x \in s : Total(f, s) # f[x] + Total(f, s \ {x})
    BY <2>2
  <2>4. PICK x \in s : Total(f, s) # f[x] + Total(f, s \ {x})
    BY <2>3
  <2>5. PICK y \in s : y = CHOOSE z \in s : TRUE
    BY <2>4
  <2>6. Total(f, s) = f[y] + Total(f, s \ {y})
    BY <1>1, <2>3, <2>5, TotalChosen
  <2>7. x # y
    BY <2>4, <2>6
  <2>8. m \in Nat /\ \A t \in SUBSET S : Cardinality(t) = m - 1 =>
           \A z \in t : Total(f, t) = f[z] + Total(f, t \ {z})
    <3>1. m \in Nat
      BY <2>2
    <3>2. ASSUME NEW t \in SUBSET S, Cardinality(t) = m - 1, NEW z \in t
          PROVE  Total(f, t) = f[z] + Total(f, t \ {z})
      <4>1. Cardinality(t) \in Nat /\ Cardinality(t) < m
        BY <1>1, <3>1, <3>2
      <4>2. Cardinality(t) \notin Bad
        BY <2>2, <3>1, <4>1
      <4> QED BY <4>1, <4>2
    <3> QED BY <3>1, <3>2
  <2> DEFINE both == (s \ {x}) \ {y}
  <2>9. both = (s \ {y}) \ {x} /\ both \in SUBSET S
    OBVIOUS
  <2>10. s \ {x} \in SUBSET S /\ s \ {y} \in SUBSET S /\ x \in s \ {y} /\ y \in s \ {x}
    BY <2>7
  <2>11. Cardinality(s \ {x}) = m - 1 /\ Cardinality(s \ {y}) = m - 1
    BY <1>1, <2>3
  <2>12. Total(f, s \ {x}) = f[y] + Total(f, both)
    BY <2>8, <2>10, <2>11
  <2>13. Total(f, s \ {y}) = f[x] + Total(f, both)
    BY <2>8, <2>9, <2>10, <2>11
  <2>14. f[x] \in Int /\ f[y] \in Int
    BY DEF Ints
  <2>15. Total(f, both) \in Int
    BY <1>1, <2>9, TotalChosen
  <2> HIDE DEF both
  <2> QED BY <2>4, <2>6, <2>12, <2>13, <2>14, <2>15
<1> QED BY <1>1, <1>2

\* The sum of functions that agree is the same.
LEMMA TotalAgrees ==
  ASSUME NEW S, IsFiniteSet(S), NEW f, Ints(f, S), NEW g, \A x \in S : g[x] = f[x]
  PROVE  Total(g, S) = Total(f, S)
<1>1. Ints(g, S)
  BY DEF Ints
<1>2. PICK h : Sums(h, f, S) /\ \A k : Adds(k, f, S) => \A t \in SUBSET S : k[t] = h[t]
  BY SumsExist
<1>3. PICK j : Sums(j, f, S) /\ Total(f, S) = j[S]
  BY SumsOf
<1>4. PICK k : Sums(k, g, S) /\ Total(g, S) = k[S]
  BY <1>1, SumsOf
<1>5. Adds(k, f, S)
  <2>1. \A t \in SUBSET S : t # {} => (CHOOSE x \in t : TRUE) \in S
    OBVIOUS
  <2>2. \A t \in SUBSET S : t # {} => g[CHOOSE x \in t : TRUE] = f[CHOOSE x \in t : TRUE]
    BY <2>1
  <2> QED BY <1>4, <2>2 DEF Sums, Adds
<1>6. k[S] = h[S] /\ j[S] = h[S]
  BY <1>2, <1>3, <1>5 DEF Sums
<1> QED BY <1>3, <1>4, <1>6

\* The sum of f, and of g, which differs from f for x only.
Moves(f, g, S, x) == Total(g, S) = Total(f, S) + (g[x] - f[x])

\* The sum moves as much as the one value.
LEMMA TotalMoves ==
  ASSUME NEW S, IsFiniteSet(S), NEW f, Ints(f, S), NEW g, Ints(g, S), NEW x \in S,
         \A y \in S : y # x => g[y] = f[y]
  PROVE  Moves(f, g, S, x)
<1>1. IsFiniteSet(S \ {x}) /\ Ints(f, S \ {x}) /\ \A y \in S \ {x} : g[y] = f[y]
  BY FS_Subset DEF Ints
<1>2. Total(g, S \ {x}) = Total(f, S \ {x}) /\ Total(f, S \ {x}) \in Int
  BY <1>1, TotalAgrees, TotalChosen
<1>3. Total(g, S) = g[x] + Total(g, S \ {x}) /\ Total(f, S) = f[x] + Total(f, S \ {x})
  BY TotalElement
<1>4. f[x] \in Int /\ g[x] \in Int
  BY DEF Ints
<1> QED BY <1>2, <1>3, <1>4 DEF Moves

\* A sum of natural numbers is one, and no less than each.
LEMMA TotalNatural ==
  ASSUME NEW S, IsFiniteSet(S), NEW f, \A x \in S : f[x] \in Nat
  PROVE  Total(f, S) \in Nat /\ \A x \in S : f[x] <= Total(f, S)
<1>1. ASSUME NEW T \in SUBSET S PROVE Total(f, T) \in Nat
  <2>1. Ints(f, T) /\ IsFiniteSet(T)
    BY FS_Subset DEF Ints
  <2> DEFINE c == [s \in SUBSET T |-> CHOOSE x \in s : TRUE]
             H == [p \in (SUBSET T) \X Nat |-> f[c[p[1]]] + p[2]]
  <2>2. \A s \in SUBSET T : s # {} => c[s] \in s /\ c[s] = CHOOSE x \in s : TRUE
    OBVIOUS
  <2>3. \A s \in SUBSET T, v \in Nat : s # {} => H[<<s, v>>] = f[c[s]] + v /\ H[<<s, v>>] \in Nat
    <3>1. \A s \in SUBSET T, v \in Nat : H[<<s, v>>] = f[c[s]] + v
      OBVIOUS
    <3>2. \A s \in SUBSET T : s # {} => f[c[s]] \in Nat
      BY <2>2
    <3> HIDE DEF c, H
    <3> QED BY <3>1, <3>2
  <2> HIDE DEF c, H
  <2>4. Recursion(T, Nat, 0, c, H)
    BY <2>1, <2>2, <2>3 DEF Recursion
  <2>5. PICK g \in [SUBSET T -> Nat] : Unfolds(g, SUBSET T, 0, c, H)
    BY <2>4, SetRecursion
  <2>6. Adds(g, f, T)
    <3>1. g[{}] = 0
      BY <2>5 DEF Unfolds
    <3>2. ASSUME NEW t \in SUBSET T, t # {} PROVE g[t] = f[c[t]] + g[t \ {c[t]}]
      <4>1. g[t] = H[<<t, g[t \ {c[t]}]>>] /\ g[t \ {c[t]}] \in Nat
        BY <2>5, <3>2 DEF Unfolds
      <4> QED BY <2>3, <3>2, <4>1
    <3> QED BY <2>2, <3>1, <3>2 DEF Adds
  <2>7. PICK h : Sums(h, f, T) /\ \A k : Adds(k, f, T) => \A t \in SUBSET T : k[t] = h[t]
    BY <2>1, SumsExist
  <2>8. PICK j : Sums(j, f, T) /\ Total(f, T) = j[T]
    BY <2>1, SumsOf
  <2>9. j[T] = g[T]
    BY <2>6, <2>7, <2>8 DEF Sums
  <2> QED BY <2>5, <2>8, <2>9
<1>2. ASSUME NEW x \in S PROVE f[x] <= Total(f, S)
  <2>1. Ints(f, S) /\ S \ {x} \in SUBSET S
    BY DEF Ints
  <2>2. Total(f, S) = f[x] + Total(f, S \ {x}) /\ Total(f, S \ {x}) \in Nat
    BY <1>1, <2>1, TotalElement
  <2> QED BY <2>2
<1>3. S \in SUBSET S
  OBVIOUS
<1> QED BY <1>1, <1>2, <1>3

\* The sum of nothing but zeros, and the sum where all but one are zero.
LEMMA TotalZero ==
  ASSUME NEW S, IsFiniteSet(S), NEW f, \A x \in S : f[x] = 0
  PROVE  Total(f, S) = 0
<1>1. Ints(f, S)
  BY DEF Ints
<1>2. PICK h : Sums(h, f, S) /\ \A k : Adds(k, f, S) => \A t \in SUBSET S : k[t] = h[t]
  BY <1>1, SumsExist
<1>3. PICK j : Sums(j, f, S) /\ Total(f, S) = j[S]
  BY <1>1, SumsOf
<1> DEFINE k == [t \in SUBSET S |-> 0]
<1>4. Adds(k, f, S)
  <2>1. \A t \in SUBSET S : t # {} => f[CHOOSE x \in t : TRUE] = 0
    OBVIOUS
  <2>2. k[{}] = 0 /\ \A t \in SUBSET S : k[t] = 0 /\ k[t \ {CHOOSE x \in t : TRUE}] = 0
    OBVIOUS
  <2> HIDE DEF k
  <2> QED BY <2>1, <2>2 DEF Adds
<1>5. k[S] = 0
  OBVIOUS
<1> HIDE DEF k
<1> QED BY <1>2, <1>3, <1>4, <1>5 DEF Sums

-----------------------------------------------------------------------------
(* Counting the items of a sequence                                        *)

\* Where s has items of a kind.
ItemsOf(s, M) == {i \in DOMAIN s : s[i] \in M}

\* There are finitely many.
LEMMA ItemsFinite ==
  ASSUME NEW S, NEW s \in Seq(S), NEW M
  PROVE  IsFiniteSet(ItemsOf(s, M)) /\ Cardinality(ItemsOf(s, M)) \in Nat
<1>1. Len(s) \in Nat /\ DOMAIN s = 1 .. Len(s)
  BY LenProperties
<1>2. IsFiniteSet(1 .. Len(s)) /\ ItemsOf(s, M) \subseteq 1 .. Len(s)
  BY <1>1, FS_Interval DEF ItemsOf
<1> QED BY <1>2, FS_Subset, FS_CardinalityType

\* The sequence t is s with the item e more, of which M is the kind or not.
OneMore(s, t, e, M) == Cardinality(ItemsOf(t, M)) = Cardinality(ItemsOf(s, M)) + IF e \in M THEN 1 ELSE 0

\* With an item more, there is one more of its kind.
LEMMA ItemsAppend ==
  ASSUME NEW S, NEW s \in Seq(S), NEW M, NEW e \in S
  PROVE  OneMore(s, Append(s, e), e, M)
<1>1. Len(s) \in Nat /\ DOMAIN s = 1 .. Len(s)
  BY LenProperties
<1>2. IsFiniteSet(ItemsOf(s, M)) /\ Cardinality(ItemsOf(s, M)) \in Nat
  BY ItemsFinite
<1> DEFINE t == Append(s, e)
<1>3. DOMAIN t = 1 .. Len(s) + 1 /\ t[Len(s) + 1] = e /\ \A i \in 1 .. Len(s) : t[i] = s[i]
  BY <1>1, AppendProperties, LenProperties
<1> HIDE DEF t
<1>4. ItemsOf(t, M) = ItemsOf(s, M) \cup (IF e \in M THEN {Len(s) + 1} ELSE {}) /\ Len(s) + 1 \notin ItemsOf(s, M)
  BY <1>1, <1>3 DEF ItemsOf
<1>5. Cardinality(ItemsOf(s, M) \cup {Len(s) + 1}) = Cardinality(ItemsOf(s, M)) + 1
  BY <1>2, <1>4, FS_AddElement
<1>6. Cardinality(ItemsOf(t, M)) = Cardinality(ItemsOf(s, M)) + IF e \in M THEN 1 ELSE 0
  <2>1. CASE e \in M
    BY <1>4, <1>5, <2>1
  <2>2. CASE e \notin M
    <3>1. ItemsOf(t, M) = ItemsOf(s, M)
      BY <1>4, <2>2
    <3> QED BY <1>2, <2>2, <3>1
  <2> QED BY <2>1, <2>2
<1> QED BY <1>6 DEF t, OneMore

\* Three sequences one after the other.
OneByOne(a, b, c) == (a \o b) \o c = a \o (b \o c)

\* It does not matter which two are put together first.
LEMMA ConcatOneByOne ==
  ASSUME NEW S, NEW a \in Seq(S), NEW b \in Seq(S), NEW c \in Seq(S)
  PROVE  OneByOne(a, b, c)
<1>1. (a \o b) \o c = a \o (b \o c)
  BY ConcatAssociative
<1> QED BY <1>1 DEF OneByOne

\* Those of two sequences, one after the other.
Together(a, b, M) ==
    Cardinality(ItemsOf(a \o b, M)) = Cardinality(ItemsOf(a, M)) + Cardinality(ItemsOf(b, M))

\* The counts of two sequences add up.
LEMMA ItemsTogether ==
  ASSUME NEW S, NEW a \in Seq(S), NEW b \in Seq(S), NEW M
  PROVE  Together(a, b, M)
<1> DEFINE n == Len(a)
           A == ItemsOf(a, M)
           B == ItemsOf(b, M)
           C == {i \in n + 1 .. n + Len(b) : (a \o b)[i] \in M}
           f == [i \in B |-> n + i]
<1>1. n \in Nat /\ Len(b) \in Nat /\ DOMAIN a = 1 .. n /\ DOMAIN b = 1 .. Len(b)
  BY LenProperties
<1>2. /\ a \o b \in Seq(S) /\ Len(a \o b) = n + Len(b)
      /\ \A i \in 1 .. n + Len(b) : (a \o b)[i] = IF i <= n THEN a[i] ELSE b[i - n]
  BY ConcatProperties
<1>3. DOMAIN (a \o b) = 1 .. n + Len(b)
  BY <1>2, LenProperties
<1>4. IsFiniteSet(A) /\ IsFiniteSet(B) /\ Cardinality(A) \in Nat /\ Cardinality(B) \in Nat
  BY ItemsFinite
<1> DEFINE ab == a \o b
<1>5. /\ DOMAIN ab = 1 .. n + Len(b)
      /\ \A i \in 1 .. n : ab[i] = a[i]
      /\ \A i \in n + 1 .. n + Len(b) : ab[i] = b[i - n]
  <2>1. \A i \in 1 .. n : i \in 1 .. n + Len(b) /\ i <= n
    BY <1>1
  <2>2. \A i \in n + 1 .. n + Len(b) : i \in 1 .. n + Len(b) /\ ~(i <= n)
    BY <1>1
  <2> QED BY <1>2, <1>3, <2>1, <2>2
<1> HIDE DEF n, ab
<1>6. ItemsOf(ab, M) = A \cup C /\ A \cap C = {}
  <2>1. A = {i \in 1 .. n : ab[i] \in M}
    BY <1>1, <1>5 DEF ItemsOf
  <2>2. C = {i \in n + 1 .. n + Len(b) : ab[i] \in M}
    BY DEF ab
  <2>3. 1 .. n + Len(b) = (1 .. n) \cup (n + 1 .. n + Len(b)) /\ (1 .. n) \cap (n + 1 .. n + Len(b)) = {}
    BY <1>1
  <2> HIDE DEF A, C
  <2> QED BY <1>5, <2>1, <2>2, <2>3 DEF ItemsOf
<1>7. f \in Bijection(B, C)
  <2>1. B = {i \in 1 .. Len(b) : b[i] \in M}
    BY <1>1 DEF ItemsOf
  <2>2. C = {i \in n + 1 .. n + Len(b) : b[i - n] \in M}
    <3>1. C = {i \in n + 1 .. n + Len(b) : ab[i] \in M}
      BY DEF ab
    <3> HIDE DEF C
    <3>2. \A i \in n + 1 .. n + Len(b) : ab[i] \in M <=> b[i - n] \in M
      BY <1>5
    <3> QED BY <3>1, <3>2
  <2> HIDE DEF B, C
  <2>3. \A i \in B : f[i] = n + i
    OBVIOUS
  <2>4. \A i \in B : i \in Nat /\ n + i \in n + 1 .. n + Len(b) /\ (n + i) - n = i
    BY <1>1, <2>1
  <2>5. \A i \in B : n + i \in C
    <3>1. ASSUME NEW i \in B PROVE n + i \in C
      <4>1. b[(n + i) - n] \in M
        BY <2>1, <2>4
      <4> QED BY <2>2, <2>4, <4>1
    <3> QED BY <3>1
  <2>6. f \in [B -> C]
    BY <2>5
  <2>7. \A x, y \in B : f[x] = f[y] => x = y
    BY <1>1, <2>3, <2>4
  <2>8. \A k \in C : \E i \in B : f[i] = k
    <3>1. ASSUME NEW k \in C PROVE \E i \in B : f[i] = k
      <4>1. k - n \in 1 .. Len(b) /\ n + (k - n) = k /\ b[k - n] \in M
        BY <1>1, <2>2
      <4>2. k - n \in B
        BY <2>1, <4>1
      <4> QED BY <2>3, <4>1, <4>2
    <3> QED BY <3>1
  <2> HIDE DEF f
  <2> QED BY <2>6, <2>7, <2>8 DEF Bijection, Injection, Surjection, IsInjective
<1>8. IsFiniteSet(C) /\ Cardinality(C) = Cardinality(B)
  BY <1>4, <1>7, FS_Bijection DEF ExistsBijection
<1> HIDE DEF A, B, C
<1>9. Cardinality(A \cup C) = Cardinality(A) + Cardinality(C) - Cardinality(A \cap C)
  BY <1>4, <1>8, FS_Union
<1>10. Cardinality(A \cap C) = 0
  BY <1>6, FS_EmptySet
<1>11. Cardinality(ItemsOf(ab, M)) = Cardinality(A) + Cardinality(B)
  BY <1>4, <1>6, <1>8, <1>9, <1>10
<1> QED BY <1>11 DEF ab, A, B, Together

\* Of no item, and of one.
FewItems(e, M) ==
    /\ Cardinality(ItemsOf(<<>>, M)) = 0
    /\ Cardinality(ItemsOf(<<e>>, M)) = IF e \in M THEN 1 ELSE 0

\* There are as many as that.
LEMMA ItemsFew ==
  ASSUME NEW e, NEW M
  PROVE  FewItems(e, M)
<1>1. ItemsOf(<<>>, M) = {} /\ ItemsOf(<<e>>, M) = IF e \in M THEN {1} ELSE {}
  BY DEF ItemsOf
<1>2. Cardinality({1}) = 1 /\ Cardinality({}) = 0
  BY FS_Singleton, FS_EmptySet
<1> QED BY <1>1, <1>2 DEF FewItems

\* The first item counts, whichever it is, above what follows.
FirstAndRest(s, e, M) ==
    /\ Cardinality(ItemsOf(s, M)) = Cardinality(ItemsOf(Tail(s), M)) + IF Head(s) \in M THEN 1 ELSE 0
    /\ Cardinality(ItemsOf(<<e>> \o Tail(s), M)) =
         Cardinality(ItemsOf(Tail(s), M)) + IF e \in M THEN 1 ELSE 0
    /\ Cardinality(ItemsOf(Tail(s), M)) \in Nat

\* So it does.
LEMMA ItemsFirst ==
  ASSUME NEW S, NEW s \in Seq(S), s # <<>>, NEW e \in S, NEW M
  PROVE  FirstAndRest(s, e, M)
<1>1. /\ Head(s) \in S /\ Tail(s) \in Seq(S) /\ Len(s) \in Nat \ {0} /\ Head(s) = s[1]
      /\ Len(Tail(s)) = Len(s) - 1 /\ \A i \in 1 .. Len(s) - 1 : Tail(s)[i] = s[i + 1]
  BY HeadRest
<1>2. ASSUME NEW x \in S
      PROVE  Cardinality(ItemsOf(<<x>> \o Tail(s), M)) =
               Cardinality(ItemsOf(Tail(s), M)) + IF x \in M THEN 1 ELSE 0
  <2>1. <<x>> \in Seq(S)
    OBVIOUS
  <2>2. Together(<<x>>, Tail(s), M) /\ FewItems(x, M)
    BY <1>1, <2>1, ItemsTogether, ItemsFew
  <2>3. Cardinality(ItemsOf(Tail(s), M)) \in Nat
    BY <1>1, ItemsFinite
  <2> QED BY <2>2, <2>3 DEF Together, FewItems
<1>3. <<Head(s)>> \o Tail(s) = s
  BY <1>1
<1>4. Cardinality(ItemsOf(Tail(s), M)) \in Nat
  BY <1>1, ItemsFinite
<1>5. Cardinality(ItemsOf(<<Head(s)>> \o Tail(s), M)) =
        Cardinality(ItemsOf(Tail(s), M)) + IF Head(s) \in M THEN 1 ELSE 0
  BY <1>1, <1>2
<1>6. Cardinality(ItemsOf(<<e>> \o Tail(s), M)) =
        Cardinality(ItemsOf(Tail(s), M)) + IF e \in M THEN 1 ELSE 0
  BY <1>2
<1> QED BY <1>3, <1>4, <1>5, <1>6 DEF FirstAndRest

\* What is on top of a stack counts, whichever it is, above what is below.
LEMMA ItemsTop ==
  ASSUME NEW S, NEW s \in Seq(S), s # <<>>, NEW M, NEW e \in S
  PROVE  /\ Front(s) \in Seq(S)
         /\ OneMore(Front(s), s, Last(s), M)
         /\ OneMore(Front(s), [s EXCEPT ![Len(s)] = e], e, M)
<1>1. /\ Len(s) \in Nat \ {0} /\ Last(s) = s[Len(s)] /\ Last(s) \in S
      /\ Front(s) \in Seq(S) /\ Len(Front(s)) = Len(s) - 1
      /\ \A i \in 1 .. Len(s) - 1 : Front(s)[i] = s[i]
  BY FrontLast
<1> DEFINE t == [s EXCEPT ![Len(s)] = e]
<1>2. /\ t \in Seq(S) /\ Len(t) = Len(s) /\ t[Len(s)] = e
      /\ \A i \in 1 .. Len(s) - 1 : t[i] = s[i]
  BY TopReplaced
<1> HIDE DEF t
<1>3. Len(Front(s)) + 1 = Len(s)
  BY <1>1
<1>4. s = Append(Front(s), Last(s))
  <2>1. \A i \in 1 .. Len(Front(s)) : s[i] = Front(s)[i]
    BY <1>1
  <2>2. Len(s) = Len(Front(s)) + 1 /\ s[Len(Front(s)) + 1] = Last(s)
    BY <1>1, <1>3
  <2> QED BY <1>1, <2>1, <2>2, AppendIs, Zenon
<1>5. t = Append(Front(s), e)
  <2>1. \A i \in 1 .. Len(Front(s)) : t[i] = Front(s)[i]
    BY <1>1, <1>2
  <2>2. Len(t) = Len(Front(s)) + 1 /\ t[Len(Front(s)) + 1] = e
    BY <1>2, <1>3
  <2> QED BY <1>1, <1>2, <2>1, <2>2, AppendIs, Zenon
<1>6. OneMore(Front(s), Append(Front(s), Last(s)), Last(s), M) /\ OneMore(Front(s), Append(Front(s), e), e, M)
  BY <1>1, ItemsAppend, Zenon
<1>7. OneMore(Front(s), s, Last(s), M)
  BY <1>4, <1>6
<1>8. OneMore(Front(s), t, e, M)
  BY <1>5, <1>6
<1> QED BY <1>1, <1>7, <1>8 DEF t

\* An item is taken out and the last one put in its place.
SwapRemoved(s, k) == [j \in 1 .. (Len(s) - 1) |-> IF j = k THEN Last(s) ELSE s[j]]
OneLess(s, k, t, M) == Cardinality(ItemsOf(t, M)) = Cardinality(ItemsOf(s, M)) - IF s[k] \in M THEN 1 ELSE 0

\* One of its kind is gone, whichever moves.
LEMMA ItemsSwapRemove ==
  ASSUME NEW S, NEW s \in Seq(S), NEW M, NEW k \in 1 .. Len(s),
         NEW t, t = SwapRemoved(s, k)
  PROVE  t \in Seq(S) /\ Len(t) = Len(s) - 1 /\ OneLess(s, k, t, M)
<1>1. /\ Len(s) \in Nat /\ Len(s) - 1 \in Nat /\ DOMAIN s = 1 .. Len(s) /\ k <= Len(s)
      /\ Last(s) = s[Len(s)] /\ \A j \in 1 .. Len(s) : s[j] \in S
  <2>1. Len(s) \in Nat /\ DOMAIN s = 1 .. Len(s) /\ \A j \in 1 .. Len(s) : s[j] \in S
    BY LenProperties, ElementOfSeq
  <2> QED BY <2>1 DEF Last
<1>2. t \in Seq(S) /\ Len(t) = Len(s) - 1 /\ DOMAIN t = 1 .. Len(s) - 1
  <2>0. t = [j \in 1 .. (Len(s) - 1) |-> IF j = k THEN Last(s) ELSE s[j]]
    BY DEF SwapRemoved
  <2>1. \A j \in 1 .. Len(s) - 1 : (IF j = k THEN Last(s) ELSE s[j]) \in S
    BY <1>1
  <2>2. DOMAIN t = 1 .. Len(s) - 1 /\ t \in [1 .. Len(s) - 1 -> S]
    BY <2>0, <2>1
  <2>3. t \in Seq(S)
    BY <1>1, <2>2, SeqDef
  <2>4. Len(t) \in Nat /\ DOMAIN t = 1 .. Len(t)
    BY <2>3, LenProperties
  <2>5. Len(t) = Len(s) - 1
    BY <1>1, <2>0, <2>2, <2>3, LenProperties
  <2> QED BY <2>2, <2>3, <2>5
<1>3. \A j \in 1 .. Len(s) - 1 : t[j] = IF j = k THEN s[Len(s)] ELSE s[j]
  BY <1>1 DEF SwapRemoved
<1> DEFINE A == ItemsOf(s, M)
           B == ItemsOf(t, M)
           z == Len(s)
<1>4. IsFiniteSet(A) /\ Cardinality(A) \in Nat
  BY ItemsFinite
<1>5. \A i : i \in A <=> i \in 1 .. z /\ s[i] \in M
  BY <1>1 DEF ItemsOf
<1>6. \A i : i \in B <=> i \in 1 .. z - 1 /\ (i = k => s[z] \in M) /\ (i # k => s[i] \in M)
  BY <1>2, <1>3 DEF ItemsOf
<1>7. \A x \in A : Cardinality(A \ {x}) = Cardinality(A) - 1
  BY <1>4, FS_RemoveElement
<1>8. z \in Nat /\ k \in 1 .. z
  BY <1>1
<1> HIDE DEF A, B, z
<1>9. ASSUME k = z \/ s[z] \notin M PROVE Cardinality(B) = Cardinality(A) - IF s[k] \in M THEN 1 ELSE 0
  <2>1. \A i : i \in B <=> i \in A /\ i # k
    BY <1>5, <1>6, <1>8, <1>9
  <2>2. B = A \ {k} /\ (s[k] \in M <=> k \in A)
    BY <1>5, <1>8, <2>1
  <2>3. CASE k \in A
    BY <1>7, <2>2, <2>3
  <2>4. CASE k \notin A
    <3>1. B = A
      BY <2>2, <2>4
    <3>2. s[k] \notin M
      BY <2>2, <2>4, Zenon
    <3>3. Cardinality(B) = Cardinality(A) - 0
      BY <1>4, <3>1
    <3> QED BY <3>2, <3>3
  <2> QED BY <2>3, <2>4
<1>10. ASSUME k # z, s[z] \in M PROVE Cardinality(B) = Cardinality(A) - IF s[k] \in M THEN 1 ELSE 0
  <2>1. z \in A
    BY <1>5, <1>8, <1>10
  <2>2. CASE s[k] \in M
    <3>1. \A i : i \in B <=> i \in A /\ i # z
      BY <1>5, <1>6, <1>8, <1>10, <2>2
    <3>2. B = A \ {z}
      BY <3>1
    <3> QED BY <1>7, <2>1, <2>2, <3>2
  <2>3. CASE s[k] \notin M
    <3>1. \A i : i \in B <=> (i \in A /\ i # z) \/ i = k
      BY <1>5, <1>6, <1>8, <1>10, <2>3
    <3>2. B = (A \ {z}) \cup {k} /\ k \notin A \ {z}
      BY <1>5, <2>3, <3>1
    <3>3. IsFiniteSet(A \ {z}) /\ Cardinality(A \ {z}) = Cardinality(A) - 1
      BY <1>4, <1>7, <2>1, FS_RemoveElement
    <3>4. Cardinality((A \ {z}) \cup {k}) = Cardinality(A \ {z}) + 1
      BY <3>2, <3>3, FS_AddElement
    <3>5. Cardinality(B) = Cardinality(A)
      BY <1>4, <3>2, <3>3, <3>4
    <3> QED BY <1>4, <2>3, <3>5
  <2> QED BY <2>2, <2>3
<1>11. Cardinality(B) = Cardinality(A) - IF s[k] \in M THEN 1 ELSE 0
  BY <1>9, <1>10
<1> QED BY <1>2, <1>11 DEF A, B, OneLess

\* Where the lists of some names have items of a kind, within the first max of
\* each list.
ItemsIn(lists, N, max, M) ==
    {p \in N \X (1 .. max) : p[2] \in DOMAIN lists[p[1]] /\ lists[p[1]][p[2]] \in M}

\* There are as many as in each list, together: those of one of the names, and
\* the others.
AddUp(lists, T, max, M) ==
    \A n \in T : Cardinality(ItemsIn(lists, T, max, M)) =
      Cardinality(ItemsIn(lists, T \ {n}, max, M)) + Cardinality(ItemsOf(lists[n], M))

\* Counting the places name by name.
LEMMA ItemsInOne ==
  ASSUME NEW S, NEW N, NEW lists \in [N -> Seq(S)], NEW max \in Nat, NEW M,
         \A n \in N : Len(lists[n]) <= max,
         NEW T \in SUBSET N, IsFiniteSet(T)
  PROVE  /\ IsFiniteSet(ItemsIn(lists, T, max, M)) /\ Cardinality(ItemsIn(lists, T, max, M)) \in Nat
         /\ AddUp(lists, T, max, M)
<1>1. \A U \in SUBSET T : IsFiniteSet(ItemsIn(lists, U, max, M)) /\ Cardinality(ItemsIn(lists, U, max, M)) \in Nat
  <2>1. ASSUME NEW U \in SUBSET T PROVE IsFiniteSet(ItemsIn(lists, U, max, M))
    <3>1. IsFiniteSet(U) /\ IsFiniteSet(1 .. max)
      BY FS_Subset, FS_Interval
    <3>2. IsFiniteSet(U \X (1 .. max))
      BY <3>1, FS_Product
    <3>3. ItemsIn(lists, U, max, M) \subseteq U \X (1 .. max)
      BY DEF ItemsIn
    <3> QED BY <3>2, <3>3, FS_Subset
  <2> QED BY <2>1, FS_CardinalityType
<1>2. ASSUME NEW n \in T
      PROVE  Cardinality(ItemsIn(lists, T, max, M)) =
               Cardinality(ItemsIn(lists, T \ {n}, max, M)) + Cardinality(ItemsOf(lists[n], M))
  <2> DEFINE A == ItemsIn(lists, T \ {n}, max, M)
             B == ItemsIn(lists, {n}, max, M)
             C == ItemsOf(lists[n], M)
  <2>1. lists[n] \in Seq(S) /\ DOMAIN lists[n] = 1 .. Len(lists[n]) /\ Len(lists[n]) \in Nat /\ Len(lists[n]) <= max
    BY LenProperties
  <2>2. C \subseteq 1 .. max
    BY <2>1 DEF ItemsOf
  <2>3. IsFiniteSet(C)
    <3>1. IsFiniteSet(1 .. max)
      BY FS_Interval
    <3> HIDE DEF C
    <3> QED BY <2>2, <3>1, FS_Subset
  <2>4. B = {n} \X C
    <3>1. \A p : p \in B <=> p \in {n} \X (1 .. max) /\ p[2] \in C
      BY DEF ItemsOf, ItemsIn
    <3>2. \A p : p \in {n} \X C <=> p \in {n} \X (1 .. max) /\ p[2] \in C
      <4> HIDE DEF C
      <4> QED BY <2>2
    <3>3. \A p : p \in B <=> p \in {n} \X C
      <4> HIDE DEF B, C
      <4> QED BY <3>1, <3>2
    <3> HIDE DEF B, C
    <3>4. B \subseteq {n} \X C /\ {n} \X C \subseteq B
      BY <3>3, Zenon
    <3> QED BY <3>4, Zenon
  <2>5. Cardinality(B) = Cardinality(C) /\ IsFiniteSet(B)
    <3>1. IsFiniteSet({n}) /\ Cardinality({n}) = 1
      BY FS_Singleton
    <3>2. IsFiniteSet({n} \X C) /\ Cardinality({n} \X C) = 1 * Cardinality(C)
      BY <2>3, <3>1, FS_Product
    <3>3. 1 * Cardinality(C) = Cardinality(C)
      BY <2>3, FS_CardinalityType
    <3> QED BY <2>4, <3>2, <3>3
  <2>6. A \cap B = {} /\ ItemsIn(lists, T, max, M) = A \cup B
    BY DEF ItemsIn
  <2>7. IsFiniteSet(A) /\ Cardinality(A) \in Nat
    BY <1>1
  <2> HIDE DEF A, B, C
  <2>8. Cardinality(A \cap B) = 0
    BY <2>6, FS_EmptySet
  <2>9. Cardinality(A \cup B) = Cardinality(A) + Cardinality(B) - Cardinality(A \cap B)
    BY <2>5, <2>7, FS_Union
  <2>10. Cardinality(B) \in Nat
    BY <2>5, FS_CardinalityType
  <2>11. Cardinality(A \cup B) = Cardinality(A) + Cardinality(C)
    BY <2>5, <2>7, <2>8, <2>9, <2>10
  <2> QED BY <2>6, <2>11 DEF A, C
<1> QED BY <1>1, <1>2 DEF AddUp

\* When each list loses some of its items, the losses add up.
LosesOf(lists, left, n, M, k) == Cardinality(ItemsOf(lists[n], M)) = Cardinality(ItemsOf(left[n], M)) + k
LosesAll(lists, left, N, max, M, lost) ==
    Cardinality(ItemsIn(lists, N, max, M)) = Cardinality(ItemsIn(left, N, max, M)) + Total(lost, N)

\* The losses, by induction on the number of lists.
LEMMA ItemsLost ==
  ASSUME NEW S, NEW N, IsFiniteSet(N), NEW lists \in [N -> Seq(S)], NEW left \in [N -> Seq(S)],
         NEW max \in Nat, NEW M,
         \A n \in N : Len(lists[n]) <= max /\ Len(left[n]) <= max,
         NEW lost, \A n \in N : lost[n] \in Int /\ LosesOf(lists, left, n, M, lost[n])
  PROVE  LosesAll(lists, left, N, max, M, lost)
<1> DEFINE Holds(T) ==
             Cardinality(ItemsIn(lists, T, max, M)) = Cardinality(ItemsIn(left, T, max, M)) + Total(lost, T)
           Bad == {k \in Nat : \E T \in SUBSET N : Cardinality(T) = k /\ ~Holds(T)}
<1>1. \A T \in SUBSET N : IsFiniteSet(T) /\ Cardinality(T) \in Nat /\ (Cardinality(T) = 0 <=> T = {})
                          /\ Ints(lost, T)
  BY FS_Subset, FS_CardinalityType, FS_EmptySet DEF Ints
<1>2. ASSUME NEW T \in SUBSET N, NEW n \in T
      PROVE  /\ Cardinality(ItemsIn(lists, T, max, M)) =
                  Cardinality(ItemsIn(lists, T \ {n}, max, M)) + Cardinality(ItemsOf(lists[n], M))
             /\ Cardinality(ItemsIn(left, T, max, M)) =
                  Cardinality(ItemsIn(left, T \ {n}, max, M)) + Cardinality(ItemsOf(left[n], M))
             /\ Cardinality(ItemsIn(left, T \ {n}, max, M)) \in Nat
  <2>1. (\A m \in N : Len(lists[m]) <= max) /\ (\A m \in N : Len(left[m]) <= max)
    OBVIOUS
  <2>2. IsFiniteSet(T) /\ IsFiniteSet(T \ {n}) /\ T \ {n} \in SUBSET N
    BY <1>1
  <2>3. AddUp(lists, T, max, M) /\ AddUp(left, T, max, M)
    BY <2>1, <2>2, ItemsInOne, Zenon
  <2>4. Cardinality(ItemsIn(left, T \ {n}, max, M)) \in Nat
    BY <2>1, <2>2, ItemsInOne, Zenon
  <2> QED BY <2>3, <2>4 DEF AddUp
<1>3. Bad = {}
  <2>1. SUFFICES ASSUME Bad # {} PROVE FALSE
    OBVIOUS
  <2>2. PICK k \in Bad : \A j \in Bad : k <= j
    BY <2>1, LeastNatural
  <2>3. PICK T \in SUBSET N : Cardinality(T) = k /\ ~Holds(T)
    BY <2>2
  <2>4. T # {}
    <3>1. SUFFICES ASSUME T = {} PROVE Holds(T)
      BY <2>3
    <3>2. Total(lost, T) = 0
      BY <1>1, <3>1, TotalChosen
    <3>3. ItemsIn(lists, T, max, M) = {} /\ ItemsIn(left, T, max, M) = {}
      BY <3>1 DEF ItemsIn
    <3>4. Cardinality({}) = 0
      BY FS_EmptySet
    <3> QED BY <3>2, <3>3, <3>4
  <2>5. PICK n \in T : TRUE
    BY <2>4
  <2> DEFINE U == T \ {n}
  <2>6. U \in SUBSET N /\ Cardinality(U) = k - 1 /\ k \in Nat
    BY <1>1, <2>2, <2>3, <2>5, FS_RemoveElement
  <2>7. Holds(U)
    <3>1. Cardinality(U) \in Nat /\ Cardinality(U) < k
      BY <1>1, <2>6
    <3>2. Cardinality(U) \notin Bad
      <4> HIDE DEF Bad, U
      <4> QED BY <2>2, <2>6, <3>1
    <3> QED BY <2>6, <3>1, <3>2
  <2>8. Total(lost, T) = lost[n] + Total(lost, U)
    BY <1>1, <2>5, TotalElement
  <2>9. Cardinality(ItemsIn(lists, T, max, M)) =
          Cardinality(ItemsIn(lists, U, max, M)) + Cardinality(ItemsOf(lists[n], M))
    BY <1>2, <2>5
  <2>10. Cardinality(ItemsIn(left, T, max, M)) =
          Cardinality(ItemsIn(left, U, max, M)) + Cardinality(ItemsOf(left[n], M))
    BY <1>2, <2>5
  <2>11. lost[n] \in Int /\ Cardinality(ItemsOf(lists[n], M)) = Cardinality(ItemsOf(left[n], M)) + lost[n]
    BY <2>5 DEF LosesOf
  <2>12. Total(lost, U) \in Int /\ Cardinality(ItemsIn(left, U, max, M)) \in Int
    <3>1. IsFiniteSet(U) /\ Ints(lost, U)
      BY <1>1, <2>6
    <3>2. Total(lost, U) \in Int
      BY <3>1, TotalChosen
    <3>3. Cardinality(ItemsIn(left, U, max, M)) \in Nat
      BY <1>2, <2>5
    <3> QED BY <3>2, <3>3
  <2>13. Cardinality(ItemsOf(left[n], M)) \in Int
    <3>1. left[n] \in Seq(S)
      BY <2>5
    <3>2. Cardinality(ItemsOf(left[n], M)) \in Nat
      BY <3>1, ItemsFinite
    <3> QED BY <3>2
  <2> HIDE DEF U
  <2> QED BY <2>3, <2>7, <2>8, <2>9, <2>10, <2>11, <2>12, <2>13
<1> QED BY <1>1, <1>3 DEF LosesAll

\* When no list loses any, there are as many as before.
AsMany(lists, left, N, max, M) ==
    Cardinality(ItemsIn(lists, N, max, M)) = Cardinality(ItemsIn(left, N, max, M))

\* (What all of them lose is then the opposite of itself.)
LEMMA ItemsKept ==
  ASSUME NEW S, NEW N, IsFiniteSet(N), NEW lists \in [N -> Seq(S)], NEW left \in [N -> Seq(S)],
         NEW max \in Nat, NEW M,
         \A n \in N : Len(lists[n]) <= max /\ Len(left[n]) <= max,
         \A n \in N : Cardinality(ItemsOf(lists[n], M)) = Cardinality(ItemsOf(left[n], M))
  PROVE  AsMany(lists, left, N, max, M)
<1> DEFINE none == [n \in N |-> 0]
<1>1. /\ \A n \in N : Len(lists[n]) <= max /\ Len(left[n]) <= max
      /\ \A n \in N : Len(left[n]) <= max /\ Len(lists[n]) <= max
  OBVIOUS
<1>2. /\ \A n \in N : none[n] \in Int /\ LosesOf(lists, left, n, M, none[n])
      /\ \A n \in N : none[n] \in Int /\ LosesOf(left, lists, n, M, none[n])
  <2>1. ASSUME NEW n \in N
        PROVE  Cardinality(ItemsOf(lists[n], M)) \in Nat /\ Cardinality(ItemsOf(left[n], M)) \in Nat
    <3>1. lists[n] \in Seq(S) /\ left[n] \in Seq(S)
      OBVIOUS
    <3> QED BY <3>1, ItemsFinite
  <2> QED BY <2>1 DEF LosesOf
<1>3. /\ Ints(none, N)
  BY DEF Ints
<1>4. Total(none, N) \in Int
  BY <1>3, TotalChosen
<1> HIDE DEF none
<1>5. LosesAll(lists, left, N, max, M, none)
  <2>1. \A n \in N : Len(lists[n]) <= max /\ Len(left[n]) <= max
    BY <1>1
  <2>2. \A n \in N : none[n] \in Int /\ LosesOf(lists, left, n, M, none[n])
    BY <1>2
  <2> QED BY <2>1, <2>2, ItemsLost, Zenon
<1>6. LosesAll(left, lists, N, max, M, none)
  <2>1. \A n \in N : Len(left[n]) <= max /\ Len(lists[n]) <= max
    BY <1>1
  <2>2. \A n \in N : none[n] \in Int /\ LosesOf(left, lists, n, M, none[n])
    BY <1>2
  <2> QED BY <2>1, <2>2, ItemsLost, Zenon
<1>7. \A n \in N : Len(lists[n]) <= max
  BY <1>1
<1>8. N \in SUBSET N
  OBVIOUS
<1>9. Cardinality(ItemsIn(lists, N, max, M)) \in Nat
  BY <1>7, <1>8, ItemsInOne
<1>10. Cardinality(ItemsIn(left, N, max, M)) \in Nat
  <2>1. \A n \in N : Len(left[n]) <= max
    BY <1>1
  <2> QED BY <1>8, <2>1, ItemsInOne
<1> QED BY <1>4, <1>5, <1>6, <1>9, <1>10 DEF LosesAll, AsMany
====
