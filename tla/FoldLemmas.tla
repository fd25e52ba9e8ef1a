------------------------------ MODULE FoldLemmas ------------------------------
(***************************************************************************)
(* What the modules of this project need to know of the folds of the       *)
(* community modules: a sum over a finite set does not depend on the order *)
(* in which the elements are taken, and FlattenSeq concatenates.           *)
(*                                                                         *)
(* The induction theorems of the library take an operator.  Here a set of  *)
(* numbers takes its place, and a counterexample is minimal because < is   *)
(* well-founded.                                                           *)
(***************************************************************************)
EXTENDS Integers, SequencesExt, FiniteSetTheorems, SequenceTheorems,
        WellFoundedInduction, TLAPS

\* Induction: a set that holds 0 and the successor of each of its numbers.
LEMMA Induction ==
    ASSUME NEW S, 0 \in S, \A n \in Nat : n \in S => n + 1 \in S
    PROVE  Nat \subseteq S
<1> SUFFICES ASSUME Nat \ S # {} PROVE FALSE
  OBVIOUS
<1> DEFINE T == Nat \ S
           R == OpToRel(<, Nat)
<1>1. PICK n \in T : \A m \in T : <<m, n>> \notin R
  <2> HIDE DEF T, R
  <2>1. IsWellFoundedOn(R, Nat)
    BY NatLessThanWellFounded DEF R
  <2>2. T \subseteq Nat /\ T # {}
    BY DEF T
  <2> QED BY <2>1, <2>2, WFMin
<1>2. n # 0 /\ n - 1 \in Nat /\ n - 1 < n
  OBVIOUS
<1>3. n - 1 \in S
  BY <1>1, <1>2 DEF OpToRel
<1> QED BY <1>2, <1>3

----------------------------------------------------------------------------
(* FlattenSeq. *)

\* h holds the concatenations of the first elements of s.
Flattens(h, s) ==
    h = [i \in 1..Len(s) |-> IF i = 1 THEN s[i] ELSE h[i - 1] \o s[i]]

\* There is such a function for every sequence of sequences ...
LEMMA FlattensExists ==
    ASSUME NEW s, NEW m \in Nat, Len(s) = m
    PROVE  \E h : Flattens(h, s)
<1> DEFINE S == {n \in Nat : \E h : \A i \in 1..n : h[i] = IF i = 1 THEN s[i] ELSE h[i - 1] \o s[i]}
<1>1. 0 \in S
  OBVIOUS
<1>2. ASSUME NEW n \in Nat, n \in S
      PROVE  n + 1 \in S
  <2>1. PICK h : \A i \in 1..n : h[i] = IF i = 1 THEN s[i] ELSE h[i - 1] \o s[i]
    BY <1>2
  <2> DEFINE g == [i \in 1..n + 1 |-> IF i <= n THEN h[i]
                                      ELSE IF i = 1 THEN s[i] ELSE h[i - 1] \o s[i]]
  <2>2. ASSUME NEW i \in 1..n + 1
        PROVE  g[i] = IF i = 1 THEN s[i] ELSE g[i - 1] \o s[i]
    <3>1. i # 1 => i - 1 \in 1..n
      OBVIOUS
    <3>2. i # 1 => g[i - 1] = h[i - 1]
      BY <3>1
    <3>3. i <= n => i \in 1..n
      OBVIOUS
    <3>4. i <= n => h[i] = IF i = 1 THEN s[i] ELSE h[i - 1] \o s[i]
      BY <2>1, <3>3
    <3> QED BY <3>2, <3>4
  <2> HIDE DEF g
  <2> QED BY <2>2
<1> HIDE DEF S
<1>3. m \in S
  BY <1>1, <1>2, Induction
<1>4. PICK h : \A i \in 1..m : h[i] = IF i = 1 THEN s[i] ELSE h[i - 1] \o s[i]
  BY <1>3 DEF S
<1> DEFINE g == [i \in 1..m |-> h[i]]
<1>5. ASSUME NEW i \in 1..m
      PROVE  g[i] = IF i = 1 THEN s[i] ELSE g[i - 1] \o s[i]
  <2>1. i # 1 => i - 1 \in 1..m
    OBVIOUS
  <2> QED BY <1>4, <2>1
<1>6. g = [i \in 1..m |-> g[i]]
  OBVIOUS
<1> HIDE DEF g
<1>7. g = [i \in 1..m |-> IF i = 1 THEN s[i] ELSE g[i - 1] \o s[i]]
  BY <1>5, <1>6
<1> QED BY <1>7 DEF Flattens

\* ... and FlattenSeq is the last value of one.
LEMMA FlattenSeqDef ==
    ASSUME NEW s, NEW m \in Nat \ {0}, Len(s) = m
    PROVE  \E h : Flattens(h, s) /\ FlattenSeq(s) = h[m]
<1> DEFINE h == CHOOSE h : h = [i \in 1..Len(s) |-> IF i = 1 THEN s[i] ELSE h[i - 1] \o s[i]]
<1>1. h = [i \in 1..Len(s) |-> IF i = 1 THEN s[i] ELSE h[i - 1] \o s[i]]
  BY FlattensExists DEF Flattens
<1>2. FlattenSeq(s) = h[m]
  BY DEF FlattenSeq
<1> QED BY <1>1, <1>2 DEF Flattens
\* Two sequences that begin alike have the same concatenations there.
LEMMA FlattensAgree ==
    ASSUME NEW s, NEW t, NEW g, NEW h, Flattens(g, s), Flattens(h, t),
           Len(s) \in Nat, Len(t) \in Nat, Len(s) <= Len(t),
           \A i \in 1..Len(s) : s[i] = t[i]
    PROVE  \A i \in 1..Len(s) : g[i] = h[i]
<1> DEFINE S == {n \in Nat : n \in 1..Len(s) => g[n] = h[n]}
<1>1. 0 \in S
  OBVIOUS
<1>2. ASSUME NEW n \in Nat, n \in S
      PROVE  n + 1 \in S
  <2> SUFFICES ASSUME n + 1 \in 1..Len(s) PROVE g[n + 1] = h[n + 1]
    OBVIOUS
  <2>1. n + 1 # 1 => g[n] = h[n]
    BY <1>2
  <2> DEFINE k == n + 1
  <2>2. k - 1 = n /\ k \in 1..Len(s) /\ k \in 1..Len(t)
    OBVIOUS
  <2> HIDE DEF k
  <2>3. g[k] = IF k = 1 THEN s[k] ELSE g[k - 1] \o s[k]
    BY <2>2 DEF Flattens
  <2>4. h[k] = IF k = 1 THEN t[k] ELSE h[k - 1] \o t[k]
    BY <2>2 DEF Flattens
  <2>5. s[k] = t[k]
    BY <2>2
  <2>6. k # 1 => g[k - 1] = h[k - 1]
    BY <2>1, <2>2 DEF k
  <2> QED BY <2>3, <2>4, <2>5, <2>6 DEF k
<1> HIDE DEF S
<1>3. \A n \in Nat : n \in S
  BY <1>1, <1>2, Induction
<1> QED BY <1>3 DEF S

\* What is appended to a sequence of sequences comes behind.
LEMMA FlattenAppend ==
    ASSUME NEW X, NEW s \in Seq(Seq(X)), NEW a \in Seq(X)
    PROVE  FlattenSeq(Append(s, a)) = FlattenSeq(s) \o a
<1> DEFINE t == Append(s, a)
           m == Len(s)
<1>1. /\ t \in Seq(Seq(X)) /\ m \in Nat /\ Len(t) = m + 1
      /\ \A i \in 1..m : t[i] = s[i]
      /\ t[m + 1] = a
  BY AppendProperties, LenProperties
<1> HIDE DEF t
<1>2. PICK h : Flattens(h, t) /\ FlattenSeq(t) = h[m + 1]
  BY <1>1, FlattenSeqDef
<1>3. h[m + 1] = IF m + 1 = 1 THEN t[m + 1] ELSE h[(m + 1) - 1] \o t[m + 1]
  <2>1. m + 1 \in 1..Len(t)
    BY <1>1
  <2> QED BY <1>2, <2>1 DEF Flattens
<1>4. CASE m = 0
  <2>1. s = <<>>
    BY <1>4, EmptySeq
  <2>2. FlattenSeq(s) = <<>>
    BY <2>1 DEF FlattenSeq
  <2> QED BY <1>1, <1>2, <1>3, <1>4, <2>2, ConcatEmptySeq DEF t
<1>5. CASE m # 0
  <2>1. PICK g : Flattens(g, s) /\ FlattenSeq(s) = g[m]
    BY <1>1, <1>5, FlattenSeqDef
  <2>2. \A i \in 1..m : g[i] = h[i]
    <3>1. Len(s) \in Nat /\ Len(t) \in Nat /\ Len(s) <= Len(t)
      BY <1>1
    <3>2. \A i \in 1..Len(s) : s[i] = t[i]
      BY <1>1
    <3> HIDE DEF m
    <3>3. \A i \in 1..Len(s) : g[i] = h[i]
      BY <1>2, <2>1, <3>1, <3>2, FlattensAgree
    <3> QED BY <3>3 DEF m
  <2>3. m \in 1..m /\ (m + 1) - 1 = m /\ m + 1 # 1
    BY <1>1, <1>5
  <2> QED BY <1>1, <1>2, <1>3, <2>1, <2>2, <2>3 DEF t
<1> QED BY <1>4, <1>5

\* The empty sequence, and one of one element.
LEMMA FlattenSmall ==
    ASSUME NEW X, NEW a \in Seq(X)
    PROVE  FlattenSeq(<<>>) = <<>> /\ FlattenSeq(<<a>>) = a
<1>1. FlattenSeq(<<>>) = <<>>
  BY DEF FlattenSeq
<1>2. <<>> \in Seq(Seq(X)) /\ Append(<<>>, a) = <<a>>
  OBVIOUS
<1>3. FlattenSeq(Append(<<>>, a)) = FlattenSeq(<<>>) \o a
  BY <1>2, FlattenAppend
<1>4. <<>> \o a = a
  BY ConcatEmptySeq
<1> QED BY <1>1, <1>2, <1>3, <1>4

\* A sequence is empty, or the last element is appended to the rest.
LEMMA LastAppended ==
    ASSUME NEW X, NEW s \in Seq(X), NEW n \in Nat, Len(s) = n + 1
    PROVE  /\ SubSeq(s, 1, n) \in Seq(X) /\ Len(SubSeq(s, 1, n)) = n
           /\ s[n + 1] \in X
           /\ s = Append(SubSeq(s, 1, n), s[n + 1])
<1> DEFINE p == SubSeq(s, 1, n)
<1>1. \A i \in 1..n + 1 : s[i] \in X
  BY ElementOfSeq
<1>2. p \in Seq(X) /\ Len(p) = n /\ \A i \in 1..n : p[i] = s[i]
  BY <1>1, SubSeqProperties, Z3
<1> HIDE DEF p
<1>3. /\ Append(p, s[n + 1]) \in Seq(X) /\ Len(Append(p, s[n + 1])) = n + 1
      /\ \A i \in 1..n : Append(p, s[n + 1])[i] = p[i]
      /\ Append(p, s[n + 1])[n + 1] = s[n + 1]
  BY <1>1, <1>2, AppendProperties
<1>4. \A i \in 1..n + 1 : Append(p, s[n + 1])[i] = s[i]
  BY <1>2, <1>3
<1>5. Append(p, s[n + 1]) = s
  BY <1>3, <1>4, SeqEqual
<1> QED BY <1>1, <1>2, <1>5 DEF p

\* The elements of sequences of rows, say, make a sequence of rows.
LEMMA FlattenType ==
    ASSUME NEW X, NEW s \in Seq(Seq(X))
    PROVE  FlattenSeq(s) \in Seq(X)
<1> DEFINE S == {n \in Nat : \A t \in Seq(Seq(X)) : Len(t) = n => FlattenSeq(t) \in Seq(X)}
<1>1. 0 \in S
  <2>1. ASSUME NEW t \in Seq(Seq(X)), Len(t) = 0
        PROVE  FlattenSeq(t) \in Seq(X)
    <3>1. t = <<>>
      BY <2>1, EmptySeq
    <3> QED BY <3>1, FlattenSmall, EmptySeq
  <2> QED BY <2>1
<1>2. ASSUME NEW n \in Nat, n \in S
      PROVE  n + 1 \in S
  <2>1. ASSUME NEW t \in Seq(Seq(X)), Len(t) = n + 1
        PROVE  FlattenSeq(t) \in Seq(X)
    <3>1. /\ SubSeq(t, 1, n) \in Seq(Seq(X)) /\ Len(SubSeq(t, 1, n)) = n /\ t[n + 1] \in Seq(X)
          /\ t = Append(SubSeq(t, 1, n), t[n + 1])
      BY <2>1, LastAppended
    <3>2. FlattenSeq(t) = FlattenSeq(SubSeq(t, 1, n)) \o t[n + 1]
      BY <3>1, FlattenAppend
    <3>3. FlattenSeq(SubSeq(t, 1, n)) \in Seq(X)
      BY <1>2, <3>1
    <3> QED BY <3>1, <3>2, <3>3, ConcatProperties
  <2> QED BY <2>1
<1> HIDE DEF S
<1>3. \A n \in Nat : n \in S
  BY <1>1, <1>2, Induction
<1> QED BY <1>3, LenProperties DEF S

\* Concatenation is associative.  It has a name here, because the provers are lost
\* in what they know of \o once there are three of them.
Cat(s, t) == s \o t

LEMMA Regroup ==
    ASSUME NEW X, NEW s \in Seq(X), NEW t \in Seq(X), NEW u \in Seq(X)
    PROVE  /\ Cat(s, t) \in Seq(X)
           /\ Cat(Cat(s, t), u) = Cat(s, Cat(t, u))
BY ConcatAssociative, ConcatProperties DEF Cat

\* One sequence of sequences behind another.
LEMMA FlattenConcat ==
    ASSUME NEW X, NEW s \in Seq(Seq(X)), NEW t \in Seq(Seq(X))
    PROVE  FlattenSeq(s \o t) = Cat(FlattenSeq(s), FlattenSeq(t))
<1> DEFINE S == {n \in Nat : \A u \in Seq(Seq(X)) :
                    Len(u) = n => FlattenSeq(Cat(s, u)) = Cat(FlattenSeq(s), FlattenSeq(u))}
<1>0. FlattenSeq(s) \in Seq(X)
  BY FlattenType
<1>1. 0 \in S
  <2>1. ASSUME NEW u \in Seq(Seq(X)), Len(u) = 0
        PROVE  FlattenSeq(Cat(s, u)) = Cat(FlattenSeq(s), FlattenSeq(u))
    <3>1. u = <<>>
      BY <2>1, EmptySeq
    <3>2. Cat(s, <<>>) = s /\ Cat(FlattenSeq(s), <<>>) = FlattenSeq(s)
      BY <1>0, ConcatEmptySeq DEF Cat
    <3> QED BY <3>1, <3>2, FlattenSmall, EmptySeq
  <2> QED BY <2>1
<1>2. ASSUME NEW n \in Nat, n \in S
      PROVE  n + 1 \in S
  <2>1. ASSUME NEW u \in Seq(Seq(X)), Len(u) = n + 1
        PROVE  FlattenSeq(Cat(s, u)) = Cat(FlattenSeq(s), FlattenSeq(u))
    <3> DEFINE v == SubSeq(u, 1, n)
               a == u[n + 1]
    <3>1. v \in Seq(Seq(X)) /\ Len(v) = n /\ a \in Seq(X) /\ u = Append(v, a)
      BY <2>1, LastAppended
    <3> HIDE DEF v, a
    <3>2. Cat(s, u) = Append(Cat(s, v), a) /\ Cat(s, v) \in Seq(Seq(X))
      <4>1. u = Cat(v, <<a>>) /\ <<a>> \in Seq(Seq(X))
        BY <3>1, AppendIsConcat DEF Cat
      <4>2. Cat(s, v) \in Seq(Seq(X))
        BY <3>1, Regroup
      <4>3. Append(Cat(s, v), a) = Cat(Cat(s, v), <<a>>)
        BY <3>1, <4>2, AppendIsConcat DEF Cat
      <4>4. Cat(Cat(s, v), <<a>>) = Cat(s, Cat(v, <<a>>))
        <5> DEFINE Y == Seq(X)
                   w == <<a>>
        <5>1. s \in Seq(Y) /\ v \in Seq(Y) /\ w \in Seq(Y)
          BY <3>1, <4>1
        <5> HIDE DEF Y, w
        <5>2. Cat(Cat(s, v), w) = Cat(s, Cat(v, w))
          BY <5>1, Regroup
        <5> QED BY <5>2 DEF w
      <4> QED BY <4>1, <4>2, <4>3, <4>4
    <3>3. FlattenSeq(Cat(s, u)) = Cat(FlattenSeq(Cat(s, v)), a)
      BY <3>1, <3>2, FlattenAppend DEF Cat
    <3>4. FlattenSeq(u) = Cat(FlattenSeq(v), a) /\ FlattenSeq(v) \in Seq(X)
      BY <3>1, FlattenAppend, FlattenType DEF Cat
    <3>5. FlattenSeq(Cat(s, v)) = Cat(FlattenSeq(s), FlattenSeq(v))
      BY <1>2, <3>1
    <3>6. Cat(Cat(FlattenSeq(s), FlattenSeq(v)), a) = Cat(FlattenSeq(s), Cat(FlattenSeq(v), a))
      BY <1>0, <3>1, <3>4, Regroup
    <3> QED BY <3>3, <3>4, <3>5, <3>6
  <2> QED BY <2>1
<1> HIDE DEF S
<1>3. \A n \in Nat : n \in S
  BY <1>1, <1>2, Induction
<1> QED BY <1>3, LenProperties DEF S, Cat

\* A sequence that is not empty begins with its first element.
LEMMA SequenceFirst ==
    ASSUME NEW X, NEW s \in Seq(X), s # <<>>
    PROVE  s = <<Head(s)>> \o Tail(s)
<1>1. Len(s) \in Nat \ {0}
  BY EmptySeq
<1>2. 1 \in 1..Len(s) /\ Len(s) \in 1..Len(s)
  BY <1>1
<1>3. SubSeq(s, 1, Len(s)) = <<s[1]>> \o SubSeq(s, 2, Len(s))
  BY <1>2, SubSeqRecursiveFirst
<1>4. Head(s) = s[1]
  OBVIOUS
<1> QED BY <1>3, <1>4, SubSeqFull, TailIsSubSeq

\* The first element comes first.
LEMMA FlattenHead ==
    ASSUME NEW X, NEW s \in Seq(Seq(X)), s # <<>>
    PROVE  FlattenSeq(s) = Head(s) \o FlattenSeq(Tail(s))
<1>1. Head(s) \in Seq(X) /\ Tail(s) \in Seq(Seq(X)) /\ <<Head(s)>> \in Seq(Seq(X))
  BY HeadTailProperties
<1>2. s = <<Head(s)>> \o Tail(s)
  BY SequenceFirst
<1>3. FlattenSeq(s) = FlattenSeq(<<Head(s)>>) \o FlattenSeq(Tail(s))
  BY <1>1, <1>2, FlattenConcat DEF Cat
<1> QED BY <1>1, <1>3, FlattenSmall

\* One element more of what a function gives.
LEMMA FlattenUpTo ==
    ASSUME NEW X, NEW n \in Nat, NEW f, \A k \in 1..n + 1 : f[k] \in Seq(X)
    PROVE  /\ [k \in 1..n |-> f[k]] \in Seq(Seq(X))
           /\ FlattenSeq([k \in 1..n + 1 |-> f[k]]) = FlattenSeq([k \in 1..n |-> f[k]]) \o f[n + 1]
<1> DEFINE s == [k \in 1..n |-> f[k]]
           t == [k \in 1..n + 1 |-> f[k]]
<1>1. s \in Seq(Seq(X)) /\ Len(s) = n /\ t \in Seq(Seq(X)) /\ Len(t) = n + 1
  OBVIOUS
<1>2. \A k \in 1..n : s[k] = f[k]
  OBVIOUS
<1>3. \A k \in 1..n + 1 : t[k] = f[k]
  OBVIOUS
<1>4. f[n + 1] \in Seq(X)
  OBVIOUS
<1> HIDE DEF s, t
<1>5. /\ Append(s, f[n + 1]) \in Seq(Seq(X)) /\ Len(Append(s, f[n + 1])) = n + 1
      /\ \A i \in 1..n : Append(s, f[n + 1])[i] = s[i]
      /\ Append(s, f[n + 1])[n + 1] = f[n + 1]
  BY <1>1, <1>4, AppendProperties
<1>6. \A k \in 1..n + 1 : Append(s, f[n + 1])[k] = t[k]
  BY <1>2, <1>3, <1>5
<1>7. t = Append(s, f[n + 1])
  BY <1>1, <1>5, <1>6, SeqEqual
<1>8. FlattenSeq(t) = FlattenSeq(s) \o f[n + 1]
  BY <1>1, <1>4, <1>7, FlattenAppend
<1> QED BY <1>1, <1>8 DEF s, t
----------------------------------------------------------------------------
(* Sums. *)

\* Which element a fold takes next.
Pick(s) == CHOOSE x \in s : TRUE

\* h holds the sums of g over the subsets of S.
Sums(h, g, S) ==
    h = [s \in SUBSET S |-> IF s = {} THEN 0 ELSE g[Pick(s)] + h[s \ {Pick(s)}]]

\* Taking an element from a finite set.
LEMMA Picked ==
    ASSUME NEW S, IsFiniteSet(S), NEW s \in SUBSET S, s # {}
    PROVE  /\ Pick(s) \in s /\ s \ {Pick(s)} \in SUBSET S
           /\ Cardinality(s) \in Nat \ {0}
           /\ Cardinality(s \ {Pick(s)}) = Cardinality(s) - 1
<1>1. Pick(s) \in s
  BY DEF Pick
<1>2. IsFiniteSet(s)
  BY FS_Subset
<1>3. Cardinality(s) \in Nat /\ Cardinality(s) # 0
  BY <1>2, FS_CardinalityType, FS_EmptySet
<1>4. Cardinality(s \ {Pick(s)}) = Cardinality(s) - 1
  BY <1>1, <1>2, FS_RemoveElement
<1> QED BY <1>1, <1>3, <1>4

\* Induction over a finite set: a family that holds the empty set, and with a set also
\* that with one more element.
LEMMA SetInduction ==
    ASSUME NEW S, IsFiniteSet(S), NEW F, {} \in F,
           \A T \in SUBSET S : \A x \in S : T \in F => T \cup {x} \in F
    PROVE  S \in F
<1> DEFINE N == {n \in Nat : \A T \in SUBSET S : Cardinality(T) = n => T \in F}
<1>1. 0 \in N
  <2>1. ASSUME NEW T \in SUBSET S, Cardinality(T) = 0
        PROVE  T = {}
    BY <2>1, Picked
  <2> QED BY <2>1
<1>2. ASSUME NEW n \in Nat, n \in N
      PROVE  n + 1 \in N
  <2>1. ASSUME NEW T \in SUBSET S, Cardinality(T) = n + 1
        PROVE  T \in F
    <3>1. T # {}
      <4>1. Cardinality({}) = 0
        BY FS_EmptySet
      <4> QED BY <2>1, <4>1
    <3>2. /\ Pick(T) \in T /\ T \ {Pick(T)} \in SUBSET S
          /\ Cardinality(T \ {Pick(T)}) = n
      BY <2>1, <3>1, Picked
    <3>3. T \ {Pick(T)} \in F
      BY <1>2, <3>2
    <3>4. (T \ {Pick(T)}) \cup {Pick(T)} = T
      BY <3>2
    <3>5. (T \ {Pick(T)}) \cup {Pick(T)} \in F
      BY <3>2, <3>3
    <3> QED BY <3>4, <3>5
  <2> QED BY <2>1
<1> HIDE DEF N
<1>3. Cardinality(S) \in Nat
  BY FS_CardinalityType
<1>4. Cardinality(S) \in N
  BY <1>1, <1>2, <1>3, Induction
<1> QED BY <1>4 DEF N

\* A finite set of numbers has a largest one.
LEMMA Largest ==
    ASSUME NEW S, IsFiniteSet(S), S \subseteq Nat, S # {}
    PROVE  \E m \in S : \A n \in S : m >= n
<1> DEFINE F == {T \in SUBSET S : T = {} \/ \E m \in T : \A n \in T : m >= n}
<1>1. {} \in F
  OBVIOUS
<1>2. ASSUME NEW T \in SUBSET S, NEW x \in S, T \in F
      PROVE  T \cup {x} \in F
  <2>1. CASE T = {}
    BY <2>1
  <2>2. CASE T # {}
    <3>1. PICK m \in T : \A n \in T : m >= n
      BY <1>2, <2>2
    <3>2. CASE x >= m
      <4>1. \A n \in T \cup {x} : x >= n
        BY <3>1, <3>2
      <4> QED BY <4>1
    <3>3. CASE ~(x >= m)
      <4>1. \A n \in T \cup {x} : m >= n
        BY <3>1, <3>3
      <4> QED BY <4>1
    <3> QED BY <3>2, <3>3
  <2> QED BY <2>1, <2>2
<1> HIDE DEF F
<1>3. S \in F
  BY <1>1, <1>2, SetInduction
<1> QED BY <1>3 DEF F

\* There is such a function for every finite set.
LEMMA SumsExist ==
    ASSUME NEW S, IsFiniteSet(S), NEW g
    PROVE  \E h : Sums(h, g, S)
<1> DEFINE Sum(h, s) == IF s = {} THEN 0 ELSE g[Pick(s)] + h[s \ {Pick(s)}]
           N == {n \in Nat : \E h : \A s \in SUBSET S : Cardinality(s) <= n => h[s] = Sum(h, s)}
<1>1. 0 \in N
  <2> DEFINE h == [s \in SUBSET S |-> 0]
  <2>1. ASSUME NEW s \in SUBSET S, Cardinality(s) <= 0
        PROVE  h[s] = Sum(h, s)
    <3>1. s = {}
      <4>1. s # {} => Cardinality(s) \in Nat \ {0}
        BY Picked
      <4> QED BY <2>1, <4>1
    <3> QED BY <3>1
  <2> QED BY <2>1
<1>2. ASSUME NEW n \in Nat, n \in N
      PROVE  n + 1 \in N
  <2>1. PICK h : \A s \in SUBSET S : Cardinality(s) <= n => h[s] = Sum(h, s)
    BY <1>2
  <2> DEFINE k == [s \in SUBSET S |-> IF Cardinality(s) <= n THEN h[s] ELSE Sum(h, s)]
  <2>2. ASSUME NEW s \in SUBSET S, Cardinality(s) <= n + 1
        PROVE  k[s] = Sum(k, s)
    <3>1. CASE s = {}
      <4>1. Cardinality(s) <= n
        BY <3>1, FS_EmptySet
      <4>2. h[s] = 0
        BY <2>1, <3>1, <4>1
      <4> QED BY <3>1, <4>1, <4>2
    <3>2. CASE s # {}
      <4> DEFINE r == s \ {Pick(s)}
      <4>1. /\ r \in SUBSET S /\ Cardinality(s) \in Nat
            /\ Cardinality(r) = Cardinality(s) - 1
        BY <3>2, Picked
      <4>2. Cardinality(r) <= n
        BY <2>2, <4>1
      <4>3. k[r] = h[r]
        <5> HIDE DEF r
        <5> QED BY <4>1, <4>2
      <4>4. k[s] = Sum(h, s)
        BY <2>1
      <4> HIDE DEF k
      <4> QED BY <3>2, <4>3, <4>4
    <3> QED BY <3>1, <3>2
  <2> HIDE DEF k, Sum
  <2>3. \A s \in SUBSET S : Cardinality(s) <= n + 1 => k[s] = Sum(k, s)
    BY <2>2
  <2>4. n + 1 \in Nat
    OBVIOUS
  <2> QED BY <2>3, <2>4
<1> HIDE DEF N
<1>3. Cardinality(S) \in Nat
  BY FS_CardinalityType
<1>4. Cardinality(S) \in N
  BY <1>1, <1>2, <1>3, Induction
<1>5. PICK h : \A s \in SUBSET S : Cardinality(s) <= Cardinality(S) => h[s] = Sum(h, s)
  BY <1>4 DEF N
<1> DEFINE k == [s \in SUBSET S |-> h[s]]
<1>6. ASSUME NEW s \in SUBSET S
      PROVE  k[s] = Sum(k, s)
  <2>1. Cardinality(s) <= Cardinality(S)
    BY FS_Subset
  <2>2. s \ {Pick(s)} \in SUBSET S
    OBVIOUS
  <2> QED BY <1>5, <2>1, <2>2
<1>7. k = [s \in SUBSET S |-> k[s]]
  OBVIOUS
<1> HIDE DEF k
<1>8. k = [s \in SUBSET S |-> Sum(k, s)]
  BY <1>6, <1>7
<1> QED BY <1>8 DEF Sums

\* An element adds what it is worth, whichever is taken first.
LEMMA SumsAdd ==
    ASSUME NEW S, IsFiniteSet(S), NEW g, \A x \in S : g[x] \in Nat, NEW h, Sums(h, g, S)
    PROVE  /\ h[{}] = 0
           /\ \A s \in SUBSET S : h[s] \in Nat
           /\ \A s \in SUBSET S, x \in S : x \notin s => h[s \cup {x}] = g[x] + h[s]
<1>1. \A s \in SUBSET S : h[s] = IF s = {} THEN 0 ELSE g[Pick(s)] + h[s \ {Pick(s)}]
  BY DEF Sums
<1> DEFINE Fine(s) == /\ h[s] \in Nat
                      /\ \A x \in S : x \notin s => h[s \cup {x}] = g[x] + h[s]
           N == {n \in Nat : \A s \in SUBSET S : Cardinality(s) = n => Fine(s)}
<1>2. h[{}] = 0
  BY <1>1
<1>3. 0 \in N
  <2>1. ASSUME NEW s \in SUBSET S, Cardinality(s) = 0
        PROVE  Fine(s)
    <3>1. s = {}
      BY <2>1, Picked
    <3>2. ASSUME NEW x \in S
          PROVE  h[{x}] = g[x] + h[{}]
      <4>1. Pick({x}) = x /\ {x} \ {x} = {} /\ {x} \in SUBSET S /\ {x} # {}
        BY DEF Pick
      <4>2. h[{x}] = g[Pick({x})] + h[{x} \ {Pick({x})}]
        BY <1>1, <4>1
      <4> QED BY <4>1, <4>2
    <3>3. \A x \in S : s \cup {x} = {x}
      BY <3>1
    <3>4. \A x \in S : h[s \cup {x}] = g[x] + h[s]
      <4>1. ASSUME NEW x \in S
            PROVE  h[s \cup {x}] = g[x] + h[s]
        <5>1. h[s \cup {x}] = h[{x}]
          BY <3>3
        <5>2. h[s] = h[{}]
          BY <3>1
        <5> QED BY <3>2, <5>1, <5>2
      <4> QED BY <4>1
    <3>5. h[s] \in Nat
      BY <1>2, <3>1
    <3> QED BY <3>4, <3>5
  <2> QED BY <2>1
<1>4. ASSUME NEW n \in Nat, n \in N
      PROVE  n + 1 \in N
  <2>1. ASSUME NEW s \in SUBSET S, Cardinality(s) = n + 1
        PROVE  h[s] \in Nat
    <3>1. s # {}
      BY <2>1, FS_EmptySet
    <3>2. /\ Pick(s) \in S /\ s \ {Pick(s)} \in SUBSET S
          /\ Cardinality(s \ {Pick(s)}) = n
      BY <2>1, <3>1, Picked
    <3>3. h[s \ {Pick(s)}] \in Nat
      BY <1>4, <3>2
    <3>4. h[s] = g[Pick(s)] + h[s \ {Pick(s)}]
      BY <1>1, <3>1
    <3> QED BY <3>2, <3>3, <3>4
  <2>2. ASSUME NEW s \in SUBSET S, Cardinality(s) = n + 1, NEW x \in S, x \notin s
        PROVE  h[s \cup {x}] = g[x] + h[s]
    <3> DEFINE t == s \cup {x}
               y == Pick(t)
    <3>1. t \in SUBSET S /\ t # {}
      OBVIOUS
    <3>2. y \in t
      <4> HIDE DEF t
      <4> QED BY <3>1, Picked
    <3>3. h[t] = g[y] + h[t \ {y}]
      BY <1>1, <3>1
    <3> HIDE DEF y
    <3>4. CASE y = x
      <4>1. t \ {y} = s
        BY <2>2, <3>4
      <4> QED BY <3>3, <3>4, <4>1
    <3>5. CASE y # x
      <4> DEFINE r == s \ {y}
      <4>1. y \in s /\ y \in S
        BY <3>2, <3>5
      <4>2. /\ r \in SUBSET S /\ t \ {y} = r \cup {x} /\ s = r \cup {y}
            /\ x \notin r /\ y \notin r
        BY <2>2, <3>5, <4>1
      <4>3. Cardinality(r) = n
        <5>1. IsFiniteSet(s)
          BY FS_Subset
        <5>2. Cardinality(s \ {y}) = Cardinality(s) - 1
          BY <4>1, <5>1, FS_RemoveElement
        <5> QED BY <2>2, <5>2
      <4> HIDE DEF r
      <4>4. Fine(r)
        BY <1>4, <4>2, <4>3
      <4>5. h[r] \in Nat /\ h[r \cup {x}] = g[x] + h[r] /\ h[r \cup {y}] = g[y] + h[r]
        BY <4>1, <4>2, <4>4
      <4>6. g[x] \in Nat /\ g[y] \in Nat
        BY <4>1
      <4>7. h[t] = g[y] + (g[x] + h[r]) /\ h[s] = g[y] + h[r]
        BY <3>3, <4>2, <4>5
      <4>8. g[y] + (g[x] + h[r]) = g[x] + (g[y] + h[r])
        BY <4>5, <4>6
      <4> QED BY <4>7, <4>8
    <3> QED BY <3>4, <3>5
  <2> QED BY <2>1, <2>2
<1> HIDE DEF N
<1>5. \A n \in Nat : n \in N
  BY <1>3, <1>4, Induction
<1>6. ASSUME NEW s \in SUBSET S
      PROVE  Fine(s)
  <2>1. Cardinality(s) \in Nat
    BY FS_Subset, FS_CardinalityType
  <2> QED BY <1>5, <2>1 DEF N
<1> QED BY <1>2, <1>6

\* The sum over a set is the same among the sums over a larger one.
LEMMA SumsAgree ==
    ASSUME NEW S, NEW T, IsFiniteSet(T), S \subseteq T, NEW f, NEW g,
           \A x \in S : f[x] = g[x],
           NEW h, NEW k, Sums(h, f, S), Sums(k, g, T)
    PROVE  h[S] = k[S]
<1> DEFINE N == {n \in Nat : \A s \in SUBSET S : Cardinality(s) = n => h[s] = k[s]}
<1>0. IsFiniteSet(S)
  BY FS_Subset
<1>1. ASSUME NEW s \in SUBSET S
      PROVE  /\ h[s] = IF s = {} THEN 0 ELSE f[Pick(s)] + h[s \ {Pick(s)}]
             /\ k[s] = IF s = {} THEN 0 ELSE g[Pick(s)] + k[s \ {Pick(s)}]
  <2>1. s \in SUBSET T
    OBVIOUS
  <2> QED BY <2>1 DEF Sums
<1>2. 0 \in N
  BY <1>0, <1>1, Picked
<1>3. ASSUME NEW n \in Nat, n \in N
      PROVE  n + 1 \in N
  <2>1. ASSUME NEW s \in SUBSET S, Cardinality(s) = n + 1
        PROVE  h[s] = k[s]
    <3>1. s # {}
      BY <2>1, FS_EmptySet
    <3>2. /\ Pick(s) \in S /\ s \ {Pick(s)} \in SUBSET S
          /\ Cardinality(s \ {Pick(s)}) = n
      BY <1>0, <2>1, <3>1, Picked
    <3>3. h[s \ {Pick(s)}] = k[s \ {Pick(s)}]
      BY <1>3, <3>2
    <3> QED BY <1>1, <3>1, <3>2, <3>3
  <2> QED BY <2>1
<1> HIDE DEF N
<1>4. \A n \in Nat : n \in N
  BY <1>2, <1>3, Induction
<1>5. ASSUME NEW s \in SUBSET S
      PROVE  h[s] = k[s]
  <2>1. Cardinality(s) \in Nat
    BY <1>0, FS_Subset, FS_CardinalityType
  <2> QED BY <1>4, <2>1 DEF N
<1> QED BY <1>5
----------------------------------------------------------------------------
(* What is on its way through a pipeline. *)

\* What has arrived, what is in a channel and what waits for it, what is being
\* packed and what has been loaded, in this order.
Line(F, C, O, B, S) == Cat(Cat(Cat(Cat(F, FlattenSeq(C)), FlattenSeq(O)), B), S)

\* It consists of what its parts consist of.
LEMMA LineType ==
    ASSUME NEW X, NEW F \in Seq(X), NEW C \in Seq(Seq(X)), NEW O \in Seq(Seq(X)),
           NEW B \in Seq(X)
    PROVE  /\ FlattenSeq(C) \in Seq(X) /\ FlattenSeq(O) \in Seq(X)
           /\ Cat(F, FlattenSeq(C)) \in Seq(X)
           /\ Cat(Cat(F, FlattenSeq(C)), FlattenSeq(O)) \in Seq(X)
           /\ Cat(Cat(Cat(F, FlattenSeq(C)), FlattenSeq(O)), B) \in Seq(X)
<1>1. FlattenSeq(C) \in Seq(X) /\ FlattenSeq(O) \in Seq(X)
  BY FlattenType
<1>2. Cat(F, FlattenSeq(C)) \in Seq(X)
  BY <1>1, Regroup
<1>3. Cat(Cat(F, FlattenSeq(C)), FlattenSeq(O)) \in Seq(X)
  BY <1>1, <1>2, Regroup
<1> QED BY <1>1, <1>2, <1>3, Regroup

\* Nothing is added by nothing.
LEMMA CatEmpty ==
    ASSUME NEW X, NEW s \in Seq(X)
    PROVE  Cat(s, <<>>) = s /\ Cat(<<>>, s) = s
BY ConcatEmptySeq DEF Cat

\* What has been loaded is packed, before or after what was packed is sent off.
LEMMA LinePush ==
    ASSUME NEW X, NEW F \in Seq(X), NEW C \in Seq(Seq(X)), NEW B \in Seq(X), NEW r \in X,
           NEW t \in Seq(X)
    PROVE  /\ Line(F, C, <<>>, Append(B, r), t) = Line(F, C, <<>>, B, Cat(<<r>>, t))
           /\ Line(F, C, <<B>>, <<r>>, t) = Line(F, C, <<>>, B, Cat(<<r>>, t))
<1> DEFINE R == <<r>>
           P == Cat(F, FlattenSeq(C))
<1>1. R \in Seq(X) /\ Append(B, r) = Cat(B, R)
  BY AppendIsConcat DEF Cat
<1>2. P \in Seq(X) /\ Cat(P, <<>>) = P
  BY FlattenType, Regroup, CatEmpty
<1>3. FlattenSeq(<<>>) = <<>> /\ FlattenSeq(<<B>>) = B
  BY FlattenSmall
<1> HIDE DEF R, P
<1>4. /\ Cat(P, Cat(B, R)) = Cat(Cat(P, B), R)
      /\ Cat(Cat(P, B), Cat(R, t)) = Cat(Cat(Cat(P, B), R), t)
  BY <1>1, <1>2, Regroup
<1>5. Line(F, C, <<>>, B, Cat(R, t)) = Cat(Cat(P, B), Cat(R, t))
  BY <1>2, <1>3 DEF Line, P
<1>6. Line(F, C, <<>>, Cat(B, R), t) = Cat(Cat(P, Cat(B, R)), t)
  BY <1>2, <1>3 DEF Line, P
<1>7. Line(F, C, <<B>>, R, t) = Cat(Cat(Cat(P, B), R), t)
  BY <1>3 DEF Line, P
<1> QED BY <1>1, <1>4, <1>5, <1>6, <1>7 DEF R

\* What is packed is sent off.
LEMMA LineFlush ==
    ASSUME NEW X, NEW F \in Seq(X), NEW C \in Seq(Seq(X)), NEW B \in Seq(X), NEW S
    PROVE  Line(F, C, <<B>>, <<>>, S) = Line(F, C, <<>>, B, S)
<1> DEFINE P == Cat(F, FlattenSeq(C))
<1>1. P \in Seq(X) /\ Cat(P, <<>>) = P
  BY FlattenType, Regroup, CatEmpty
<1>2. FlattenSeq(<<>>) = <<>> /\ FlattenSeq(<<B>>) = B
  BY FlattenSmall
<1> HIDE DEF P
<1>3. Cat(Cat(P, B), <<>>) = Cat(P, B)
  BY <1>1, Regroup, CatEmpty
<1> QED BY <1>1, <1>2, <1>3 DEF Line, P

\* It enters the channel ...
LEMMA LineSend ==
    ASSUME NEW X, NEW F \in Seq(X), NEW C \in Seq(Seq(X)), NEW O \in Seq(Seq(X)), NEW B, NEW S
    PROVE  Line(F, C \o O, <<>>, B, S) = Line(F, C, O, B, S)
<1>1. FlattenSeq(C) \in Seq(X) /\ FlattenSeq(O) \in Seq(X)
  BY FlattenType
<1>2. FlattenSeq(C \o O) = Cat(FlattenSeq(C), FlattenSeq(O))
  BY FlattenConcat
<1>3. Cat(F, Cat(FlattenSeq(C), FlattenSeq(O))) = Cat(Cat(F, FlattenSeq(C)), FlattenSeq(O))
  BY <1>1, Regroup
<1>4. Cat(Cat(F, FlattenSeq(C)), FlattenSeq(O)) \in Seq(X)
  BY <1>1, Regroup
<1>5. Cat(Cat(Cat(F, FlattenSeq(C)), FlattenSeq(O)), <<>>) = Cat(Cat(F, FlattenSeq(C)), FlattenSeq(O))
  BY <1>4, CatEmpty
<1>6. FlattenSeq(<<>>) = <<>>
  BY EmptySeq, FlattenSmall
<1> QED BY <1>2, <1>3, <1>5, <1>6 DEF Line

\* ... and leaves it.
LEMMA LineReceive ==
    ASSUME NEW X, NEW F \in Seq(X), NEW C \in Seq(Seq(X)), C # <<>>, NEW O, NEW B, NEW S
    PROVE  Line(F \o Head(C), Tail(C), O, B, S) = Line(F, C, O, B, S)
<1>1. Head(C) \in Seq(X) /\ Tail(C) \in Seq(Seq(X))
  BY HeadTailProperties
<1>2. FlattenSeq(Tail(C)) \in Seq(X)
  BY <1>1, FlattenType
<1>3. FlattenSeq(C) = Cat(Head(C), FlattenSeq(Tail(C)))
  BY FlattenHead DEF Cat
<1>4. Cat(Cat(F, Head(C)), FlattenSeq(Tail(C))) = Cat(F, Cat(Head(C), FlattenSeq(Tail(C))))
  BY <1>1, <1>2, Regroup
<1>5. F \o Head(C) = Cat(F, Head(C))
  BY DEF Cat
<1> QED BY <1>3, <1>4, <1>5 DEF Line

\* What is loaded comes last.
LEMMA LineLoad ==
    ASSUME NEW X, NEW F \in Seq(X), NEW C \in Seq(Seq(X)), NEW O \in Seq(Seq(X)),
           NEW B \in Seq(X), NEW S
    PROVE  Line(F, C, O, B, S) = Line(F, C, O, B, <<>>) \o S
<1> DEFINE P == Cat(Cat(Cat(F, FlattenSeq(C)), FlattenSeq(O)), B)
<1>1. P \in Seq(X)
  BY LineType
<1> HIDE DEF P
<1>2. Cat(P, <<>>) = P
  BY <1>1, CatEmpty
<1>3. Cat(P, S) = Cat(P, <<>>) \o S
  BY <1>2 DEF Cat
<1> QED BY <1>3 DEF Line, P
----------------------------------------------------------------------------
(* A function on the elements. *)

Mapped(m, s) == [i \in 1..Len(s) |-> m[s[i]]]

LEMMA MappedLen ==
    ASSUME NEW X, NEW m, NEW s \in Seq(X)
    PROVE  Len(Mapped(m, s)) = Len(s)
<1>1. Len(s) \in Nat
  BY LenProperties
<1> QED BY <1>1 DEF Mapped

LEMMA MappedAt ==
    ASSUME NEW m, NEW s
    PROVE  \A i \in 1..Len(s) : Mapped(m, s)[i] = m[s[i]]
BY DEF Mapped

LEMMA MappedType ==
    ASSUME NEW X, NEW m, NEW s \in Seq(X)
    PROVE  Mapped(m, s) \in Seq({m[x] : x \in X})
<1>1. Len(s) \in Nat /\ \A i \in 1..Len(s) : m[s[i]] \in {m[x] : x \in X}
  BY LenProperties, ElementOfSeq
<1> QED BY <1>1 DEF Mapped

\* It goes through a concatenation.
LEMMA MappedConcat ==
    ASSUME NEW X, NEW m, NEW s \in Seq(X), NEW t \in Seq(X)
    PROVE  Mapped(m, Cat(s, t)) = Cat(Mapped(m, s), Mapped(m, t))
<1> DEFINE n == Len(s)
           k == Len(t)
           u == s \o t
           a == Mapped(m, s)
           b == Mapped(m, t)
           Y == {m[x] : x \in X}
<1>1. /\ n \in Nat /\ k \in Nat /\ u \in Seq(X) /\ Len(u) = n + k
      /\ \A i \in 1..n + k : u[i] = IF i <= n THEN s[i] ELSE t[i - n]
  BY LenProperties, ConcatProperties
<1>2. a \in Seq(Y) /\ Len(a) = n /\ \A i \in 1..n : a[i] = m[s[i]]
  <2>1. a \in Seq(Y)
    BY MappedType
  <2>2. Len(a) = n
    BY MappedLen
  <2>3. \A i \in 1..n : a[i] = m[s[i]]
    BY MappedAt
  <2> QED BY <2>1, <2>2, <2>3
<1>3. b \in Seq(Y) /\ Len(b) = k /\ \A i \in 1..k : b[i] = m[t[i]]
  <2>1. b \in Seq(Y)
    BY MappedType
  <2>2. Len(b) = k
    BY MappedLen
  <2>3. \A i \in 1..k : b[i] = m[t[i]]
    BY MappedAt
  <2> QED BY <2>1, <2>2, <2>3
<1>4. /\ Mapped(m, u) \in Seq(Y) /\ Len(Mapped(m, u)) = n + k
      /\ \A i \in 1..n + k : Mapped(m, u)[i] = m[u[i]]
  <2> HIDE DEF u
  <2>1. Mapped(m, u) \in Seq(Y)
    BY <1>1, MappedType
  <2>2. Len(Mapped(m, u)) = n + k
    BY <1>1, MappedLen
  <2>3. \A i \in 1..Len(u) : Mapped(m, u)[i] = m[u[i]]
    BY MappedAt
  <2> QED BY <1>1, <2>1, <2>2, <2>3
<1> HIDE DEF u, a, b, n, k, Y
<1>5. /\ a \o b \in Seq(Y) /\ Len(a \o b) = n + k
      /\ \A i \in 1..n + k : (a \o b)[i] = IF i <= n THEN a[i] ELSE b[i - n]
  <2>1. a \in Seq(Y) /\ b \in Seq(Y)
    BY <1>2, <1>3
  <2>2. /\ a \o b \in Seq(Y) /\ Len(a \o b) = Len(a) + Len(b)
        /\ \A i \in 1..Len(a) + Len(b) :
              (a \o b)[i] = IF i <= Len(a) THEN a[i] ELSE b[i - Len(a)]
    BY <2>1, ConcatProperties
  <2> QED BY <1>2, <1>3, <2>2
<1>6. ASSUME NEW i \in 1..n + k
      PROVE  Mapped(m, u)[i] = (a \o b)[i]
  <2>1. CASE i <= n
    <3>1. i \in 1..n
      BY <1>1, <2>1
    <3>2. u[i] = s[i] /\ (a \o b)[i] = a[i]
      BY <1>1, <1>5, <2>1
    <3>3. a[i] = m[s[i]]
      BY <1>2, <3>1
    <3> QED BY <1>4, <3>2, <3>3
  <2>2. CASE ~(i <= n)
    <3>1. i - n \in 1..k
      BY <1>1, <2>2
    <3>2. u[i] = t[i - n] /\ (a \o b)[i] = b[i - n]
      BY <1>1, <1>5, <2>2
    <3>3. b[i - n] = m[t[i - n]]
      BY <1>3, <3>1
    <3> QED BY <1>4, <3>2, <3>3
  <2> QED BY <2>1, <2>2
<1>7. Mapped(m, u) = a \o b
  BY <1>4, <1>5, <1>6, SeqEqual
<1> QED BY <1>7 DEF u, a, b, Cat

\* Sequences of sequences that a function does not tell apart, one by one, are not
\* told apart when they are concatenated.
LEMMA FlattenAlike ==
    ASSUME NEW X, NEW m, NEW s \in Seq(Seq(X)), NEW t \in Seq(Seq(X)),
           Len(s) = Len(t), \A k \in 1..Len(s) : Mapped(m, s[k]) = Mapped(m, t[k])
    PROVE  Mapped(m, FlattenSeq(s)) = Mapped(m, FlattenSeq(t))
<1> DEFINE Alike(u, v) == Mapped(m, FlattenSeq(u)) = Mapped(m, FlattenSeq(v))
           S == {n \in Nat : \A u, v \in Seq(Seq(X)) :
                   /\ Len(u) = n /\ Len(v) = n
                   /\ \A k \in 1..n : Mapped(m, u[k]) = Mapped(m, v[k])
                   => Alike(u, v)}
<1>1. 0 \in S
  <2>1. \A u, v \in Seq(Seq(X)) : Len(u) = 0 /\ Len(v) = 0 => u = v
    BY EmptySeq
  <2> QED BY <2>1
<1>2. ASSUME NEW n \in Nat, n \in S
      PROVE  n + 1 \in S
  <2>1. ASSUME NEW u \in Seq(Seq(X)), NEW v \in Seq(Seq(X)), Len(u) = n + 1, Len(v) = n + 1,
               \A k \in 1..n + 1 : Mapped(m, u[k]) = Mapped(m, v[k])
        PROVE  Alike(u, v)
    <3> DEFINE p == SubSeq(u, 1, n)
               q == SubSeq(v, 1, n)
               a == u[n + 1]
               b == v[n + 1]
    <3>1. /\ p \in Seq(Seq(X)) /\ Len(p) = n /\ a \in Seq(X) /\ u = Append(p, a)
          /\ q \in Seq(Seq(X)) /\ Len(q) = n /\ b \in Seq(X) /\ v = Append(q, b)
      BY <2>1, LastAppended
    <3>2. Mapped(m, a) = Mapped(m, b)
      BY <2>1
    <3> HIDE DEF p, q, a, b
    <3>3. \A k \in 1..n : u[k] = p[k] /\ v[k] = q[k]
      BY <3>1, AppendProperties
    <3>4. \A k \in 1..n : Mapped(m, p[k]) = Mapped(m, q[k])
      <4>1. \A k \in 1..n : k \in 1..n + 1
        OBVIOUS
      <4> HIDE DEF Alike
      <4> QED BY <2>1, <3>3, <4>1
    <3>5. Alike(p, q)
      <4> HIDE DEF Alike
      <4> QED BY <1>2, <3>1, <3>4
    <3>6. /\ FlattenSeq(u) = Cat(FlattenSeq(p), a) /\ FlattenSeq(p) \in Seq(X)
          /\ FlattenSeq(v) = Cat(FlattenSeq(q), b) /\ FlattenSeq(q) \in Seq(X)
      BY <3>1, FlattenAppend, FlattenType DEF Cat
    <3>7. /\ Mapped(m, Cat(FlattenSeq(p), a)) = Cat(Mapped(m, FlattenSeq(p)), Mapped(m, a))
          /\ Mapped(m, Cat(FlattenSeq(q), b)) = Cat(Mapped(m, FlattenSeq(q)), Mapped(m, b))
      BY <3>1, <3>6, MappedConcat
    <3> QED BY <3>2, <3>5, <3>6, <3>7
  <2> HIDE DEF Alike
  <2> QED BY <2>1
<1>3. \A n \in Nat : n \in S
  <2> HIDE DEF S
  <2> QED BY <1>1, <1>2, Induction
<1> HIDE DEF Alike
<1>4. Alike(s, t)
  BY <1>3, LenProperties
<1> QED BY <1>4 DEF Alike
=============================================================================
