----------------------------- MODULE ListProofs ------------------------------
(***************************************************************************)
(* Lists, and what the library makes of them by recursion: flattened lists  *)
(* of lists, and folds over finite sets.                                    *)
(***************************************************************************)
EXTENDS Integers, SequencesExt, SequenceTheorems, FiniteSetTheorems,
        WellFoundedInduction, TLAPS

-----------------------------------------------------------------------------
(* Lists *)

\* A sequence, of whatever elements.
List(s) == s \in Seq(ToSet(s))

LEMMA ListOf ==
    ASSUME NEW S, NEW s \in Seq(S)
    PROVE  List(s) /\ ToSet(s) \subseteq S
  BY DEF List, ToSet

LEMMA Positions ==
    ASSUME NEW s, List(s)
    PROVE  /\ Len(s) \in Nat /\ DOMAIN s = 1 .. Len(s)
           /\ s = [i \in 1 .. Len(s) |-> s[i]]
           /\ \A i \in DOMAIN s : s[i] \in ToSet(s)
  BY DEF List, ToSet

LEMMA Tabulated ==
    ASSUME NEW n \in Nat, NEW s, DOMAIN s = 1 .. n, s = [i \in 1 .. n |-> s[i]]
    PROVE  List(s) /\ Len(s) = n
  BY DEF List, ToSet

LEMMA Mapped ==
    ASSUME NEW list, List(list), NEW f, DOMAIN f = DOMAIN list, f = [i \in DOMAIN list |-> f[i]]
    PROVE  List(f) /\ Len(f) = Len(list)
  BY Positions, Tabulated

LEMMA NoRows == List(<<>>) /\ ToSet(<<>>) = {}
  BY DEF List, ToSet

LEMMA OneRow == ASSUME NEW r PROVE List(<<r>>) /\ ToSet(<<r>>) = {r}
  <1>1. <<r>> \in Seq({r})
    OBVIOUS
  <1>2. DOMAIN <<r>> = {1} /\ <<r>>[1] = r
    OBVIOUS
  <1>3. QED
    BY <1>1, <1>2 DEF List, ToSet

LEMMA Joined ==
    ASSUME NEW s, List(s), NEW t, List(t)
    PROVE  List(s \o t) /\ ToSet(s \o t) = ToSet(s) \cup ToSet(t)
  <1> DEFINE S == ToSet(s) \cup ToSet(t)
  <1>1. s \in Seq(S) /\ t \in Seq(S)
    BY SeqMonotonic DEF List
  <1>2. /\ s \o t \in Seq(S) /\ Len(s \o t) = Len(s) + Len(t)
        /\ \A i \in 1 .. Len(s) + Len(t) :
              (s \o t)[i] = IF i <= Len(s) THEN s[i] ELSE t[i - Len(s)]
    BY <1>1, ConcatProperties
  <1>3. /\ Len(s) \in Nat /\ Len(t) \in Nat /\ DOMAIN s = 1 .. Len(s) /\ DOMAIN t = 1 .. Len(t)
        /\ DOMAIN (s \o t) = 1 .. Len(s) + Len(t)
    BY <1>1, <1>2
  <1>4. ToSet(s \o t) \subseteq S
    BY <1>2, ListOf
  <1>5. ASSUME NEW r \in S PROVE r \in ToSet(s \o t)
    <2>1. CASE r \in ToSet(s)
      <3>1. PICK i \in 1 .. Len(s) : r = s[i]
        BY <2>1, <1>3 DEF ToSet
      <3>2. i \in 1 .. Len(s) + Len(t) /\ (s \o t)[i] = r
        BY <3>1, <1>2, <1>3
      <3>3. QED
        BY <3>2, <1>3 DEF ToSet
    <2>2. CASE r \in ToSet(t)
      <3>1. PICK i \in 1 .. Len(t) : r = t[i]
        BY <2>2, <1>3 DEF ToSet
      <3>2. i + Len(s) \in 1 .. Len(s) + Len(t) /\ (s \o t)[i + Len(s)] = r
        BY <3>1, <1>2, <1>3
      <3>3. QED
        BY <3>2, <1>3 DEF ToSet
    <2>3. QED
      BY <2>1, <2>2
  <1>6. QED
    BY <1>2, <1>4, <1>5, ListOf

-----------------------------------------------------------------------------
(* Induction *)

\* A property that goes on from n - 1 to n holds of every n: there is no least n
\* without it.
LEMMA NoLeast ==
    ASSUME NEW T \in SUBSET Nat, T # {}
    PROVE  \E n \in T : \A m \in T : n <= m
  <1>1. IsWellFoundedOn(OpToRel(<, Nat), Nat)
    BY NatLessThanWellFounded, Zenon
  <1>2. \E n \in T : \A m \in T : ~ (<<m, n>> \in OpToRel(<, Nat))
    BY <1>1, WFMin, Zenon
  <1>3. PICK n \in T : \A m \in T : ~ (<<m, n>> \in OpToRel(<, Nat))
    BY <1>2, Zenon
  <1>4. \A m \in T : ~ (m < n)
    BY <1>3, Zenon DEF OpToRel
  <1>5. QED
    BY <1>4

\* The same, of the numbers that have a property.
LEMMA EveryNumber ==
    ASSUME NEW T, 0 \in T, \A n \in Nat : n \in T => n + 1 \in T
    PROVE  Nat \subseteq T
  <1> SUFFICES ASSUME Nat \ T # {} PROVE FALSE
    OBVIOUS
  <1>1. PICK n \in Nat \ T : \A m \in Nat \ T : n <= m
    BY NoLeast
  <1>2. n - 1 \in Nat /\ n - 1 \in T
    BY <1>1
  <1>3. QED
    BY <1>1, <1>2

-----------------------------------------------------------------------------
(* Lists of lists *)

\* FlattenSeq is defined by recursion on the position; a function that satisfies its
\* equation exists, and with it each partial result is as expected.
LEMMA FlattenExists ==
    ASSUME NEW seqs, NEW n \in Nat
    PROVE  \E f : f = [i \in 1 .. n |-> IF i = 1 THEN seqs[i] ELSE f[i - 1] \o seqs[i]]
  <1> DEFINE T == {k \in Nat : \E f :
                      f = [i \in 1 .. k |-> IF i = 1 THEN seqs[i] ELSE f[i - 1] \o seqs[i]]}
  <1>1. 0 \in T
    <2> DEFINE f == [i \in 1 .. 0 |-> 0]
    <2>1. f = [i \in 1 .. 0 |-> IF i = 1 THEN seqs[i] ELSE f[i - 1] \o seqs[i]]
      OBVIOUS
    <2>2. QED
      BY <2>1
  <1>2. ASSUME NEW k \in Nat, k \in T PROVE k + 1 \in T
    <2>1. PICK f : f = [i \in 1 .. k |-> IF i = 1 THEN seqs[i] ELSE f[i - 1] \o seqs[i]]
      BY <1>2
    <2> DEFINE last == IF k = 0 THEN seqs[k + 1] ELSE f[k] \o seqs[k + 1]
               g == [i \in 1 .. k + 1 |-> IF i = k + 1 THEN last ELSE f[i]]
    <2> HIDE DEF last
    <2>2. /\ DOMAIN g = 1 .. k + 1 /\ g = [i \in 1 .. k + 1 |-> g[i]]
          /\ g[k + 1] = last
          /\ \A i \in 1 .. k : g[i] = f[i]
      OBVIOUS
    <2> USE DEF last
    <2> HIDE DEF g
    <2>3. ASSUME NEW i \in 1 .. k + 1
          PROVE  g[i] = IF i = 1 THEN seqs[i] ELSE g[i - 1] \o seqs[i]
      <3>1. CASE i = k + 1
        <4>1. CASE k = 0
          BY <3>1, <4>1, <2>2
        <4>2. CASE k # 0
          <5>1. k \in 1 .. k /\ i - 1 = k /\ i # 1
            BY <3>1, <4>2
          <5>2. QED
            BY <3>1, <4>2, <5>1, <2>2
        <4>3. QED
          BY <4>1, <4>2
      <3>2. CASE i # k + 1
        <4>1. i \in 1 .. k /\ (i # 1 => i - 1 \in 1 .. k)
          BY <3>2
        <4>2. f[i] = IF i = 1 THEN seqs[i] ELSE f[i - 1] \o seqs[i]
          BY <4>1, <2>1, Zenon
        <4>3. g[i] = f[i] /\ (i # 1 => g[i - 1] = f[i - 1])
          BY <4>1, <2>2
        <4>4. QED
          BY <4>2, <4>3
      <3>3. QED
        BY <3>1, <3>2
    <2>4. g = [i \in 1 .. k + 1 |-> IF i = 1 THEN seqs[i] ELSE g[i - 1] \o seqs[i]]
      BY <2>2, <2>3
    <2>5. \E h : h = [i \in 1 .. k + 1 |-> IF i = 1 THEN seqs[i] ELSE h[i - 1] \o seqs[i]]
      BY <2>4, Zenon
    <2>6. QED
      BY <2>5, k + 1 \in Nat, Zenon
  <1>3. n \in T
    BY <1>1, <1>2, EveryNumber
  <1>4. QED
    BY <1>3

LEMMA Flattened ==
    ASSUME NEW seqs, List(seqs), \A i \in DOMAIN seqs : List(seqs[i])
    PROVE  /\ List(FlattenSeq(seqs))
           /\ ToSet(FlattenSeq(seqs)) = UNION {ToSet(seqs[i]) : i \in DOMAIN seqs}
  <1> DEFINE n == Len(seqs)
  <1>1. n \in Nat /\ DOMAIN seqs = 1 .. n
    BY Positions
  <1>2. CASE n = 0
    <2>1. FlattenSeq(seqs) = <<>>
      BY <1>2 DEF FlattenSeq, List
    <2>2. DOMAIN seqs = {}
      BY <1>1, <1>2
    <2>3. QED
      BY <2>1, <2>2, NoRows
  <1>3. CASE n # 0
    <2> DEFINE flat == CHOOSE f :
                  f = [i \in 1 .. n |-> IF i = 1 THEN seqs[i] ELSE f[i - 1] \o seqs[i]]
               T == {k \in Nat : k \in 1 .. n =>
                        /\ List(flat[k])
                        /\ ToSet(flat[k]) = UNION {ToSet(seqs[i]) : i \in 1 .. k}}
    <2>1. FlattenSeq(seqs) = flat[n]
      BY <1>3 DEF FlattenSeq
    <2>2. flat = [i \in 1 .. n |-> IF i = 1 THEN seqs[i] ELSE flat[i - 1] \o seqs[i]]
      BY <1>1, FlattenExists
    <2> HIDE DEF flat, n
    <2>3. 0 \in T
      OBVIOUS
    <2>4. ASSUME NEW k \in Nat, k \in T PROVE k + 1 \in T
      <3> SUFFICES ASSUME k + 1 \in 1 .. n
                   PROVE  /\ List(flat[k + 1])
                          /\ ToSet(flat[k + 1]) = UNION {ToSet(seqs[i]) : i \in 1 .. k + 1}
        OBVIOUS
      <3>1. CASE k = 0
        <4>1. flat[1] = seqs[1] /\ 1 .. 1 = {1}
          BY <3>1, <2>2, <1>1
        <4>2. QED
          BY <3>1, <4>1, <1>1
      <3>2. CASE k # 0
        <4>0. k \in 1 .. n /\ k + 1 # 1 /\ (k + 1) - 1 = k
          BY <3>2, <1>1
        <4>1. flat[k + 1] = flat[k] \o seqs[k + 1]
          <5>1. flat[k + 1] = IF k + 1 = 1 THEN seqs[k + 1]
                              ELSE flat[(k + 1) - 1] \o seqs[k + 1]
            BY <2>2, Zenon
          <5>2. QED
            BY <4>0, <5>1
        <4>2. List(flat[k]) /\ ToSet(flat[k]) = UNION {ToSet(seqs[i]) : i \in 1 .. k}
          BY <4>0, <2>4
        <4>3. List(seqs[k + 1])
          BY <1>1
        <4>4. /\ List(flat[k + 1])
              /\ ToSet(flat[k + 1]) = ToSet(flat[k]) \cup ToSet(seqs[k + 1])
          BY <4>1, <4>2, <4>3, Joined
        <4>5. 1 .. k + 1 = 1 .. k \cup {k + 1}
          OBVIOUS
        <4>6. QED
          BY <4>2, <4>4, <4>5
      <3>3. QED
        BY <3>1, <3>2
    <2>5. n \in T
      BY <1>1, <2>3, <2>4, EveryNumber
    <2>6. QED
      BY <1>1, <1>3, <2>1, <2>5
  <1>4. QED
    BY <1>2, <1>3

LEMMA PairJoined ==
    ASSUME NEW a, NEW b, NEW c
    PROVE  <<a, b>> \o <<>> = <<a, b>> /\ <<a, b>> \o <<c>> = <<a, b, c>>
  <1> DEFINE S == {a, b, c}
             s == <<a, b>>
             t == <<a, b, c>>
             u == <<c>>
  <1>1. /\ s \in Seq(S) /\ u \in Seq(S) /\ t \in Seq(S)
        /\ Len(s) = 2 /\ Len(u) = 1 /\ Len(t) = 3
        /\ \A i \in 1 .. 2 : t[i] = s[i]
        /\ t[3] = u[1]
    OBVIOUS
  <1> HIDE DEF S, s, t, u
  <1>2. s \o <<>> = s
    BY <1>1, ConcatEmptySeq
  <1>3. /\ s \o u \in Seq(S) /\ Len(s \o u) = 3
        /\ \A i \in 1 .. 2 : (s \o u)[i] = s[i]
        /\ (s \o u)[3] = u[1]
    <2>1. /\ s \o u \in Seq(S) /\ Len(s \o u) = 2 + 1
          /\ \A i \in 1 .. 2 + 1 : (s \o u)[i] = IF i <= 2 THEN s[i] ELSE u[i - 2]
      <3>1. /\ s \o u \in Seq(S) /\ Len(s \o u) = Len(s) + Len(u)
            /\ \A i \in 1 .. Len(s) + Len(u) :
                    (s \o u)[i] = IF i <= Len(s) THEN s[i] ELSE u[i - Len(s)]
        BY <1>1, ConcatProperties, Zenon
      <3>2. QED
        BY <1>1, <3>1, Zenon
    <2>2. (s \o u)[3] = u[3 - 2]
      BY <2>1
    <2>3. QED
      BY <2>1, <2>2
  <1>4. \A i \in 1 .. 3 : (s \o u)[i] = t[i]
    <2>1. \A i \in 1 .. 3 : i = 3 \/ i \in 1 .. 2
      OBVIOUS
    <2>2. QED
      BY <1>1, <1>3, <2>1
  <1>5. s \o u = t
    <2>1. Len(s \o u) = Len(t) /\ \A i \in 1 .. Len(s \o u) : (s \o u)[i] = t[i]
      BY <1>1, <1>3, <1>4
    <2>2. QED
      BY <1>1, <1>3, <2>1, SeqEqual
  <1>6. QED
    BY <1>2, <1>5 DEF s, t, u

\* Of one list, and of two.
LEMMA FlattenFew ==
    ASSUME NEW seqs, List(seqs)
    PROVE  /\ Len(seqs) = 1 => FlattenSeq(seqs) = seqs[1]
           /\ Len(seqs) = 2 => FlattenSeq(seqs) = seqs[1] \o seqs[2]
  <1> DEFINE n == Len(seqs)
             flat == CHOOSE f :
                  f = [i \in 1 .. n |-> IF i = 1 THEN seqs[i] ELSE f[i - 1] \o seqs[i]]
  <1>1. n # 0 => FlattenSeq(seqs) = flat[n]
    BY DEF FlattenSeq
  <1>2. n \in Nat
    BY Positions
  <1>3. flat = [i \in 1 .. n |-> IF i = 1 THEN seqs[i] ELSE flat[i - 1] \o seqs[i]]
    BY <1>2, FlattenExists
  <1> HIDE DEF flat, n
  <1>4. ASSUME n # 0 PROVE flat[1] = seqs[1]
    <2>1. 1 \in 1 .. n
      BY <1>2, <1>4
    <2>2. flat[1] = IF 1 = 1 THEN seqs[1] ELSE flat[1 - 1] \o seqs[1]
      BY <1>3, <2>1, Zenon
    <2>3. QED
      BY <2>2
  <1>5. ASSUME n = 2 PROVE flat[2] = seqs[1] \o seqs[2]
    <2>1. 2 \in 1 .. n /\ 2 # 1 /\ 2 - 1 = 1
      BY <1>5
    <2>2. flat[2] = IF 2 = 1 THEN seqs[2] ELSE flat[2 - 1] \o seqs[2]
      BY <1>3, <2>1, Zenon
    <2>3. flat[2] = flat[1] \o seqs[2]
      BY <2>1, <2>2, Zenon
    <2>4. flat[1] = seqs[1]
      BY <1>4, <1>5
    <2>5. QED
      BY <2>3, <2>4, Zenon
  <1>6. n = 1 => FlattenSeq(seqs) = seqs[1]
    BY <1>1, <1>4
  <1>7. n = 2 => FlattenSeq(seqs) = seqs[1] \o seqs[2]
    <2>1. n = 2 => n # 0
      OBVIOUS
    <2>2. QED
      BY <1>1, <1>5, <2>1, Zenon
  <1>8. QED
    BY <1>6, <1>7 DEF n

-----------------------------------------------------------------------------
(* Folds *)

\* The community folds go through a finite set by a choice inside it.
Picks(pick, S) == \A s \in SUBSET S : s # {} => pick[s] \in s

FoldsWith(f, S, pick, base, step) ==
    \A s \in SUBSET S :
        f[s] = IF s = {} THEN base ELSE step[<<pick[s], f[s \ {pick[s]}]>>]

\* A function that satisfies the equation of such a fold exists.
LEMMA FoldExists ==
    ASSUME NEW S, IsFiniteSet(S), NEW pick, Picks(pick, S),
           NEW A, NEW base, base \in A, NEW step, step \in [S \X A -> A]
    PROVE  \E f \in [SUBSET S -> A] : FoldsWith(f, S, pick, base, step)
  <1> USE DEF Picks
  <1> DEFINE D(k) == {s \in SUBSET S : Cardinality(s) <= k}
             T == {k \in Nat : \E f \in [D(k) -> A] : \A s \in D(k) :
                      f[s] = IF s = {} THEN base ELSE step[<<pick[s], f[s \ {pick[s]}]>>]}
  <1>1. \A s \in SUBSET S : IsFiniteSet(s) /\ Cardinality(s) \in Nat
    BY FS_Subset, FS_CardinalityType
  <1>2. 0 \in T
    <2>1. \A s \in D(0) : s = {}
      BY <1>1, FS_EmptySet
    <2>2. [s \in D(0) |-> base] \in [D(0) -> A]
      OBVIOUS
    <2>3. QED
      BY <2>1, <2>2
  <1>3. ASSUME NEW k \in Nat, k \in T PROVE k + 1 \in T
    <2>1. PICK f \in [D(k) -> A] : \A s \in D(k) :
             f[s] = IF s = {} THEN base ELSE step[<<pick[s], f[s \ {pick[s]}]>>]
      BY <1>3
    <2> DEFINE g == [s \in D(k + 1) |->
                        IF s = {} THEN base ELSE step[<<pick[s], f[s \ {pick[s]}]>>]]
    <2>2. ASSUME NEW s \in D(k + 1), s # {} PROVE pick[s] \in S /\ s \ {pick[s]} \in D(k)
      BY <2>2, <1>1, FS_RemoveElement
    <2>3. ASSUME NEW s \in D(k) PROVE s \in D(k + 1) /\ g[s] = f[s]
      BY <2>1, <1>1
    <2>4. g \in [D(k + 1) -> A]
      BY <2>1, <2>2
    <2>5. ASSUME NEW s \in D(k + 1)
          PROVE  g[s] = IF s = {} THEN base ELSE step[<<pick[s], g[s \ {pick[s]}]>>]
      BY <2>2, <2>3
    <2> HIDE DEF g
    <2>6. \E h \in [D(k + 1) -> A] : \A s \in D(k + 1) :
             h[s] = IF s = {} THEN base ELSE step[<<pick[s], h[s \ {pick[s]}]>>]
      BY <2>4, <2>5, Zenon
    <2>7. QED
      BY <2>6, k + 1 \in Nat, Zenon
  <1>4. Cardinality(S) \in T
    BY <1>1, <1>2, <1>3, EveryNumber
  <1>5. D(Cardinality(S)) = SUBSET S
    BY <1>1, FS_Subset
  <1>6. QED
    BY <1>4, <1>5 DEF FoldsWith

\* The parts a fold goes through: what holds of the empty one, and of each from what
\* is left when one element is taken from it, holds of the whole set.
LEMMA FoldInduction ==
    ASSUME NEW S, IsFiniteSet(S), NEW pick, Picks(pick, S), NEW Kept, {} \in Kept,
           \A s \in SUBSET S : s # {} /\ s \ {pick[s]} \in Kept => s \in Kept
    PROVE  S \in Kept
  <1> USE DEF Picks
  <1> DEFINE T == {k \in Nat : \A s \in SUBSET S : Cardinality(s) = k => s \in Kept}
  <1>1. \A s \in SUBSET S : IsFiniteSet(s) /\ Cardinality(s) \in Nat
    BY FS_Subset, FS_CardinalityType
  <1>2. 0 \in T
    BY <1>1, FS_EmptySet
  <1>3. ASSUME NEW k \in Nat, k \in T PROVE k + 1 \in T
    <2> SUFFICES ASSUME NEW s \in SUBSET S, Cardinality(s) = k + 1 PROVE s \in Kept
      OBVIOUS
    <2> HIDE DEF T
    <2>1. s # {}
      <3>1. Cardinality({}) = 0
        BY FS_EmptySet, Zenon
      <3>2. k + 1 # 0
        OBVIOUS
      <3>3. QED
        BY <3>1, <3>2, Zenon
    <2>2. s \ {pick[s]} \in SUBSET S /\ Cardinality(s \ {pick[s]}) = k
      <3>1. pick[s] \in s /\ IsFiniteSet(s)
        BY <1>1, <2>1
      <3>2. Cardinality(s \ {pick[s]}) = Cardinality(s) - 1
        BY <3>1, FS_RemoveElement
      <3>3. QED
        BY <3>2
    <2>3. QED
      BY <1>3, <2>1, <2>2 DEF T
  <1>4. Cardinality(S) \in T
    BY <1>1, <1>2, <1>3, EveryNumber
  <1>5. QED
    BY <1>4

\* f puts the lists of a set's elements, in the order they are picked, behind a first.
JoinsWith(f, S, pick, base, block) ==
    \A s \in SUBSET S :
        f[s] = IF s = {} THEN base ELSE f[s \ {pick[s]}] \o block[pick[s]]

\* The fold that puts the lists of a set's elements, in the order they are picked,
\* behind a first one: it exists, and it leaves none of their entries out.
LEMMA JoinExists ==
    ASSUME NEW S, IsFiniteSet(S), NEW pick, Picks(pick, S),
           NEW base, List(base), NEW block, \A m \in S : List(block[m])
    PROVE  \E f : f = [s \in SUBSET S |-> f[s]] /\ JoinsWith(f, S, pick, base, block)
  <1> DEFINE X == ToSet(base) \cup UNION {ToSet(block[m]) : m \in S}
             A == Seq(X)
             step == [p \in S \X A |-> p[2] \o block[p[1]]]
  <1>1. base \in A
    BY SeqMonotonic DEF List
  <1>2. ASSUME NEW m \in S PROVE block[m] \in A
    <2>1. block[m] \in Seq(ToSet(block[m])) /\ ToSet(block[m]) \subseteq X
      BY DEF List
    <2>2. QED
      BY <2>1, SeqMonotonic
  <1>3. step \in [S \X A -> A]
    <2>1. ASSUME NEW p \in S \X A PROVE p[2] \o block[p[1]] \in A
      BY <1>2, ConcatProperties
    <2>2. QED
      BY <2>1
  <1>4. ASSUME NEW m \in S, NEW t \in A PROVE step[<<m, t>>] = t \o block[m]
    OBVIOUS
  <1> HIDE DEF step, A
  <1>5. PICK f \in [SUBSET S -> A] : FoldsWith(f, S, pick, base, step)
    BY <1>1, <1>3, FoldExists
  <1>6. ASSUME NEW s \in SUBSET S
        PROVE  f[s] = IF s = {} THEN base ELSE f[s \ {pick[s]}] \o block[pick[s]]
    <2>1. CASE s = {}
      BY <1>5, <2>1 DEF FoldsWith
    <2>2. CASE s # {}
      <3>1. pick[s] \in S /\ f[s \ {pick[s]}] \in A
        BY <2>2, <1>5 DEF Picks
      <3>2. QED
        BY <3>1, <2>2, <1>4, <1>5 DEF FoldsWith
    <2>3. QED
      BY <2>1, <2>2
  <1>7. f = [s \in SUBSET S |-> f[s]]
    BY <1>5
  <1>8. QED
    BY <1>6, <1>7, Zenon DEF JoinsWith

LEMMA JoinInduction ==
    ASSUME NEW S, IsFiniteSet(S), NEW pick, Picks(pick, S),
           NEW base, List(base), NEW block, \A m \in S : List(block[m]),
           NEW f, JoinsWith(f, S, pick, base, block)
    PROVE  /\ List(f[S])
           /\ \A r : r \in ToSet(f[S]) <=> r \in ToSet(base) \/ \E m \in S : r \in ToSet(block[m])
  <1> DEFINE All(s) == ToSet(base) \cup UNION {ToSet(block[m]) : m \in s}
             Kept == {s \in SUBSET S : List(f[s]) /\ ToSet(f[s]) = All(s)}
  <1>1. {} \in Kept
    BY DEF JoinsWith
  <1>2. ASSUME NEW s \in SUBSET S, s # {}, s \ {pick[s]} \in Kept
        PROVE  s \in Kept
    <2> DEFINE rest == s \ {pick[s]}
    <2>1. pick[s] \in s /\ pick[s] \in S
      BY <1>2 DEF Picks
    <2>2. List(f[rest]) /\ ToSet(f[rest]) = All(rest)
      BY <1>2
    <2>3. f[s] = f[rest] \o block[pick[s]]
      BY <1>2 DEF JoinsWith
    <2>4. s = rest \cup {pick[s]}
      BY <2>1
    <2> HIDE DEF rest
    <2>5. List(block[pick[s]])
      BY <2>1
    <2>6. List(f[s]) /\ ToSet(f[s]) = ToSet(f[rest]) \cup ToSet(block[pick[s]])
      BY <2>2, <2>3, <2>5, Joined
    <2>7. All(s) = All(rest) \cup ToSet(block[pick[s]])
      BY <2>4
    <2> HIDE DEF All
    <2>8. QED
      BY <2>2, <2>6, <2>7
  <1> HIDE DEF Kept
  <1>3. S \in Kept
    BY <1>1, <1>2, FoldInduction
  <1>4. List(f[S]) /\ ToSet(f[S]) = All(S)
    BY <1>3 DEF Kept
  <1>5. QED
    BY <1>4

-----------------------------------------------------------------------------
(* Short lists, beginnings, and blocks *)

LEMMA Field3 ==
    ASSUME NEW x, NEW y, NEW z
    PROVE  /\ List(<<x, y, z>>) /\ Len(<<x, y, z>>) = 3
           /\ <<x, y, z>>[1] = x /\ <<x, y, z>>[2] = y /\ <<x, y, z>>[3] = z
  <1>1. <<x, y, z>> \in Seq({x, y, z})
    OBVIOUS
  <1>2. QED
    BY <1>1, ListOf

LEMMA Field4 ==
    ASSUME NEW x, NEW y, NEW z, NEW w
    PROVE  /\ List(<<x, y, z, w>>) /\ Len(<<x, y, z, w>>) = 4
           /\ <<x, y, z, w>>[1] = x /\ <<x, y, z, w>>[2] = y /\ <<x, y, z, w>>[3] = z
           /\ <<x, y, z, w>>[4] = w
  <1>1. <<x, y, z, w>> \in Seq({x, y, z, w})
    OBVIOUS
  <1>2. QED
    BY <1>1, ListOf

LEMMA PrefixElements ==
    ASSUME NEW p, List(p), NEW f, List(f)
    PROVE  IsPrefix(p, f) <=> Len(p) <= Len(f) /\ \A i \in 1 .. Len(p) : p[i] = f[i]
  <1> DEFINE S == ToSet(p) \cup ToSet(f)
  <1>1. p \in Seq(S) /\ f \in Seq(S) /\ Len(p) \in Nat /\ Len(f) \in Nat
    BY SeqMonotonic DEF List
  <1> HIDE DEF S
  <1> SUFFICES ASSUME Len(p) <= Len(f)
               PROVE  SubSeq(p, 1, Len(p)) = SubSeq(f, 1, Len(p))
                      <=> \A i \in 1 .. Len(p) : p[i] = f[i]
    BY <1>1 DEF IsPrefix
  <1>2. CASE Len(p) = 0
    BY <1>1, <1>2, SubSeqProperties
  <1>3. CASE Len(p) # 0
    <2> DEFINE u == SubSeq(p, 1, Len(p))
               v == SubSeq(f, 1, Len(p))
    <2>1. /\ u \in Seq(S) /\ Len(u) = Len(p) /\ \A i \in 1 .. Len(p) : u[i] = p[i]
          /\ v \in Seq(S) /\ Len(v) = Len(p) /\ \A i \in 1 .. Len(p) : v[i] = f[i]
      BY <1>1, <1>3, SubSeqProperties
    <2> HIDE DEF u, v
    <2>2. u = v <=> \A i \in 1 .. Len(p) : u[i] = v[i]
      BY <2>1, SeqEqual
    <2>3. QED
      BY <2>1, <2>2 DEF u, v
  <1>4. QED
    BY <1>2, <1>3

LEMMA Beginning ==
    ASSUME NEW f, List(f), Len(f) > 2, NEW a, NEW b, NEW c
    PROVE  /\ IsPrefix(<<a>>, f) <=> f[1] = a
           /\ IsPrefix(<<a, b>>, f) <=> f[1] = a /\ f[2] = b
           /\ IsPrefix(<<a, b, c>>, f) <=> f[1] = a /\ f[2] = b /\ f[3] = c
  <1>1. /\ List(<<a>>) /\ Len(<<a>>) = 1 /\ <<a>>[1] = a
        /\ List(<<a, b>>) /\ Len(<<a, b>>) = 2 /\ <<a, b>>[1] = a /\ <<a, b>>[2] = b
    <2>1. <<a>> \in Seq({a}) /\ <<a, b>> \in Seq({a, b})
      OBVIOUS
    <2>2. QED
      BY <2>1, ListOf
  <1>2. Len(f) \in Nat /\ 1 .. 1 = {1} /\ 1 .. 2 = {1, 2} /\ 1 .. 3 = {1, 2, 3}
    BY Positions
  <1>3. ASSUME NEW p, List(p), Len(p) = 1 PROVE IsPrefix(p, f) <=> f[1] = p[1]
    BY <1>2, <1>3, PrefixElements
  <1>4. ASSUME NEW p, List(p), Len(p) = 2
        PROVE  IsPrefix(p, f) <=> f[1] = p[1] /\ f[2] = p[2]
    BY <1>2, <1>4, PrefixElements
  <1>5. ASSUME NEW p, List(p), Len(p) = 3
        PROVE  IsPrefix(p, f) <=> f[1] = p[1] /\ f[2] = p[2] /\ f[3] = p[3]
    <2>1. IsPrefix(p, f) <=> Len(p) <= Len(f) /\ \A i \in 1 .. Len(p) : p[i] = f[i]
      BY <1>5, PrefixElements
    <2>2. Len(p) <= Len(f) /\ 1 .. Len(p) = {1, 2, 3}
      BY <1>2, <1>5
    <2>3. QED
      BY <2>1, <2>2
  <1>6. IsPrefix(<<a>>, f) <=> f[1] = a
    BY <1>1, <1>3, Zenon
  <1>7. IsPrefix(<<a, b>>, f) <=> f[1] = a /\ f[2] = b
    BY <1>1, <1>4, Zenon
  <1>8. IsPrefix(<<a, b, c>>, f) <=> f[1] = a /\ f[2] = b /\ f[3] = c
    <2>1. /\ List(<<a, b, c>>) /\ Len(<<a, b, c>>) = 3
          /\ <<a, b, c>>[1] = a /\ <<a, b, c>>[2] = b /\ <<a, b, c>>[3] = c
      BY Field3
    <2>2. QED
      BY <2>1, <1>5, Zenon
  <1>9. QED
    BY <1>6, <1>7, <1>8

LEMMA Joined3 ==
    ASSUME NEW s, List(s), NEW t, List(t), NEW u, List(u)
    PROVE  /\ List(s \o t \o u)
           /\ \A r : r \in ToSet(s \o t \o u) <=> r \in ToSet(s) \/ r \in ToSet(t) \/ r \in ToSet(u)
  <1>1. List(s \o t) /\ ToSet(s \o t) = ToSet(s) \cup ToSet(t)
    BY Joined
  <1>2. List(s \o t \o u) /\ ToSet(s \o t \o u) = ToSet(s \o t) \cup ToSet(u)
    BY <1>1, Joined
  <1>3. QED
    BY <1>1, <1>2

\* Of each entry of a list, a list of rows.
LEMMA Blocks ==
    ASSUME NEW list, List(list), NEW blocks, blocks = [i \in DOMAIN list |-> blocks[i]],
           \A i \in DOMAIN list : List(blocks[i])
    PROVE  /\ List(FlattenSeq(blocks))
           /\ \A r : r \in ToSet(FlattenSeq(blocks))
                     <=> \E i \in DOMAIN list : r \in ToSet(blocks[i])
  <1>1. List(blocks) /\ DOMAIN blocks = DOMAIN list
    BY Mapped
  <1>2. /\ List(FlattenSeq(blocks))
        /\ ToSet(FlattenSeq(blocks)) = UNION {ToSet(blocks[i]) : i \in DOMAIN blocks}
    BY <1>1, Flattened
  <1>3. QED
    BY <1>1, <1>2

-----------------------------------------------------------------------------
(* How often a row is there *)

\* The positions of the rows with a field and a status.
Hits(s, f, v) == {k \in DOMAIN s : s[k].field = f /\ s[k].status = v}
HitCount(s, f, v) == Cardinality(Hits(s, f, v))

LEMMA HitsFinite ==
    ASSUME NEW s, List(s), NEW f, NEW v
    PROVE  /\ IsFiniteSet(Hits(s, f, v)) /\ HitCount(s, f, v) \in Nat
           /\ Hits(s, f, v) \subseteq 1 .. Len(s)
  <1>1. Len(s) \in Nat /\ DOMAIN s = 1 .. Len(s)
    BY Positions
  <1>2. IsFiniteSet(1 .. Len(s)) /\ Hits(s, f, v) \in SUBSET (1 .. Len(s))
    BY <1>1, FS_Interval DEF Hits
  <1>3. IsFiniteSet(Hits(s, f, v))
    BY <1>2, FS_Subset
  <1>4. QED
    BY <1>2, <1>3, FS_CardinalityType DEF HitCount

LEMMA NoHits ==
    ASSUME NEW s, List(s), NEW f, NEW v, \A r \in ToSet(s) : ~ (r.field = f /\ r.status = v)
    PROVE  HitCount(s, f, v) = 0
  <1>1. Hits(s, f, v) = {}
    BY Positions DEF Hits
  <1>2. QED
    BY <1>1, FS_EmptySet DEF HitCount

LEMMA OneHit ==
    ASSUME NEW r, NEW f, NEW v
    PROVE  HitCount(<<r>>, f, v) = IF r.field = f /\ r.status = v THEN 1 ELSE 0
  <1>1. CASE r.field = f /\ r.status = v
    <2>1. Hits(<<r>>, f, v) = {1}
      BY <1>1 DEF Hits
    <2>2. QED
      BY <1>1, <2>1, FS_Singleton DEF HitCount
  <1>2. CASE ~ (r.field = f /\ r.status = v)
    <2>1. Hits(<<r>>, f, v) = {}
      BY <1>2 DEF Hits
    <2>2. QED
      BY <1>2, <2>1, FS_EmptySet DEF HitCount
  <1>3. QED
    BY <1>1, <1>2

\* Sets whose elements are matched one to one have the same size.
LEMMA Matched ==
    ASSUME NEW X, IsFiniteSet(X), NEW Y, NEW b \in [X -> Y],
           \A x, y \in X : b[x] = b[y] => x = y,
           \A y \in Y : \E x \in X : b[x] = y
    PROVE  IsFiniteSet(Y) /\ Cardinality(Y) = Cardinality(X)
  <1>1. b \in Bijection(X, Y)
    BY DEF Bijection, Injection, Surjection, IsInjective
  <1>2. ExistsBijection(X, Y)
    BY <1>1, Zenon DEF ExistsBijection
  <1>3. QED
    BY <1>2, FS_Bijection

\* Positions that are moved along keep their number.
LEMMA MovedAlong ==
    ASSUME NEW n \in Nat, NEW X \in SUBSET Nat, IsFiniteSet(X), NEW Y,
           Y = {x + n : x \in X}
    PROVE  IsFiniteSet(Y) /\ Cardinality(Y) = Cardinality(X)
  <1> DEFINE b == [x \in X |-> x + n]
  <1>1. b \in [X -> Y] /\ \A x, y \in X : b[x] = b[y] => x = y
    OBVIOUS
  <1>2. \A y \in Y : \E x \in X : b[x] = y
    OBVIOUS
  <1> HIDE DEF b
  <1>3. QED
    BY <1>1, <1>2, Matched

LEMMA HitsJoined ==
    ASSUME NEW s, List(s), NEW t, List(t), NEW f, NEW v
    PROVE  HitCount(s \o t, f, v) = HitCount(s, f, v) + HitCount(t, f, v)
  <1> DEFINE S == ToSet(s) \cup ToSet(t)
             n == Len(s)
             a == Hits(s, f, v)
             b == Hits(t, f, v)
             c == {x + n : x \in b}
  <1>1. s \in Seq(S) /\ t \in Seq(S)
    BY SeqMonotonic DEF List
  <1>2. /\ Len(s \o t) = n + Len(t) /\ DOMAIN (s \o t) = 1 .. n + Len(t)
        /\ \A i \in 1 .. n + Len(t) : (s \o t)[i] = IF i <= n THEN s[i] ELSE t[i - n]
    BY <1>1, ConcatProperties
  <1>3. /\ n \in Nat /\ Len(t) \in Nat /\ DOMAIN s = 1 .. n /\ DOMAIN t = 1 .. Len(t)
    BY Positions
  <1> HIDE DEF n, S
  <1>4. ASSUME NEW i PROVE i \in Hits(s \o t, f, v) <=> i \in a \/ i \in c
    <2>1. i \in Hits(s \o t, f, v)
          <=> /\ i \in 1 .. n + Len(t)
              /\ (s \o t)[i].field = f /\ (s \o t)[i].status = v
      BY <1>2 DEF Hits
    <2>2. i \in a <=> i \in 1 .. n /\ s[i].field = f /\ s[i].status = v
      BY <1>3 DEF Hits
    <2>3. i \in c <=> \E x \in 1 .. Len(t) : t[x].field = f /\ t[x].status = v /\ i = x + n
      BY <1>3 DEF Hits
    <2>4. CASE i \in 1 .. n
      <3>1. i \in 1 .. n + Len(t) /\ (s \o t)[i] = s[i] /\ i \notin c
        BY <2>4, <2>3, <1>2, <1>3
      <3>2. QED
        BY <2>1, <2>2, <2>4, <3>1
    <2>5. CASE i \in 1 .. n + Len(t) /\ i \notin 1 .. n
      <3>1. (s \o t)[i] = t[i - n] /\ i - n \in 1 .. Len(t) /\ i = (i - n) + n
        BY <2>5, <1>2, <1>3
      <3>2. \A x \in 1 .. Len(t) : i = x + n => x = i - n
        BY <1>3, <2>5
      <3>3. i \in c <=> t[i - n].field = f /\ t[i - n].status = v
        BY <2>3, <3>1, <3>2
      <3>4. QED
        BY <2>1, <2>2, <2>5, <3>1, <3>3
    <2>6. CASE i \notin 1 .. n + Len(t)
      <3>1. i \notin 1 .. n /\ \A x \in 1 .. Len(t) : i # x + n
        BY <2>6, <1>3
      <3>2. QED
        BY <2>1, <2>2, <2>3, <2>6, <3>1
    <2>7. QED
      BY <2>4, <2>5, <2>6
  <1>5. IsFiniteSet(a) /\ IsFiniteSet(b) /\ a \subseteq 1 .. n /\ b \subseteq 1 .. Len(t)
    BY HitsFinite DEF n
  <1>6. b \in SUBSET Nat
    BY <1>5
  <1> HIDE DEF a, b
  <1>7. IsFiniteSet(c) /\ Cardinality(c) = Cardinality(b)
    BY <1>3, <1>5, <1>6, MovedAlong
  <1>8. a \cap c = {}
    BY <1>3, <1>5
  <1>9. Hits(s \o t, f, v) = a \cup c
    BY <1>4
  <1> HIDE DEF c
  <1>10. Cardinality(a \cup c) = Cardinality(a) + Cardinality(c) - Cardinality(a \cap c)
    BY <1>5, <1>7, FS_Union
  <1>11. Cardinality(a \cap c) = 0 /\ Cardinality(a) \in Nat /\ Cardinality(c) \in Nat
    BY <1>5, <1>7, <1>8, FS_EmptySet, FS_CardinalityType
  <1>12. QED
    BY <1>7, <1>9, <1>10, <1>11 DEF HitCount, a, b

\* Behind a list, lists without the row.
LEMMA HitsBehind ==
    ASSUME NEW s, List(s), NEW t, List(t), NEW u, List(u), NEW f, NEW v,
           \A r \in ToSet(t) \cup ToSet(u) : ~ (r.field = f /\ r.status = v)
    PROVE  HitCount(s \o t \o u, f, v) = HitCount(s, f, v)
  <1>1. HitCount(t, f, v) = 0 /\ HitCount(u, f, v) = 0
    BY NoHits
  <1>2. List(s \o t) /\ HitCount(s \o t, f, v) = HitCount(s, f, v) + HitCount(t, f, v)
    BY Joined, HitsJoined
  <1>3. HitCount(s \o t \o u, f, v) = HitCount(s \o t, f, v) + HitCount(u, f, v)
    BY <1>2, HitsJoined
  <1>4. HitCount(s, f, v) \in Nat
    BY HitsFinite
  <1>5. QED
    BY <1>1, <1>2, <1>3, <1>4

\* Of blocks that have the row at most once, as many as there are blocks that have it.
LEMMA BlockHits ==
    ASSUME NEW list, List(list), NEW blocks, blocks = [i \in DOMAIN list |-> blocks[i]],
           NEW f, NEW v, NEW one,
           \A i \in DOMAIN list : /\ List(blocks[i])
                                  /\ HitCount(blocks[i], f, v) = IF i \in one THEN 1 ELSE 0
    PROVE  HitCount(FlattenSeq(blocks), f, v) = Cardinality({i \in DOMAIN list : i \in one})
  <1> DEFINE n == Len(list)
             having(k) == {i \in 1 .. k : i \in one}
  <1>1. n \in Nat /\ DOMAIN list = 1 .. n
    BY Positions
  <1>2. List(blocks) /\ Len(blocks) = n /\ DOMAIN blocks = 1 .. n
    BY <1>1, Mapped
  <1>3. having(0) = {} /\ IsFiniteSet({}) /\ Cardinality({}) = 0
    BY FS_EmptySet
  <1>4. ASSUME NEW k \in Nat
        PROVE  /\ IsFiniteSet(having(k)) /\ Cardinality(having(k)) \in Nat
               /\ Cardinality(having(k + 1))
                    = Cardinality(having(k)) + IF k + 1 \in one THEN 1 ELSE 0
    <2>1. IsFiniteSet(1 .. k) /\ having(k) \in SUBSET (1 .. k)
      BY FS_Interval
    <2>2. IsFiniteSet(having(k))
      BY <2>1, FS_Subset
    <2>3. having(k + 1) = IF k + 1 \in one THEN having(k) \cup {k + 1} ELSE having(k)
      OBVIOUS
    <2>4. k + 1 \notin having(k)
      OBVIOUS
    <2> HIDE DEF having
    <2>5. Cardinality(having(k)) \in Nat
      BY <2>2, FS_CardinalityType
    <2>6. Cardinality(having(k) \cup {k + 1}) = Cardinality(having(k)) + 1
      BY <2>2, <2>4, FS_AddElement
    <2>7. QED
      BY <2>2, <2>3, <2>5, <2>6
  <1>5. CASE n = 0
    <2>1. FlattenSeq(blocks) = <<>>
      BY <1>2, <1>5 DEF FlattenSeq, List
    <2>2. \A r \in ToSet(<<>>) : ~ (r.field = f /\ r.status = v)
      BY NoRows
    <2>3. HitCount(<<>>, f, v) = 0
      BY <2>2, NoRows, NoHits
    <2>4. {i \in DOMAIN list : i \in one} = {}
      BY <1>1, <1>5
    <2>5. QED
      BY <2>1, <2>3, <2>4, <1>3
  <1>6. CASE n # 0
    <2> DEFINE flat == CHOOSE g :
                  g = [i \in 1 .. n |-> IF i = 1 THEN blocks[i] ELSE g[i - 1] \o blocks[i]]
               T == {k \in Nat : k \in 1 .. n =>
                        /\ List(flat[k])
                        /\ HitCount(flat[k], f, v) = Cardinality(having(k))}
    <2>1. FlattenSeq(blocks) = flat[n]
      BY <1>2, <1>6 DEF FlattenSeq
    <2>2. flat = [i \in 1 .. n |-> IF i = 1 THEN blocks[i] ELSE flat[i - 1] \o blocks[i]]
      BY <1>1, FlattenExists
    <2> HIDE DEF flat, n, having
    <2>3. 0 \in T
      OBVIOUS
    <2>4. ASSUME NEW k \in Nat, k \in T PROVE k + 1 \in T
      <3> SUFFICES ASSUME k + 1 \in 1 .. n
                   PROVE  /\ List(flat[k + 1])
                          /\ HitCount(flat[k + 1], f, v) = Cardinality(having(k + 1))
        OBVIOUS
      <3>1. /\ List(blocks[k + 1])
            /\ HitCount(blocks[k + 1], f, v) = IF k + 1 \in one THEN 1 ELSE 0
        BY <1>1
      <3>2. CASE k = 0
        <4>1. flat[1] = blocks[1]
          BY <3>2, <2>2, <1>1
        <4>2. QED
          BY <3>1, <3>2, <4>1, <1>3, <1>4
      <3>3. CASE k # 0
        <4>0. k \in 1 .. n /\ k + 1 # 1 /\ (k + 1) - 1 = k
          BY <3>3, <1>1
        <4>1. flat[k + 1] = flat[k] \o blocks[k + 1]
          <5>1. flat[k + 1] = IF k + 1 = 1 THEN blocks[k + 1]
                              ELSE flat[(k + 1) - 1] \o blocks[k + 1]
            BY <2>2, Zenon
          <5>2. QED
            BY <4>0, <5>1
        <4>2. List(flat[k]) /\ HitCount(flat[k], f, v) = Cardinality(having(k))
          BY <4>0, <2>4
        <4>3. List(flat[k + 1])
          BY <4>1, <4>2, <3>1, Joined
        <4>4. HitCount(flat[k + 1], f, v)
              = HitCount(flat[k], f, v) + HitCount(blocks[k + 1], f, v)
          BY <4>1, <4>2, <3>1, HitsJoined
        <4>5. QED
          BY <4>2, <4>3, <4>4, <3>1, <1>4
      <3>4. QED
        BY <3>2, <3>3
    <2>5. n \in T
      BY <1>1, <2>3, <2>4, EveryNumber
    <2>6. {i \in DOMAIN list : i \in one} = having(n)
      BY <1>1 DEF having
    <2>7. QED
      BY <1>1, <1>6, <2>1, <2>5, <2>6
  <1>7. QED
    BY <1>5, <1>6

\* Of the blocks of a set's elements, in the order they are picked, only one has the
\* row, and the first list has not.
LEMMA JoinHits ==
    ASSUME NEW S, IsFiniteSet(S), NEW pick, Picks(pick, S),
           NEW base, List(base), NEW block, \A m \in S : List(block[m]),
           NEW f, JoinsWith(f, S, pick, base, block),
           NEW field, NEW v, HitCount(base, field, v) = 0,
           NEW x \in S, \A m \in S : m # x => HitCount(block[m], field, v) = 0
    PROVE  HitCount(f[S], field, v) = HitCount(block[x], field, v)
  <1> DEFINE Kept == {s \in SUBSET S :
                        /\ List(f[s])
                        /\ HitCount(f[s], field, v)
                            = IF x \in s THEN HitCount(block[x], field, v) ELSE 0}
  <1>0. HitCount(block[x], field, v) \in Nat
    BY HitsFinite
  <1>1. {} \in Kept
    BY DEF JoinsWith
  <1>2. ASSUME NEW s \in SUBSET S, s # {}, s \ {pick[s]} \in Kept
        PROVE  s \in Kept
    <2> DEFINE rest == s \ {pick[s]}
    <2>1. pick[s] \in s /\ pick[s] \in S
      BY <1>2 DEF Picks
    <2>2. /\ List(f[rest])
          /\ HitCount(f[rest], field, v)
              = IF x \in rest THEN HitCount(block[x], field, v) ELSE 0
      BY <1>2
    <2>3. f[s] = f[rest] \o block[pick[s]]
      BY <1>2 DEF JoinsWith
    <2>4. s = rest \cup {pick[s]} /\ pick[s] \notin rest
      BY <2>1
    <2> HIDE DEF rest
    <2>5. List(block[pick[s]])
      BY <2>1
    <2>6. List(f[s])
      BY <2>2, <2>3, <2>5, Joined
    <2>7. HitCount(f[s], field, v)
          = HitCount(f[rest], field, v) + HitCount(block[pick[s]], field, v)
      BY <2>2, <2>3, <2>5, HitsJoined
    <2>8. CASE pick[s] = x
      BY <1>0, <2>2, <2>4, <2>6, <2>7, <2>8
    <2>9. CASE pick[s] # x
      <3>1. HitCount(block[pick[s]], field, v) = 0
        BY <2>1, <2>9
      <3>2. QED
        BY <1>0, <2>2, <2>4, <2>6, <2>7, <2>9, <3>1
    <2>10. QED
      BY <2>8, <2>9
  <1> HIDE DEF Kept
  <1>3. S \in Kept
    BY <1>1, <1>2, FoldInduction
  <1>4. QED
    BY <1>3 DEF Kept

-----------------------------------------------------------------------------
(* The distinct elements of a list *)

\* What a loop keeps of a list.
LEMMA Filtered ==
    ASSUME NEW list, List(list), NEW keep, NEW blocks,
           blocks = [i \in DOMAIN list |-> IF list[i] \in keep THEN <<list[i]>> ELSE <<>>]
    PROVE  List(FlattenSeq(blocks)) /\ ToSet(FlattenSeq(blocks)) = ToSet(list) \cap keep
  <1>1. ASSUME NEW i \in DOMAIN list
        PROVE  List(blocks[i]) /\ ToSet(blocks[i]) = {list[i]} \cap keep
    BY NoRows, OneRow
  <1>2. blocks = [i \in DOMAIN list |-> blocks[i]]
    OBVIOUS
  <1>3. /\ List(FlattenSeq(blocks))
        /\ \A r : r \in ToSet(FlattenSeq(blocks))
                  <=> \E i \in DOMAIN list : r \in ToSet(blocks[i])
    BY <1>1, <1>2, Blocks
  <1>4. ASSUME NEW r
        PROVE  r \in ToSet(FlattenSeq(blocks)) <=> r \in ToSet(list) /\ r \in keep
    <2>1. r \in ToSet(list) <=> \E i \in DOMAIN list : r = list[i]
      BY DEF ToSet
    <2>2. \A i \in DOMAIN list : r \in ToSet(blocks[i]) <=> r = list[i] /\ r \in keep
      BY <1>1
    <2>3. r \in ToSet(FlattenSeq(blocks)) <=> \E i \in DOMAIN list : r \in ToSet(blocks[i])
      BY <1>3
    <2>4. r \in ToSet(FlattenSeq(blocks)) <=> \E i \in DOMAIN list : r = list[i] /\ r \in keep
      BY ONLY <2>2, <2>3, Zenon
    <2>5. QED
      BY <2>1, <2>4
  <1>5. QED
    BY <1>3, <1>4

LEMMA NoElement ==
    ASSUME NEW s, List(s)
    PROVE  /\ s = <<>> <=> ToSet(s) = {}
           /\ Len(s) > 0 <=> ToSet(s) # {}
  BY DEF List, ToSet

\* The greatest of some positions.
LEMMA LastPosition ==
    ASSUME NEW n \in Nat, NEW s \in SUBSET (1 .. n), s # {}
    PROVE  Max(s) \in s /\ \A y \in s : y <= Max(s)
  <1> DEFINE T == {k \in 0 .. n : n - k \in s}
  <1>1. ASSUME NEW y \in s PROVE y \in 1 .. n /\ n - y \in T
    OBVIOUS
  <1>2. T \in SUBSET Nat /\ T # {}
    <2>1. T \in SUBSET Nat
      OBVIOUS
    <2>2. PICK y \in s : TRUE
      OBVIOUS
    <2>3. n - y \in T
      BY <1>1, <2>2
    <2>4. QED
      BY <2>1, <2>3
  <1>3. PICK k \in T : \A m \in T : k <= m
    BY <1>2, NoLeast
  <1>4. n - k \in s /\ \A y \in s : n - k >= y
    BY <1>1, <1>3
  <1>5. QED
    BY <1>4 DEF Max

\* The list without its repeats, as a loop that asks a set of those seen gives it.
Added(seen, e) == IF Contains(seen, e) THEN seen ELSE Append(seen, e)

LEMMA AddedOne ==
    ASSUME NEW seen, List(seen), IsFiniteSet(ToSet(seen)), Len(seen) = Cardinality(ToSet(seen)),
           NEW e
    PROVE  /\ List(Added(seen, e)) /\ ToSet(Added(seen, e)) = ToSet(seen) \cup {e}
           /\ IsFiniteSet(ToSet(Added(seen, e)))
           /\ Len(Added(seen, e)) = Cardinality(ToSet(Added(seen, e)))
  <1>1. Contains(seen, e) <=> e \in ToSet(seen)
    BY Positions DEF Contains, ToSet
  <1>2. CASE e \in ToSet(seen)
    BY <1>1, <1>2 DEF Added
  <1>3. CASE e \notin ToSet(seen)
    <2>1. Added(seen, e) = Append(seen, e)
      BY <1>1, <1>3 DEF Added
    <2>2. /\ List(Append(seen, e)) /\ ToSet(Append(seen, e)) = ToSet(seen) \cup {e}
          /\ Len(Append(seen, e)) = Len(seen) + 1
      <3>1. Append(seen, e) = seen \o <<e>>
        BY AppendIsConcat DEF List
      <3>2. List(<<e>>) /\ ToSet(<<e>>) = {e}
        BY OneRow
      <3>3. List(seen \o <<e>>) /\ ToSet(seen \o <<e>>) = ToSet(seen) \cup {e}
        BY <3>2, Joined
      <3>4. Len(Append(seen, e)) = Len(seen) + 1
        <4>1. seen \in Seq(ToSet(seen) \cup {e})
          BY SeqMonotonic DEF List
        <4>2. QED
          BY <4>1, AppendProperties
      <3>5. QED
        BY <3>1, <3>3, <3>4
    <2>3. /\ IsFiniteSet(ToSet(seen) \cup {e})
          /\ Cardinality(ToSet(seen) \cup {e}) = Cardinality(ToSet(seen)) + 1
      BY <1>3, FS_AddElement
    <2>4. QED
      BY <2>1, <2>2, <2>3
  <1>4. QED
    BY <1>2, <1>3

LEMMA DistinctExists ==
    ASSUME NEW list, List(list)
    PROVE  \E f : /\ f = [s \in SUBSET DOMAIN list |-> f[s]]
                  /\ \A s \in SUBSET DOMAIN list :
                        f[s] = IF s = {} THEN <<>> ELSE Added(f[s \ {Max(s)}], list[Max(s)])
  <1> DEFINE S == DOMAIN list
             A == Seq(ToSet(list))
             pick == [s \in SUBSET S |-> Max(s)]
             step == [p \in S \X A |-> Added(p[2], list[p[1]])]
  <1>1. S = 1 .. Len(list) /\ Len(list) \in Nat /\ IsFiniteSet(S)
    BY Positions, FS_Interval
  <1>2. Picks(pick, S)
    BY <1>1, LastPosition DEF Picks
  <1>3. step \in [S \X A -> A]
    <2>1. ASSUME NEW p \in S \X A PROVE Added(p[2], list[p[1]]) \in A
      BY Positions, AppendProperties DEF Added
    <2>2. QED
      BY <2>1
  <1>4. ASSUME NEW m \in S, NEW t \in A PROVE step[<<m, t>>] = Added(t, list[m])
    OBVIOUS
  <1>5. <<>> \in A /\ \A s \in SUBSET S : pick[s] = Max(s)
    OBVIOUS
  <1> HIDE DEF step, A, pick, S
  <1>6. PICK f \in [SUBSET S -> A] : FoldsWith(f, S, pick, <<>>, step)
    BY <1>1, <1>2, <1>3, <1>5, FoldExists
  <1>7. ASSUME NEW s \in SUBSET S
        PROVE  f[s] = IF s = {} THEN <<>> ELSE Added(f[s \ {Max(s)}], list[Max(s)])
    <2>1. CASE s = {}
      BY <1>6, <2>1 DEF FoldsWith
    <2>2. CASE s # {}
      <3>1. pick[s] \in S /\ f[s \ {pick[s]}] \in A
        BY <2>2, <1>2, <1>6 DEF Picks
      <3>2. QED
        BY <3>1, <2>2, <1>4, <1>5, <1>6 DEF FoldsWith
    <2>3. QED
      BY <2>1, <2>2
  <1>8. f = [s \in SUBSET S |-> f[s]]
    BY <1>6
  <1>9. QED
    BY <1>7, <1>8, Zenon DEF S

LEMMA DistinctInduction ==
    ASSUME NEW list, List(list),
           NEW f, \A s \in SUBSET DOMAIN list :
                    f[s] = IF s = {} THEN <<>> ELSE Added(f[s \ {Max(s)}], list[Max(s)])
    PROVE  LET seen == f[DOMAIN list]
           IN  /\ List(seen) /\ ToSet(seen) = ToSet(list)
               /\ IsFiniteSet(ToSet(list)) /\ Len(seen) = Cardinality(ToSet(list))
  <1> DEFINE S == DOMAIN list
             Of(s) == {list[i] : i \in s}
             Good(t) == List(t) /\ IsFiniteSet(ToSet(t)) /\ Len(t) = Cardinality(ToSet(t))
             Kept == {s \in SUBSET S : Good(f[s]) /\ ToSet(f[s]) = Of(s)}
             pick == [s \in SUBSET S |-> Max(s)]
  <1>1. S = 1 .. Len(list) /\ Len(list) \in Nat /\ IsFiniteSet(S)
    BY Positions, FS_Interval
  <1>2. Picks(pick, S) /\ \A s \in SUBSET S : pick[s] = Max(s)
    BY <1>1, LastPosition DEF Picks
  <1>3. {} \in Kept
    <2>1. f[{}] = <<>> /\ List(<<>>) /\ ToSet(<<>>) = {} /\ Of({}) = {}
      BY NoRows
    <2>2. IsFiniteSet({}) /\ Cardinality({}) = 0
      BY FS_EmptySet
    <2>3. QED
      BY <2>1, <2>2
  <1> HIDE DEF pick
  <1>4. ASSUME NEW s \in SUBSET S, s # {}, s \ {pick[s]} \in Kept
        PROVE  s \in Kept
    <2> DEFINE rest == s \ {pick[s]}
               e == list[pick[s]]
    <2>1. pick[s] \in s /\ rest \in SUBSET S /\ s = rest \cup {pick[s]}
      BY <1>2, <1>4 DEF Picks
    <2>2. f[s] = Added(f[rest], e)
      BY <1>2, <1>4
    <2>3. Good(f[rest]) /\ ToSet(f[rest]) = Of(rest)
      BY <1>4
    <2> HIDE DEF rest
    <2>4. Of(s) = Of(rest) \cup {e}
      BY <2>1
    <2> HIDE DEF e, Of
    <2>5. Good(f[s]) /\ ToSet(f[s]) = ToSet(f[rest]) \cup {e}
      BY <2>2, <2>3, AddedOne
    <2>6. QED
      BY <2>3, <2>4, <2>5
  <1> HIDE DEF Kept
  <1>5. S \in Kept
    BY <1>1, <1>2, <1>3, <1>4, FoldInduction
  <1>6. Of(S) = ToSet(list)
    BY DEF ToSet
  <1>7. QED
    BY <1>5, <1>6 DEF Kept

LEMMA Distinct ==
    ASSUME NEW list, List(list)
    PROVE  LET seen == FoldLeft(LAMBDA s, e : IF Contains(s, e) THEN s ELSE Append(s, e), <<>>, list)
           IN  /\ List(seen) /\ ToSet(seen) = ToSet(list)
               /\ IsFiniteSet(ToSet(list)) /\ Len(seen) = Cardinality(ToSet(list))
  <1> DEFINE S == DOMAIN list
             Made(f) == f = [s \in SUBSET S |->
                IF s = {} THEN <<>>
                ELSE IF Contains(f[s \ {Max(s)}], list[Max(s)]) THEN f[s \ {Max(s)}]
                     ELSE Append(f[s \ {Max(s)}], list[Max(s)])]
             iter == CHOOSE f : Made(f)
  <1>1. FoldLeft(LAMBDA s, e : IF Contains(s, e) THEN s ELSE Append(s, e), <<>>, list) = iter[S]
    BY Zenon DEF FoldLeft, MapThenFoldSet
  <1>2. ASSUME NEW f, f = [s \in SUBSET S |-> f[s]],
               \A s \in SUBSET S :
                  f[s] = IF s = {} THEN <<>> ELSE Added(f[s \ {Max(s)}], list[Max(s)])
        PROVE  Made(f)
    BY <1>2 DEF Added
  <1>3. \E f : Made(f)
    <2> HIDE DEF Made
    <2>1. QED
      BY <1>2, DistinctExists, Zenon
  <1>4. Made(iter)
    <2> HIDE DEF Made
    <2>1. QED
      BY <1>3
  <1>5. ASSUME NEW f, Made(f), NEW s \in SUBSET S
        PROVE  f[s] = IF s = {} THEN <<>> ELSE Added(f[s \ {Max(s)}], list[Max(s)])
    BY <1>5, Zenon DEF Added
  <1> HIDE DEF Made, iter
  <1>6. \A s \in SUBSET S :
            iter[s] = IF s = {} THEN <<>> ELSE Added(iter[s \ {Max(s)}], list[Max(s)])
    BY <1>4, <1>5
  <1>7. QED
    BY <1>1, <1>6, DistinctInduction
=============================================================================
