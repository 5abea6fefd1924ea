--------------------------- MODULE IntervalProofs ---------------------------
(***************************************************************************)
(* The interval arithmetic does what it should, for any finite sets of     *)
(* intervals: merging keeps the instants and leaves gaps between what it   *)
(* returns, subtracting takes away exactly the instants excluded, and the  *)
(* slots are exactly the starts that can be worked.                        *)
(*                                                                         *)
(* The folds of the model are CHOOSEn to satisfy their recursive           *)
(* equations; FoldExists shows that something does, and what holds of      *)
(* their values is shown by induction on the subset folded over.           *)
(***************************************************************************)
EXTENDS Intervals, SequenceTheorems, FiniteSetTheorems, WellFoundedInduction, TLAPS

-----------------------------------------------------------------------------
(***************************************************************************)
(* Induction, with the set of what satisfies a property for the property.  *)
(***************************************************************************)

\* A set of naturals with 0, and with each number the next, is all of them.
LEMMA Induction ==
  ASSUME NEW P \in SUBSET Nat, 0 \in P, \A n \in P : n + 1 \in P
  PROVE  P = Nat
<1> DEFINE T == Nat \ P
           R == OpToRel(<, Nat)
<1>1. SUFFICES ASSUME T # {}
               PROVE  FALSE
  OBVIOUS
<1>2. PICK m \in T : \A n \in T : <<n, m>> \notin R
  <2>1. IsWellFoundedOn(R, Nat)
    BY NatLessThanWellFounded
  <2> HIDE DEF R
  <2> QED
    BY <1>1, <2>1, WFMin
<1>3. \A n \in T : ~(n < m)
  BY <1>2 DEF OpToRel
<1>4. m # 0 /\ m - 1 \in Nat
  OBVIOUS
<1>5. m - 1 \in P
  BY <1>3, <1>4
<1>6. (m - 1) + 1 \in P
  BY <1>5
<1> QED
  BY <1>6

\* A set of subsets of a finite set that has the empty one, and each that has an element
\* without which it is there, is all of them.
LEMMA SubsetInduction ==
  ASSUME NEW S, IsFiniteSet(S), NEW P \in SUBSET (SUBSET S), {} \in P,
         \A U \in SUBSET S : U # {} => \E x \in U : U \ {x} \in P => U \in P
  PROVE  P = SUBSET S
<1> DEFINE Q == {n \in Nat : \A U \in SUBSET S : Cardinality(U) = n => U \in P}
<1>1. \A U \in SUBSET S : IsFiniteSet(U) /\ Cardinality(U) \in Nat
  BY FS_Subset, FS_CardinalityType
<1>2. 0 \in Q
  BY <1>1, FS_EmptySet
<1>3. ASSUME NEW n \in Q
      PROVE  n + 1 \in Q
  <2>1. SUFFICES ASSUME NEW U \in SUBSET S, Cardinality(U) = n + 1
                 PROVE  U \in P
    OBVIOUS
  <2>2. U # {}
    BY <2>1, FS_EmptySet
  <2>3. PICK x \in U : U \ {x} \in P => U \in P
    BY <2>2
  <2>4. Cardinality(U \ {x}) = n
    <3>1. IsFiniteSet(U) /\ n \in Nat
      BY <1>1
    <3>2. Cardinality(U \ {x}) = Cardinality(U) - 1
      BY <2>3, <3>1, FS_RemoveElement
    <3> QED
      BY <2>1, <3>1, <3>2
  <2> QED
    BY <2>3, <2>4
<1>4. Q = Nat
  <2> HIDE DEF Q
  <2>1. Q \in SUBSET Nat
    BY DEF Q
  <2> QED
    BY <1>2, <1>3, <2>1, Induction
<1> QED
  BY <1>1, <1>4

\* A finite set has an element where a function is greatest.
LEMMA GreatestOf ==
  ASSUME NEW S, IsFiniteSet(S), S # {}, NEW f \in [S -> Int]
  PROVE  \E x \in S : \A y \in S : f[y] <= f[x]
<1> DEFINE P == {U \in SUBSET S : U # {} => \E x \in U : \A y \in U : f[y] <= f[x]}
<1>1. {} \in P
  OBVIOUS
<1>2. ASSUME NEW U \in SUBSET S, U # {}
      PROVE  \E x \in U : U \ {x} \in P => U \in P
  <2>1. PICK x \in U : TRUE
    BY <1>2
  <2>2. ASSUME U \ {x} \in P
        PROVE  U \in P
    <3>1. CASE U \ {x} = {}
      <4>1. \A y \in U : f[y] <= f[x]
        BY <3>1
      <4> QED
        BY <4>1
    <3>2. CASE U \ {x} # {}
      <4>1. PICK z \in U \ {x} : \A y \in U \ {x} : f[y] <= f[z]
        BY <2>2, <3>2
      <4>2. CASE f[x] <= f[z]
        <5>1. \A y \in U : f[y] <= f[z]
          BY <4>1, <4>2
        <5> QED
          BY <5>1
      <4>3. CASE ~(f[x] <= f[z])
        <5>1. \A y \in U : f[y] <= f[x]
          BY <4>1, <4>3
        <5> QED
          BY <5>1
      <4> QED
        BY <4>2, <4>3
    <3> QED
      BY <3>1, <3>2
  <2> QED
    BY <2>1, <2>2
<1>3. P = SUBSET S
  <2> HIDE DEF P
  <2>1. P \in SUBSET (SUBSET S)
    BY DEF P
  <2> QED
    BY <1>1, <1>2, <2>1, SubsetInduction
<1>4. S \in P
  BY <1>3
<1> QED
  BY <1>4

LEMMA GreatestIndex ==
  ASSUME NEW n \in Nat, NEW S \in SUBSET (1 .. n), S # {}
  PROVE  Max(S) \in S /\ \A y \in S : y <= Max(S)
<1> DEFINE f == [x \in S |-> x]
<1>1. IsFiniteSet(S)
  <2>1. IsFiniteSet(1 .. n)
    BY FS_Interval
  <2> QED
    BY <2>1, FS_Subset
<1>2. f \in [S -> Int]
  OBVIOUS
<1> HIDE DEF f
<1>3. PICK x \in S : \A y \in S : f[y] <= f[x]
  BY <1>1, <1>2, GreatestOf
<1>4. \A y \in S : x >= y
  BY <1>3 DEF f
<1>5. Max(S) \in S /\ \A y \in S : Max(S) >= y
  BY <1>4 DEF Max
<1> QED
  BY <1>5

-----------------------------------------------------------------------------
(***************************************************************************)
(* Folds.                                                                  *)
(***************************************************************************)

\* The equation of a fold over S: pick says which element of a subset is folded last.
FoldsOver(h, S, base, step, pick) ==
  \A U \in SUBSET S :
    h[U] = IF U = {} THEN base ELSE step[<<h[U \ {pick[U]}], pick[U]>>]

\* A function satisfies it, when the values Acc are closed under the step.
LEMMA FoldExists ==
  ASSUME NEW S, IsFiniteSet(S), NEW Acc, NEW base \in Acc, NEW step \in [Acc \X S -> Acc],
         NEW pick \in [SUBSET S -> S \cup {{}}],
         \A U \in SUBSET S : U # {} => pick[U] \in U
  PROVE  \E h \in [SUBSET S -> Acc] : FoldsOver(h, S, base, step, pick)
<1> DEFINE Turn(h, U) == IF U = {} THEN base ELSE step[<<h[U \ {pick[U]}], pick[U]>>]
           Q == {k \in Nat : \E h \in [SUBSET S -> Acc] :
                   \A U \in SUBSET S : Cardinality(U) <= k => h[U] = Turn(h, U)}
<1>1. \A U \in SUBSET S : IsFiniteSet(U) /\ Cardinality(U) \in Nat
  BY FS_Subset, FS_CardinalityType
<1>2. \A h \in [SUBSET S -> Acc] : \A U \in SUBSET S : Turn(h, U) \in Acc
  <2> SUFFICES ASSUME NEW h \in [SUBSET S -> Acc], NEW U \in SUBSET S, U # {}
               PROVE  step[<<h[U \ {pick[U]}], pick[U]>>] \in Acc
    OBVIOUS
  <2>1. h[U \ {pick[U]}] \in Acc /\ pick[U] \in S
    OBVIOUS
  <2> QED
    BY <2>1
<1>3. 0 \in Q
  <2> DEFINE h == [U \in SUBSET S |-> base]
  <2>1. h \in [SUBSET S -> Acc]
    OBVIOUS
  <2>2. \A U \in SUBSET S : Cardinality(U) <= 0 => U = {}
    BY <1>1, FS_EmptySet
  <2>3. \A U \in SUBSET S : Cardinality(U) <= 0 => h[U] = Turn(h, U)
    BY <2>2
  <2> QED
    BY <2>1, <2>3
<1>4. ASSUME NEW k \in Q
      PROVE  k + 1 \in Q
  <2>1. PICK h \in [SUBSET S -> Acc] :
          \A U \in SUBSET S : Cardinality(U) <= k => h[U] = Turn(h, U)
    OBVIOUS
  <2> DEFINE g == [U \in SUBSET S |-> Turn(h, U)]
  <2>2. g \in [SUBSET S -> Acc]
    BY <1>2
  <2>3. \A U \in SUBSET S : Cardinality(U) <= k => g[U] = h[U]
    BY <2>1
  <2>4. ASSUME NEW U \in SUBSET S, Cardinality(U) <= k + 1
        PROVE  g[U] = Turn(g, U)
    <3>1. CASE U = {}
      BY <3>1
    <3>2. CASE U # {}
      <4> DEFINE V == U \ {pick[U]}
      <4>1. V \in SUBSET S /\ Cardinality(V) = Cardinality(U) - 1
        BY <1>1, <3>2, FS_RemoveElement
      <4>2. Cardinality(V) <= k
        BY <1>1, <2>4, <4>1
      <4>3. g[V] = h[V]
        BY <2>3, <4>1, <4>2
      <4>4. g[U] = step[<<h[V], pick[U]>>]
        BY <3>2
      <4> QED
        BY <3>2, <4>3, <4>4
    <3> QED
      BY <3>1, <3>2
  <2> HIDE DEF g
  <2>5. k + 1 \in Nat
    OBVIOUS
  <2> QED
    BY <2>2, <2>4, <2>5
<1>5. Q = Nat
  <2> HIDE DEF Q
  <2>1. Q \in SUBSET Nat
    BY DEF Q
  <2> QED
    BY <1>3, <1>4, <2>1, Induction
<1>6. Cardinality(S) \in Nat
  BY FS_CardinalityType
<1>7. PICK h \in [SUBSET S -> Acc] :
        \A U \in SUBSET S : Cardinality(U) <= Cardinality(S) => h[U] = Turn(h, U)
  BY <1>5, <1>6
<1>8. \A U \in SUBSET S : h[U] = Turn(h, U)
  BY <1>7, FS_Subset
<1> QED
  BY <1>8 DEF FoldsOver

-----------------------------------------------------------------------------
(***************************************************************************)
(* Merging.                                                                *)
(***************************************************************************)

Spaces   == [start : Int, end : Int]
Interval == {x \in Spaces : x.start < x.end}

Covers(S, t) == \E x \in S : x.start <= t /\ t < x.end

LEMMA InstantsCovered ==
  ASSUME NEW S \in SUBSET Spaces
  PROVE  Instants(S) = {t \in Int : Covers(S, t)}
<1>1. ASSUME NEW t \in Instants(S)
      PROVE  t \in Int /\ Covers(S, t)
  <2>1. PICK x \in S : t \in x.start .. x.end - 1
    BY DEF Instants
  <2>2. x.start \in Int /\ x.end \in Int
    BY DEF Spaces
  <2> QED
    BY <2>1, <2>2 DEF Covers
<1>2. ASSUME NEW t \in Int, Covers(S, t)
      PROVE  t \in Instants(S)
  <2>1. PICK x \in S : x.start <= t /\ t < x.end
    BY <1>2 DEF Covers
  <2>2. x.start \in Int /\ x.end \in Int
    BY DEF Spaces
  <2>3. t \in x.start .. x.end - 1
    BY <2>1, <2>2
  <2> QED
    BY <2>3 DEF Instants
<1> QED
  BY <1>1, <1>2

LEMMA LatestOf ==
  ASSUME NEW S \in SUBSET Interval, IsFiniteSet(S), S # {}
  PROVE  Latest(S) \in S /\ \A y \in S : y.start <= Latest(S).start
<1> DEFINE f == [x \in S |-> x.start]
<1>1. f \in [S -> Int]
  BY DEF Interval, Spaces
<1> HIDE DEF f
<1>2. PICK x \in S : \A y \in S : f[y] <= f[x]
  BY <1>1, GreatestOf
<1>3. \A y \in S : y.start <= x.start
  BY <1>2 DEF f
<1> QED
  BY <1>3 DEF Latest

\* merged covers what U covers, in order and with gaps between, and its last interval does
\* not start after those of U.
Merges(merged, U) ==
  /\ merged \in Seq(Interval)
  /\ \A i, j \in DOMAIN merged : i < j => merged[i].end < merged[j].start
  /\ \A t \in Int : Covers(Range(merged), t) <=> Covers(U, t)
  /\ merged # <<>> => \E y \in U : Last(merged).start <= y.start

LEMMA AbsorbType ==
  ASSUME NEW merged \in Seq(Interval), NEW x \in Interval
  PROVE  Absorb(merged, x) \in Seq(Interval)
<1>1. CASE merged # <<>> /\ Touches(Last(merged), x)
  <2> DEFINE n == Len(merged)
             last == [merged[n] EXCEPT !.end = Greatest(@, x.end)]
  <2>1. n \in DOMAIN merged /\ merged[n] \in Interval
    BY <1>1
  <2>2. last \in Interval
    BY <2>1 DEF Interval, Spaces, Greatest
  <2>3. Absorb(merged, x) = [merged EXCEPT ![n] = last]
    BY <1>1, <2>1 DEF Absorb
  <2> HIDE DEF last
  <2>4. [merged EXCEPT ![n] = last] \in Seq(Interval)
    BY <2>1, <2>2, ExceptSeq
  <2> QED
    BY <2>3, <2>4
<1>2. CASE ~(merged # <<>> /\ Touches(Last(merged), x))
  BY <1>2 DEF Absorb
<1> QED
  BY <1>1, <1>2

LEMMA AbsorbMerges ==
  ASSUME NEW V \in SUBSET Interval, NEW x \in Interval, \A y \in V : y.start <= x.start,
         NEW merged, Merges(merged, V)
  PROVE  Merges(Absorb(merged, x), V \cup {x})
<1> DEFINE n == Len(merged)
           next == Absorb(merged, x)
<1>1. /\ n \in Nat /\ DOMAIN merged = 1 .. n /\ \A i \in 1 .. n : merged[i] \in Interval
      /\ x.start \in Int /\ x.end \in Int /\ x.start < x.end
      /\ merged # <<>> => n \in 1 .. n /\ Last(merged) = merged[n]
  BY DEF Merges, Interval, Spaces, Last
<1>2. \A i \in 1 .. n : merged[i].start \in Int /\ merged[i].end \in Int
                         /\ merged[i].start < merged[i].end
  BY <1>1 DEF Interval, Spaces
<1>3. next \in Seq(Interval)
  BY AbsorbType DEF Merges
<1>4. CASE merged # <<>> /\ Touches(Last(merged), x)
  <2> DEFINE last == [merged[n] EXCEPT !.end = Greatest(@, x.end)]
  <2>1. n \in 1 .. n /\ Last(merged) = merged[n]
    BY <1>1, <1>4
  <2>2. /\ last.start = merged[n].start
        /\ last.end = Greatest(merged[n].end, x.end)
    BY <1>1, <2>1 DEF Interval, Spaces
  <2>3. next = [merged EXCEPT ![n] = last]
    BY <1>1, <1>4, <2>1 DEF Absorb
  <2>4. /\ DOMAIN next = 1 .. n /\ Len(next) = n /\ next[n] = last
        /\ \A i \in 1 .. n : i # n => next[i] = merged[i]
    BY <1>1, <2>1, <2>3 DEF Merges
  <2>5. merged[n].start <= x.start /\ x.start <= merged[n].end
    <3>1. PICK y \in V : Last(merged).start <= y.start
      BY <1>4 DEF Merges
    <3>2. y.start \in Int /\ y.start <= x.start
      BY DEF Interval, Spaces
    <3>3. x.start <= merged[n].end
      BY <1>4, <2>1 DEF Touches
    <3> QED
      BY <1>1, <1>2, <2>1, <3>1, <3>2, <3>3
  <2> HIDE DEF last, next
  <2>6. \A i, j \in DOMAIN next : i < j => next[i].end < next[j].start
    <3> SUFFICES ASSUME NEW i \in 1 .. n, NEW j \in 1 .. n, i < j
                 PROVE  next[i].end < next[j].start
      BY <2>4
    <3>1. merged[i].end < merged[j].start
      BY <1>1 DEF Merges
    <3>2. next[i] = merged[i]
      <4>1. i # n
        <5>1. n \in Nat
          BY <1>1
        <5> HIDE DEF n
        <5> QED
          BY <5>1
      <4> QED
        BY <2>4, <4>1
    <3>3. next[j].start = merged[j].start
      BY <2>2, <2>4
    <3> QED
      BY <3>1, <3>2, <3>3
  <2>7. ASSUME NEW t \in Int
        PROVE  Covers(Range(next), t) <=> Covers(V \cup {x}, t)
    <3>1. /\ Covers(Range(next), t) <=> \E i \in 1 .. n : next[i].start <= t /\ t < next[i].end
          /\ Covers(Range(merged), t) <=> \E i \in 1 .. n : merged[i].start <= t /\ t < merged[i].end
      BY <1>1, <2>4 DEF Covers, Range
    <3>2. /\ Covers(V \cup {x}, t) <=> Covers(V, t) \/ (x.start <= t /\ t < x.end)
          /\ Covers(V, t) <=> Covers(Range(merged), t)
      BY DEF Covers, Merges
    <3>3. (next[n].start <= t /\ t < next[n].end) <=>
            \/ merged[n].start <= t /\ t < merged[n].end
            \/ x.start <= t /\ t < x.end
      <4>1. next[n].start = merged[n].start /\ next[n].end = Greatest(merged[n].end, x.end)
        BY <2>2, <2>4
      <4>2. merged[n].start \in Int /\ merged[n].end \in Int /\ x.start \in Int /\ x.end \in Int
        BY <1>1, <1>2, <2>1
      <4> QED
        BY <2>5, <4>1, <4>2 DEF Greatest
    <3> QED
      BY <2>1, <2>4, <3>1, <3>2, <3>3
  <2>8. \E y \in V \cup {x} : Last(next).start <= y.start
    <3>1. Last(next) = next[n] /\ next[n].start = merged[n].start
      BY <2>2, <2>4 DEF Last
    <3> QED
      BY <2>5, <3>1
  <2> QED
    BY <1>3, <2>6, <2>7, <2>8 DEF Merges, next
<1>5. CASE ~(merged # <<>> /\ Touches(Last(merged), x))
  <2>1. next = Append(merged, x) /\ merged \in Seq(Interval)
    BY <1>5 DEF Absorb, Merges
  <2>2. /\ DOMAIN next = 1 .. n + 1 /\ Len(next) = n + 1 /\ next[n + 1] = x
        /\ \A i \in 1 .. n : next[i] = merged[i]
    BY <1>1, <2>1
  <2> HIDE DEF next
  <2>3. \A i \in 1 .. n : merged[i].end < x.start
    <3> SUFFICES ASSUME NEW i \in 1 .. n
                 PROVE  merged[i].end < x.start
      OBVIOUS
    <3>1. n \in 1 .. n /\ merged[n].end < x.start
      <4>1. merged # <<>> /\ Last(merged) = merged[n] /\ n \in 1 .. n
        BY <1>1
      <4>2. ~(x.start <= merged[n].end)
        BY <1>5, <4>1 DEF Touches
      <4> QED
        BY <1>1, <1>2, <4>1, <4>2
    <3>2. i < n => merged[i].end < merged[n].start
      BY <1>1, <3>1 DEF Merges
    <3>3. i = n \/ i < n
      <4>1. n \in Nat
        BY <1>1
      <4> HIDE DEF n
      <4> QED
        BY <4>1
    <3>4. CASE i < n
      <4>1. /\ merged[i].end \in Int /\ merged[n].start \in Int /\ merged[n].end \in Int
            /\ merged[n].start < merged[n].end
        BY <1>2, <3>1
      <4> QED
        BY <1>1, <3>1, <3>2, <3>4, <4>1
    <3> QED
      BY <3>1, <3>3, <3>4
  <2>4. \A i, j \in DOMAIN next : i < j => next[i].end < next[j].start
    <3> SUFFICES ASSUME NEW i \in 1 .. n + 1, NEW j \in 1 .. n + 1, i < j
                 PROVE  next[i].end < next[j].start
      BY <2>2
    <3>1. i \in 1 .. n
      BY <1>1
    <3>2. CASE j = n + 1
      BY <2>2, <2>3, <3>1, <3>2
    <3>3. CASE j \in 1 .. n
      BY <1>1, <2>2, <3>1, <3>3 DEF Merges
    <3> QED
      BY <1>1, <3>2, <3>3
  <2>5. ASSUME NEW t \in Int
        PROVE  Covers(Range(next), t) <=> Covers(V \cup {x}, t)
    <3>1. /\ Covers(Range(next), t) <=>
               \E i \in 1 .. n + 1 : next[i].start <= t /\ t < next[i].end
          /\ Covers(Range(merged), t) <=> \E i \in 1 .. n : merged[i].start <= t /\ t < merged[i].end
      BY <1>1, <2>2 DEF Covers, Range
    <3>2. /\ Covers(V \cup {x}, t) <=> Covers(V, t) \/ (x.start <= t /\ t < x.end)
          /\ Covers(V, t) <=> Covers(Range(merged), t)
      BY DEF Covers, Merges
    <3>3. \A i : i \in 1 .. n + 1 <=> i \in 1 .. n \/ i = n + 1
      BY <1>1
    <3> QED
      BY <2>2, <3>1, <3>2, <3>3
  <2>6. \E y \in V \cup {x} : Last(next).start <= y.start
    <3>1. Last(next) = x
      BY <2>2 DEF Last
    <3> QED
      BY <1>1, <3>1
  <2> QED
    BY <1>3, <2>4, <2>5, <2>6 DEF Merges, next
<1> QED
  BY <1>4, <1>5

\* merge_intervals, of any finite set: sorted, with gaps in between, and of the same instants.
LEMMA Merged ==
  ASSUME NEW S \in SUBSET Interval, IsFiniteSet(S)
  PROVE  Merges(MergeIntervals(S), S)
<1> DEFINE Acc == Seq(Interval)
           Solves(h) == h = [U \in SUBSET S |-> IF U = {} THEN <<>>
                               ELSE Absorb(h[U \ {Latest(U)}], Latest(U))]
<1>1. \A U \in SUBSET S : /\ IsFiniteSet(U) /\ U \in SUBSET Interval
                          /\ U # {} => /\ Latest(U) \in U
                                       /\ \A y \in U : y.start <= Latest(U).start
  BY FS_Subset, LatestOf
<1>2. \E h : Solves(h)
  <2> DEFINE step == [a \in Acc \X S |-> Absorb(a[1], a[2])]
             pick == [U \in SUBSET S |-> IF U = {} THEN {} ELSE Latest(U)]
  <2>1. step \in [Acc \X S -> Acc]
    BY AbsorbType
  <2>2. \A m \in Acc, x \in S : step[<<m, x>>] = Absorb(m, x)
    OBVIOUS
  <2>3. pick \in [SUBSET S -> S \cup {{}}]
    BY <1>1
  <2>4. \A U \in SUBSET S : U # {} => pick[U] = Latest(U) /\ pick[U] \in U
    BY <1>1
  <2>5. <<>> \in Acc
    OBVIOUS
  <2> HIDE DEF step, pick, Acc
  <2>6. \A U \in SUBSET S : U # {} => pick[U] \in U
    BY <2>4
  <2>7. PICK h \in [SUBSET S -> Acc] : FoldsOver(h, S, <<>>, step, pick)
    BY <2>1, <2>3, <2>5, <2>6, FoldExists
  <2>8. ASSUME NEW U \in SUBSET S, U # {}
        PROVE  h[U] = Absorb(h[U \ {Latest(U)}], Latest(U))
    <3>1. pick[U] = Latest(U) /\ Latest(U) \in S
      BY <2>4, <2>8
    <3>2. h[U \ {Latest(U)}] \in Acc
      BY <2>7
    <3>3. h[U] = step[<<h[U \ {pick[U]}], pick[U]>>]
      BY <2>7, <2>8 DEF FoldsOver
    <3> QED
      BY <2>2, <3>1, <3>2, <3>3
  <2>9. h[{}] = <<>>
    BY <2>7 DEF FoldsOver
  <2>10. h = [U \in SUBSET S |-> IF U = {} THEN <<>>
                ELSE Absorb(h[U \ {Latest(U)}], Latest(U))]
    BY <2>7, <2>8, <2>9
  <2> QED
    BY <2>10
<1>3. PICK h : Solves(h) /\ MergeIntervals(S) = h[S]
  <2> DEFINE h == CHOOSE g : Solves(g)
  <2>1. Solves(h)
    BY <1>2
  <2>2. MergeIntervals(S) = h[S]
    BY DEF MergeIntervals, MapThenFoldSet
  <2> QED
    BY <2>1, <2>2
<1> DEFINE P == {U \in SUBSET S : Merges(h[U], U)}
<1>4. {} \in P
  <2>1. h[{}] = <<>>
    BY <1>3
  <2>2. Merges(<<>>, {})
    BY DEF Merges, Covers, Range
  <2> QED
    BY <2>1, <2>2
<1>5. ASSUME NEW U \in SUBSET S, U # {}
      PROVE  \E x \in U : U \ {x} \in P => U \in P
  <2> DEFINE x == Latest(U)
             V == U \ {x}
  <2>1. x \in U /\ x \in Interval /\ V \in SUBSET Interval /\ \A y \in V : y.start <= x.start
    BY <1>1, <1>5
  <2>2. h[U] = Absorb(h[V], x)
    BY <1>3, <1>5
  <2> HIDE DEF x
  <2>3. ASSUME Merges(h[V], V)
        PROVE  Merges(h[U], U)
    <3>1. U = V \cup {x}
      BY <2>1
    <3> HIDE DEF V
    <3>2. Merges(Absorb(h[V], x), V \cup {x})
      BY <2>1, <2>3, AbsorbMerges
    <3> QED
      BY <2>2, <3>1, <3>2
  <2> QED
    BY <2>1, <2>3
<1>6. P = SUBSET S
  <2> HIDE DEF P
  <2>1. P \in SUBSET (SUBSET S)
    BY DEF P
  <2> QED
    BY <1>4, <1>5, <2>1, SubsetInduction
<1>7. S \in P
  BY <1>6
<1> QED
  BY <1>3, <1>7

-----------------------------------------------------------------------------
(***************************************************************************)
(* Subtracting.                                                            *)
(***************************************************************************)

Holds(x, t) == x.start <= t /\ t < x.end

LEMMA CoversMore ==
  ASSUME NEW S, NEW x, NEW t
  PROVE  Covers(S \cup {x}, t) <=> Covers(S, t) \/ Holds(x, t)
BY DEF Covers, Holds

\* Exclusions as they come out of merge_intervals.
Apart(s) == s \in Seq(Interval) /\ \A i, j \in DOMAIN s : i < j => s[i].end < s[j].start

Left == [cursor : Int, parts : {P \in SUBSET Interval : IsFiniteSet(P)}]

\* The loop over the exclusions s, k of them behind it: the parts cover what lies before
\* the cursor and in none of the k; none of the k reaches beyond the cursor within base; and
\* the cursor is at an end of one of them, before all that follow, if it has moved at all.
Carved(base, s, k, left) ==
  /\ left \in Left
  /\ base.start <= left.cursor
  /\ \A t \in Int : Covers(left.parts, t) <=>
       Holds(base, t) /\ t < left.cursor /\ \A i \in 1 .. k : ~Holds(s[i], t)
  /\ \A t \in Int : \A i \in 1 .. k : Holds(base, t) /\ Holds(s[i], t) => t < left.cursor
  /\ left.cursor = base.start \/ \A j \in k + 1 .. Len(s) : left.cursor < s[j].start

LEMMA CarveType ==
  ASSUME NEW base \in Interval, NEW left \in Left, NEW x \in Interval
  PROVE  Carve(base, left, x) \in Left
<1> DEFINE part == Span(left.cursor, Least(x.start, base.end))
           parts == left.parts \cup {part}
<1>1. /\ x.start \in Int /\ x.end \in Int /\ base.end \in Int
      /\ left.cursor \in Int /\ left.parts \in SUBSET Interval /\ IsFiniteSet(left.parts)
  BY DEF Interval, Spaces, Left
<1>2. Greatest(left.cursor, x.end) \in Int
  BY <1>1 DEF Greatest
<1>3. ASSUME x.start > left.cursor, left.cursor < base.end
      PROVE  parts \in SUBSET Interval /\ IsFiniteSet(parts)
  <2>1. part \in Interval
    BY <1>1, <1>3 DEF Span, Least, Interval, Spaces
  <2> HIDE DEF part
  <2> QED
    BY <1>1, <2>1, FS_AddElement
<1> HIDE DEF parts
<1>4. ASSUME ~(x.end <= left.cursor \/ x.start >= base.end \/ left.cursor >= base.end)
      PROVE  Carve(base, left, x) =
               [cursor |-> Greatest(left.cursor, x.end),
                parts |-> IF x.start > left.cursor THEN parts ELSE left.parts]
  BY <1>4 DEF Carve, parts
<1>5. CASE x.end <= left.cursor \/ x.start >= base.end \/ left.cursor >= base.end
  BY <1>5 DEF Carve
<1>6. CASE ~(x.end <= left.cursor \/ x.start >= base.end \/ left.cursor >= base.end)
  <2>1. left.cursor < base.end
    BY <1>1, <1>6
  <2> QED
    BY <1>1, <1>2, <1>3, <1>4, <1>6, <2>1 DEF Left
<1> QED
  BY <1>5, <1>6

LEMMA CarveStep ==
  ASSUME NEW base \in Interval, NEW s, Apart(s), NEW k \in Nat, k + 1 <= Len(s),
         NEW left, Carved(base, s, k, left)
  PROVE  Carved(base, s, k + 1, Carve(base, left, s[k + 1]))
<1> DEFINE x == s[k + 1]
           c == left.cursor
           next == Carve(base, left, x)
<1>1. /\ Len(s) \in Nat /\ DOMAIN s = 1 .. Len(s)
      /\ \A i \in 1 .. Len(s) : s[i] \in Interval
  BY DEF Apart
<1>2. x \in Interval /\ left \in Left
  BY <1>1 DEF Carved
<1>3. /\ x.start \in Int /\ x.end \in Int /\ x.start < x.end /\ c \in Int
      /\ base.start \in Int /\ base.end \in Int /\ base.start < base.end /\ base.start <= c
  BY <1>2 DEF Interval, Spaces, Left, Carved
<1>4. next \in Left
  BY <1>2, CarveType
<1>5. \A i : i \in 1 .. k + 1 <=> i \in 1 .. k \/ i = k + 1
  OBVIOUS
<1>6. c = base.start \/ c < x.start
  <2>1. k + 1 \in k + 1 .. Len(s)
    BY <1>1
  <2> QED
    BY <2>1 DEF Carved
<1>7. \A j \in k + 2 .. Len(s) : x.end < s[j].start
  BY <1>1 DEF Apart
<1>8. ASSUME NEW t \in Int
      PROVE  /\ Covers(left.parts, t) <=>
                  Holds(base, t) /\ t < c /\ \A i \in 1 .. k : ~Holds(s[i], t)
             /\ \A i \in 1 .. k : Holds(base, t) /\ Holds(s[i], t) => t < c
             /\ t < c /\ Holds(base, t) => ~Holds(x, t)
  BY <1>3, <1>6 DEF Carved, Holds
<1>9. CASE x.end <= c \/ x.start >= base.end \/ c >= base.end
  <2>1. next = left
    BY <1>9 DEF Carve
  <2>2. \A t \in Int : Holds(base, t) /\ Holds(x, t) => t < c
    BY <1>3, <1>9 DEF Holds
  <2>3. \A t \in Int : Covers(next.parts, t) <=>
          Holds(base, t) /\ t < next.cursor /\ \A i \in 1 .. k + 1 : ~Holds(s[i], t)
    BY <1>5, <1>8, <2>1
  <2>4. \A t \in Int : \A i \in 1 .. k + 1 : Holds(base, t) /\ Holds(s[i], t) => t < next.cursor
    BY <1>5, <1>8, <2>1, <2>2
  <2>5. c = base.start \/ \A j \in (k + 1) + 1 .. Len(s) : c < s[j].start
    BY <1>1 DEF Carved
  <2> HIDE DEF next
  <2> QED
    BY <1>3, <1>4, <2>1, <2>3, <2>4, <2>5 DEF Carved, next
<1>10. CASE ~(x.end <= c \/ x.start >= base.end \/ c >= base.end)
  <2> DEFINE part == Span(c, Least(x.start, base.end))
  <2>1. c < x.end /\ x.start < base.end /\ c < base.end
    BY <1>3, <1>10
  <2>2. next.cursor = x.end
    BY <1>3, <1>10, <2>1 DEF Carve, Greatest
  <2>3. next.parts = IF x.start > c THEN left.parts \cup {part} ELSE left.parts
    BY <1>10 DEF Carve
  <2>4. part.start = c /\ (x.start > c => part.end = x.start)
    BY <1>3, <2>1 DEF Span, Least
  <2> HIDE DEF next, part
  <2>5. ASSUME NEW t \in Int
        PROVE  Covers(next.parts, t) <=>
                 Holds(base, t) /\ t < x.end /\ \A i \in 1 .. k + 1 : ~Holds(s[i], t)
    <3>1. Covers(next.parts, t) <=> Covers(left.parts, t) \/ (x.start > c /\ Holds(part, t))
      BY <2>3, CoversMore
    <3>2. x.start > c /\ Holds(part, t) <=> c <= t /\ t < x.start
      BY <1>3, <2>4 DEF Holds
    <3>3. CASE t < c
      <4>1. ~(x.start > c /\ Holds(part, t)) /\ t < x.end
        BY <1>3, <2>1, <3>2, <3>3
      <4>2. Covers(left.parts, t) <=>
              Holds(base, t) /\ \A i \in 1 .. k : ~Holds(s[i], t)
        BY <1>8, <3>3
      <4>3. Holds(base, t) => ~Holds(x, t)
        BY <1>8, <3>3
      <4> QED
        BY <1>5, <3>1, <4>1, <4>2, <4>3
    <3>4. CASE ~(t < c)
      <4>1. ~Covers(left.parts, t)
        BY <1>8, <3>4
      <4>2. Holds(base, t) => \A i \in 1 .. k : ~Holds(s[i], t)
        BY <1>8, <3>4
      <4>3. c <= t /\ t < x.start <=> Holds(base, t) /\ t < x.end /\ ~Holds(x, t)
        BY <1>3, <2>1, <3>4 DEF Holds
      <4> QED
        BY <1>5, <3>1, <3>2, <4>1, <4>2, <4>3
    <3> QED
      BY <3>3, <3>4
  <2>6. ASSUME NEW t \in Int, NEW i \in 1 .. k + 1, Holds(base, t), Holds(s[i], t)
        PROVE  t < x.end
    BY <1>3, <1>5, <1>8, <2>1, <2>6 DEF Holds
  <2>7. \A j \in (k + 1) + 1 .. Len(s) : x.end < s[j].start
    BY <1>7
  <2>8. base.start <= next.cursor
    BY <1>3, <2>1, <2>2
  <2> QED
    BY <1>4, <2>2, <2>5, <2>6, <2>7, <2>8 DEF Carved, next
<1> QED
  BY <1>9, <1>10

\* The instants of base that no exclusion has.
LEMMA RemainingOf ==
  ASSUME NEW base \in Interval, NEW s, Apart(s)
  PROVE  /\ Remaining(base, s) \in SUBSET Interval /\ IsFiniteSet(Remaining(base, s))
         /\ \A t \in Int : Covers(Remaining(base, s), t) <=>
              Holds(base, t) /\ ~Covers(Range(s), t)
<1> DEFINE n == Len(s)
           start == [cursor |-> base.start, parts |-> {}]
           Solves(h) == h = [U \in SUBSET DOMAIN s |-> IF U = {} THEN start
                               ELSE Carve(base, h[U \ {Max(U)}], s[Max(U)])]
<1>1. n \in Nat /\ DOMAIN s = 1 .. n /\ \A i \in 1 .. n : s[i] \in Interval
  BY DEF Apart
<1>2. base.start \in Int /\ base.end \in Int /\ base.start < base.end
  BY DEF Interval, Spaces
<1>3. start \in Left
  BY <1>2, FS_EmptySet DEF Left
<1>4. \A U \in SUBSET (1 .. n) : U # {} => Max(U) \in U /\ Max(U) \in 1 .. n
  BY <1>1, GreatestIndex
<1>5. \E h : Solves(h)
  <2> DEFINE D == 1 .. n
             step == [a \in Left \X D |-> Carve(base, a[1], s[a[2]])]
             pick == [U \in SUBSET D |-> IF U = {} THEN {} ELSE Max(U)]
  <2>1. step \in [Left \X D -> Left]
    BY <1>1, CarveType
  <2>2. \A l \in Left, i \in D : step[<<l, i>>] = Carve(base, l, s[i])
    OBVIOUS
  <2>3. pick \in [SUBSET D -> D \cup {{}}]
    BY <1>4
  <2>4. \A U \in SUBSET D : U # {} => pick[U] = Max(U) /\ pick[U] \in U
    BY <1>4
  <2>5. IsFiniteSet(D) /\ DOMAIN s = D
    BY <1>1, FS_Interval
  <2> HIDE DEF step, pick, D, start
  <2>6. \A U \in SUBSET D : U # {} => pick[U] \in U
    BY <2>4
  <2>7. PICK h \in [SUBSET D -> Left] : FoldsOver(h, D, start, step, pick)
    BY <1>3, <2>1, <2>3, <2>5, <2>6, FoldExists
  <2>8. ASSUME NEW U \in SUBSET D, U # {}
        PROVE  h[U] = Carve(base, h[U \ {Max(U)}], s[Max(U)])
    <3>1. pick[U] = Max(U) /\ Max(U) \in D
      BY <2>4, <2>8
    <3>2. h[U \ {Max(U)}] \in Left
      BY <2>7
    <3>3. h[U] = step[<<h[U \ {pick[U]}], pick[U]>>]
      BY <2>7, <2>8 DEF FoldsOver
    <3> QED
      BY <2>2, <3>1, <3>2, <3>3
  <2>9. h[{}] = start
    BY <2>7 DEF FoldsOver
  <2>10. h = [U \in SUBSET D |-> IF U = {} THEN start
                ELSE Carve(base, h[U \ {Max(U)}], s[Max(U)])]
    BY <2>7, <2>8, <2>9
  <2> QED
    BY <2>5, <2>10
<1> DEFINE fold == FoldLeft(LAMBDA l, x : Carve(base, l, x), start, s)
<1>6. PICK h : Solves(h) /\ fold = h[DOMAIN s]
  <2> DEFINE h == CHOOSE g : Solves(g)
  <2>1. Solves(h)
    BY <1>5
  <2>2. fold = h[DOMAIN s]
    BY DEF FoldLeft, MapThenFoldSet
  <2> QED
    BY <2>1, <2>2
<1> DEFINE P == {k \in Nat : k <= n => Carved(base, s, k, h[1 .. k])}
<1>7. 0 \in P
  <2>1. h[{}] = start /\ 1 .. 0 = {}
    <3>1. 1 .. 0 = {} /\ {} \in SUBSET DOMAIN s
      OBVIOUS
    <3> HIDE DEF start
    <3> QED
      BY <1>6, <3>1
  <2>2. Carved(base, s, 0, start)
    BY <1>2, <1>3 DEF Carved, Covers, Holds
  <2> QED
    BY <2>1, <2>2
<1>8. ASSUME NEW k \in P
      PROVE  k + 1 \in P
  <2>1. SUFFICES ASSUME k + 1 <= n
                 PROVE  Carved(base, s, k + 1, h[1 .. k + 1])
    OBVIOUS
  <2> DEFINE U == 1 .. k + 1
  <2>2. U \in SUBSET (1 .. n) /\ U # {} /\ k + 1 \in U /\ \A i \in U : i <= k + 1
    <3>1. k \in Nat /\ n \in Nat
      BY <1>1
    <3> HIDE DEF n
    <3>2. k + 1 \in U /\ \A i \in U : i <= k + 1 /\ i \in 1 .. n
      BY <2>1, <3>1
    <3> QED
      BY <3>2
  <2>3. Max(U) = k + 1
    <3>1. Max(U) \in U /\ \A i \in U : i <= Max(U)
      BY <1>1, <2>2, GreatestIndex
    <3>2. Max(U) \in Int
      BY <3>1
    <3> HIDE DEF U
    <3> QED
      BY <2>2, <3>1, <3>2
  <2>4. U \ {k + 1} = 1 .. k
    OBVIOUS
  <2>5. h[U] = Carve(base, h[1 .. k], s[k + 1])
    BY <1>1, <1>6, <2>2, <2>3, <2>4
  <2>6. Carved(base, s, k, h[1 .. k])
    BY <1>1, <2>1
  <2> QED
    BY <2>1, <2>5, <2>6, CarveStep
<1>9. P = Nat
  <2> HIDE DEF P
  <2>1. P \in SUBSET Nat
    BY DEF P
  <2> QED
    BY <1>7, <1>8, <2>1, Induction
<1>10. Carved(base, s, n, fold)
  <2>1. n \in P
    BY <1>1, <1>9
  <2>2. Carved(base, s, n, h[1 .. n])
    BY <1>1, <2>1
  <2>3. fold = h[1 .. n]
    BY <1>1, <1>6
  <2> QED
    BY <2>2, <2>3
<1> DEFINE part == Span(fold.cursor, base.end)
<1>11. Remaining(base, s) = IF fold.cursor < base.end THEN fold.parts \cup {part} ELSE fold.parts
  BY DEF Remaining
<1> HIDE DEF fold
<1>12. /\ fold.cursor \in Int /\ fold.parts \in SUBSET Interval /\ IsFiniteSet(fold.parts)
       /\ base.start <= fold.cursor
  BY <1>10 DEF Carved, Left
<1>13. part.start = fold.cursor /\ part.end = base.end
       /\ (fold.cursor < base.end => part \in Interval)
  BY <1>2, <1>12 DEF Span, Interval, Spaces
<1> HIDE DEF part
<1>14. Remaining(base, s) \in SUBSET Interval /\ IsFiniteSet(Remaining(base, s))
  BY <1>11, <1>12, <1>13, FS_AddElement
<1>15. ASSUME NEW t \in Int
       PROVE  Covers(Remaining(base, s), t) <=> Holds(base, t) /\ ~Covers(Range(s), t)
  <2>1. Covers(Remaining(base, s), t) <=>
          Covers(fold.parts, t) \/ (fold.cursor < base.end /\ Holds(part, t))
    BY <1>11, CoversMore
  <2>2. Covers(Range(s), t) <=> \E i \in 1 .. n : Holds(s[i], t)
    BY <1>1 DEF Covers, Range, Holds
  <2>3. fold.cursor < base.end /\ Holds(part, t) <=> Holds(base, t) /\ ~(t < fold.cursor)
    BY <1>2, <1>12, <1>13 DEF Holds
  <2>4. Covers(fold.parts, t) <=>
          Holds(base, t) /\ t < fold.cursor /\ \A i \in 1 .. n : ~Holds(s[i], t)
    BY <1>10 DEF Carved
  <2>5. \A i \in 1 .. n : Holds(base, t) /\ Holds(s[i], t) => t < fold.cursor
    BY <1>10 DEF Carved
  <2> QED
    BY <2>1, <2>2, <2>3, <2>4, <2>5
<1> QED
  BY <1>14, <1>15

LEMMA FiniteRange ==
  ASSUME NEW X, NEW s \in Seq(X)
  PROVE  IsFiniteSet(Range(s)) /\ Range(s) \in SUBSET X
<1> DEFINE D == 1 .. Len(s)
<1>1. Len(s) \in Nat /\ DOMAIN s = D /\ \A i \in D : s[i] \in X
  OBVIOUS
<1>2. IsFiniteSet(D)
  BY <1>1, FS_Interval
<1>3. Range(s) = {s[i] : i \in D} /\ s = [i \in D |-> s[i]]
  BY <1>1 DEF Range
<1> HIDE DEF D
<1>4. s \in Surjection(D, Range(s))
  BY <1>3 DEF Surjection
<1>5. IsFiniteSet(Range(s))
  BY <1>2, <1>4, FS_Surjection
<1> QED
  BY <1>1, <1>3, <1>5

LEMMA MergedApart ==
  ASSUME NEW S \in SUBSET Interval, IsFiniteSet(S)
  PROVE  LET m == MergeIntervals(S)
         IN /\ Apart(m) /\ IsFiniteSet(Range(m)) /\ Range(m) \in SUBSET Interval
            /\ \A t \in Int : Covers(Range(m), t) <=> Covers(S, t)
            /\ \A x, y \in Range(m) : x # y => x.end < y.start \/ y.end < x.start
<1> DEFINE m == MergeIntervals(S)
<1>1. Merges(m, S)
  BY Merged
<1> HIDE DEF m
<1>2. Apart(m) /\ m \in Seq(Interval)
  BY <1>1 DEF Merges, Apart
<1>3. IsFiniteSet(Range(m)) /\ Range(m) \in SUBSET Interval
  BY <1>2, FiniteRange
<1>4. ASSUME NEW x \in Range(m), NEW y \in Range(m), x # y
      PROVE  x.end < y.start \/ y.end < x.start
  <2>1. PICK i, j \in DOMAIN m : x = m[i] /\ y = m[j]
    BY DEF Range
  <2>2. i \in 1 .. Len(m) /\ j \in 1 .. Len(m) /\ i # j
    BY <1>2, <1>4, <2>1
  <2>3. i < j \/ j < i
    <3>1. i \in Int /\ j \in Int
      BY <2>2
    <3> QED
      BY <2>2, <3>1
  <2> QED
    BY <2>1, <2>3, <1>2 DEF Apart
<1> QED
  BY <1>1, <1>2, <1>3, <1>4 DEF Merges, m

\* subtract_intervals, of any finite sets: the instants of the one that the other has not.
LEMMA Subtracted ==
  ASSUME NEW A \in SUBSET Interval, IsFiniteSet(A), NEW X \in SUBSET Interval, IsFiniteSet(X)
  PROVE  LET free == SubtractIntervals(A, X)
         IN /\ free \in SUBSET Interval /\ IsFiniteSet(free)
            /\ \A t \in Int : Covers(free, t) <=> Covers(A, t) /\ ~Covers(X, t)
<1> DEFINE m == MergeIntervals(X)
           bases == Range(MergeIntervals(A))
           parts == {Remaining(base, m) : base \in bases}
           free == SubtractIntervals(A, X)
<1>1. /\ Apart(m) /\ \A t \in Int : Covers(Range(m), t) <=> Covers(X, t)
      /\ bases \in SUBSET Interval /\ IsFiniteSet(bases)
      /\ \A t \in Int : Covers(bases, t) <=> Covers(A, t)
  BY MergedApart
<1>2. free = UNION parts
  BY DEF SubtractIntervals
<1> HIDE DEF m, bases, free
<1>3. IsFiniteSet(parts)
  <2> DEFINE f == [base \in bases |-> Remaining(base, m)]
  <2>1. f \in Surjection(bases, parts)
    BY DEF Surjection
  <2> HIDE DEF f, parts
  <2> QED
    BY <1>1, <2>1, FS_Surjection
<1>4. \A P \in parts : IsFiniteSet(P) /\ P \in SUBSET Interval
  BY <1>1, RemainingOf
<1>5. IsFiniteSet(UNION parts) /\ UNION parts \in SUBSET Interval
  <2> HIDE DEF parts
  <2>1. IsFiniteSet(UNION parts)
    BY <1>3, <1>4, FS_UNION
  <2> QED
    BY <1>4, <2>1
<1>6. ASSUME NEW t \in Int
      PROVE  Covers(UNION parts, t) <=> Covers(A, t) /\ ~Covers(X, t)
  <2>1. Covers(UNION parts, t) <=> \E base \in bases : Covers(Remaining(base, m), t)
    BY DEF Covers
  <2>2. \A base \in bases : Covers(Remaining(base, m), t) <=> Holds(base, t) /\ ~Covers(X, t)
    BY <1>1, RemainingOf
  <2>3. Covers(bases, t) <=> \E base \in bases : Holds(base, t)
    BY DEF Covers, Holds
  <2> QED
    BY <1>1, <2>1, <2>2, <2>3
<1> QED
  BY <1>2, <1>5, <1>6 DEF free

-----------------------------------------------------------------------------
(***************************************************************************)
(* Slots.                                                                  *)
(***************************************************************************)

\* Instants without a break lie in one of the intervals that are apart.
LEMMA InOne ==
  ASSUME NEW S \in SUBSET Interval,
         \A x, y \in S : x # y => x.end < y.start \/ y.end < x.start,
         NEW t \in Int, NEW d \in Nat \ {0}, \A u \in t .. t + d - 1 : Covers(S, u)
  PROVE  \E x \in S : x.start <= t /\ t + d <= x.end
<1>1. \A x \in S : x.start \in Int /\ x.end \in Int /\ x.start < x.end
  BY DEF Interval, Spaces
<1>2. PICK x \in S : x.start <= t /\ t < x.end
  <2>1. t \in t .. t + d - 1
    OBVIOUS
  <2> QED
    BY <2>1 DEF Covers
<1>3. ASSUME x.end < t + d
      PROVE  FALSE
  <2>1. x.end \in t .. t + d - 1
    BY <1>1, <1>2, <1>3
  <2>2. PICK y \in S : y.start <= x.end /\ x.end < y.end
    BY <2>1 DEF Covers
  <2>3. y # x
    BY <1>1, <2>2
  <2>4. x.end < y.start \/ y.end < x.start
    BY <2>3
  <2> QED
    BY <1>1, <2>2, <2>4
<1> QED
  BY <1>1, <1>2, <1>3

\* An unbroken run of what is covered starts where its interval starts.
LEMMA RunStartOf ==
  ASSUME NEW S \in SUBSET Interval,
         \A x, y \in S : x # y => x.end < y.start \/ y.end < x.start,
         NEW P, P = {u \in Int : Covers(S, u)},
         NEW x \in S, NEW t \in Int, x.start <= t, t < x.end
  PROVE  RunStart(P, t) = x.start
<1>1. \A y \in S : y.start \in Int /\ y.end \in Int /\ y.start < y.end
  BY DEF Interval, Spaces
<1>2. x.start \in P /\ x.start .. t \subseteq P
  BY <1>1 DEF Covers
<1>3. x.start - 1 \notin P
  <2>1. ASSUME NEW y \in S, y.start <= x.start - 1, x.start - 1 < y.end
        PROVE  FALSE
    <3>1. y # x
      BY <1>1, <2>1
    <3>2. x.end < y.start \/ y.end < x.start
      BY <3>1
    <3> QED
      BY <1>1, <2>1, <3>2
  <2> QED
    BY <2>1 DEF Covers
<1>4. ASSUME NEW s \in P, s <= t, s .. t \subseteq P, s - 1 \notin P
      PROVE  s = x.start
  <2>1. s \in Int /\ x.start \in Int
    BY <1>1
  <2>2. CASE s < x.start
    <3>1. x.start - 1 \in s .. t
      BY <2>1, <2>2
    <3> QED
      BY <1>3, <1>4, <3>1
  <2>3. CASE x.start < s
    <3>1. s - 1 \in x.start .. t
      BY <1>4, <2>1, <2>3
    <3> QED
      BY <1>2, <1>4, <3>1
  <2> QED
    BY <2>1, <2>2, <2>3
<1> QED
  BY <1>2, <1>3, <1>4 DEF RunStart

\* The slots that subtract_intervals and generate_slots find are the starts that can be worked
\* on the grid, for any finite work windows and exclusions.
THEOREM SlotsAreExact ==
  ASSUME NEW W \in SUBSET Interval, IsFiniteSet(W), NEW X \in SUBSET Interval, IsFiniteSet(X),
         NEW duration \in Nat \ {0}, NEW step \in Nat \ {0}
  PROVE  GenerateSlots(W, SubtractIntervals(W, X), duration, step)
           = Startable(Instants(W), Instants(X), duration, step)
<1> DEFINE free == SubtractIntervals(W, X)
           windows == Range(MergeIntervals(W))
           gaps == Range(MergeIntervals(free))
           P == Instants(W)
           Q == P \ Instants(X)
           Grid(w) == {t \in w.start .. w.end - duration : (t - w.start) % step = 0}
           slots == GenerateSlots(W, free, duration, step)
<1>1. /\ free \in SUBSET Interval /\ IsFiniteSet(free)
      /\ \A t \in Int : Covers(free, t) <=> Covers(W, t) /\ ~Covers(X, t)
  BY Subtracted
<1>2. slots = UNION {{t \in Grid(w) : \E g \in gaps : g.start <= t /\ t + duration <= g.end} :
                        w \in windows}
  BY DEF GenerateSlots
<1> HIDE DEF free
<1>3. /\ windows \in SUBSET Interval
      /\ \A t \in Int : Covers(windows, t) <=> Covers(W, t)
      /\ \A x, y \in windows : x # y => x.end < y.start \/ y.end < x.start
  BY MergedApart
<1>4. /\ gaps \in SUBSET Interval
      /\ \A t \in Int : Covers(gaps, t) <=> Covers(free, t)
      /\ \A x, y \in gaps : x # y => x.end < y.start \/ y.end < x.start
  BY <1>1, MergedApart
<1> HIDE DEF windows, gaps, slots
<1>5. \A x \in windows \cup gaps : x.start \in Int /\ x.end \in Int /\ x.start < x.end
  BY <1>3, <1>4 DEF Interval, Spaces
<1>6. W \in SUBSET Spaces /\ X \in SUBSET Spaces
  BY DEF Interval
<1>7. P = {t \in Int : Covers(windows, t)} /\ Q = {t \in Int : Covers(gaps, t)}
  BY <1>1, <1>3, <1>4, <1>6, InstantsCovered
<1> HIDE DEF P, Q
<1>8. ASSUME NEW w \in windows, NEW t \in Int, w.start <= t, t < w.end
      PROVE  RunStart(P, t) = w.start /\ t \in P
  BY <1>3, <1>7, <1>8, RunStartOf DEF Covers
<1>9. ASSUME NEW t \in slots
      PROVE  t \in Startable(P, Instants(X), duration, step)
  <2>1. PICK w \in windows : /\ t \in w.start .. w.end - duration /\ (t - w.start) % step = 0
                             /\ \E g \in gaps : g.start <= t /\ t + duration <= g.end
    BY <1>2
  <2>2. PICK g \in gaps : g.start <= t /\ t + duration <= g.end
    BY <2>1
  <2>3. t \in Int /\ w.start <= t /\ t < w.end
    BY <1>5, <2>1
  <2>4. t .. t + duration - 1 \subseteq Q
    BY <1>5, <1>7, <2>2, <2>3 DEF Covers
  <2>5. RunStart(P, t) = w.start /\ t \in P
    BY <1>8, <2>3
  <2> QED
    BY <2>1, <2>4, <2>5 DEF Startable, Q
<1>10. ASSUME NEW t \in Startable(P, Instants(X), duration, step)
       PROVE  t \in slots
  <2>1. t \in P /\ t .. t + duration - 1 \subseteq Q /\ (t - RunStart(P, t)) % step = 0
    BY DEF Startable, Q
  <2>2. t \in Int /\ Q \subseteq P
    BY <1>7, <2>1 DEF Q
  <2>3. \A u \in t .. t + duration - 1 : Covers(gaps, u) /\ Covers(windows, u)
    BY <1>7, <2>1, <2>2
  <2>4. PICK g \in gaps : g.start <= t /\ t + duration <= g.end
    BY <1>4, <2>2, <2>3, InOne
  <2>5. PICK w \in windows : w.start <= t /\ t + duration <= w.end
    BY <1>3, <2>2, <2>3, InOne
  <2>6. t < w.end /\ t \in w.start .. w.end - duration
    BY <1>5, <2>2, <2>5
  <2>7. RunStart(P, t) = w.start
    BY <1>8, <2>2, <2>5, <2>6
  <2>8. t \in Grid(w)
    BY <2>1, <2>6, <2>7
  <2> QED
    BY <1>2, <2>4, <2>8
<1> QED
  BY <1>9, <1>10 DEF slots, free, P
=============================================================================
