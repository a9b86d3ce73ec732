---------------------------- MODULE FiniteOrders ----------------------------
(***************************************************************************)
(* Lemmas the other proofs share: the least and the greatest element of a  *)
(* set of naturals, induction over the naturals, the sequence that lists a *)
(* finite set in a strict total order, the sequence that joins others      *)
(* (FlattenSeq), and that sums and folds exist.                            *)
(* They are stated of sets, not of predicates, so that the provers can     *)
(* instantiate them: to prove P(n) for all n, apply NaturalsAreInductive   *)
(* to the set of the n with P(n).                                          *)
(***************************************************************************)
EXTENDS Integers, FiniteSets, SequencesExt, FiniteSetTheorems, SequenceTheorems, TLAPS

\* A non-empty set of naturals has a least element: of its initial parts,
\* which are finite, one has no other within it.
LEMMA LeastNatural ==
  ASSUME NEW T \in SUBSET Nat, T # {}
  PROVE  \E n \in T : \A m \in T : n <= m
<1> DEFINE upTo(n) == {m \in T : m <= n}
           parts   == {upTo(n) : n \in T}
           R       == StrictSubsetOrdering(Nat)
<1>1. parts \subseteq FiniteSubsetsOf(Nat) /\ parts # {}
  <2>1. \A n \in T : IsFiniteSet(upTo(n))
    BY FS_BoundedSetOfNaturals
  <2> QED BY <2>1 DEF FiniteSubsetsOf
<1>2. IsWellFoundedOn(R, FiniteSubsetsOf(Nat))
  BY FS_StrictSubsetOrderingWellFounded
<1>3. PICK least \in parts : \A part \in parts : ~(<<part, least>> \in R)
  <2> HIDE DEF R, parts
  <2> QED BY <1>1, <1>2, WFMin
<1>4. PICK n \in T : least = upTo(n)
  BY <1>3
<1>5. ASSUME NEW m \in T, m < n PROVE FALSE
  <2>1. n \in upTo(n) /\ n \notin upTo(m)
    BY <1>5
  <2>2. \A k \in upTo(m) : k \in upTo(n)
    BY <1>5
  <2>3. upTo(m) \in SUBSET Nat /\ upTo(n) \in SUBSET Nat
    OBVIOUS
  <2> HIDE DEF upTo
  <2>4. <<upTo(m), upTo(n)>> \in R
    BY <2>1, <2>2, <2>3 DEF StrictSubsetOrdering
  <2> QED BY <2>4, <1>3, <1>4
<1>6. \A m \in T : n <= m
  BY <1>5
<1> QED BY <1>6

\* Induction over the naturals.
LEMMA NaturalsAreInductive ==
  ASSUME NEW T, 0 \in T, \A n \in Nat : n \in T => n + 1 \in T
  PROVE  Nat \subseteq T
<1> SUFFICES ASSUME Nat \ T # {} PROVE FALSE
  OBVIOUS
<1>1. PICK n \in Nat \ T : \A m \in Nat \ T : n <= m
  BY LeastNatural
<1>2. n - 1 \in Nat /\ n - 1 \notin Nat \ T
  BY <1>1
<1> QED BY <1>2

-----------------------------------------------------------------------------
\* R is a strict total order on S.
Orders(R, S) ==
  /\ \A x \in S : <<x, x>> \notin R
  /\ \A x, y \in S : x # y => <<x, y>> \in R \/ <<y, x>> \in R
  /\ \A x, y, z \in S : <<x, y>> \in R /\ <<y, z>> \in R => <<x, z>> \in R

\* The sequences that list S in the order R.
Listings(R, S) ==
  {s \in [1 .. Cardinality(S) -> S] :
     \A i, j \in 1 .. Cardinality(S) : i < j => <<s[i], s[j]>> \in R}

\* A listing names every element.
LEMMA ListingIsOnto ==
  ASSUME NEW S, IsFiniteSet(S), NEW R, Orders(R, S), NEW s \in Listings(R, S)
  PROVE  /\ \A x \in S : \E i \in 1 .. Cardinality(S) : s[i] = x
         /\ \A i, j \in 1 .. Cardinality(S) : s[i] = s[j] => i = j
<1> DEFINE N == Cardinality(S)
<1>1. N \in Nat
  BY FS_CardinalityType
<1>2. \A i, j \in 1 .. N : s[i] = s[j] => i = j
  <2> SUFFICES ASSUME NEW i \in 1 .. N, NEW j \in 1 .. N, s[i] = s[j] PROVE i = j
    OBVIOUS
  <2>1. ~(i < j) /\ ~(j < i)
    BY DEF Listings, Orders
  <2> QED BY <1>1, <2>1
<1>3. s \in Injection(1 .. N, S)
  BY <1>2 DEF Listings, Injection, IsInjective
<1>4. IsFiniteSet(1 .. N) /\ Cardinality(1 .. N) = N
  BY <1>1, FS_Interval
<1>5. s \in Surjection(1 .. N, S)
  BY <1>3, <1>4, FS_Injection
<1> QED BY <1>2, <1>5 DEF Surjection

\* A finite set can be listed in any strict total order: an element comes
\* behind as many as are smaller than it.
LEMMA ListingExists ==
  ASSUME NEW S, IsFiniteSet(S), NEW R, Orders(R, S)
  PROVE  \E s : s \in Listings(R, S)
<1> DEFINE N       == Cardinality(S)
           less(x) == {y \in S : <<y, x>> \in R}
           rank    == [x \in S |-> 1 + Cardinality(less(x))]
<1>1. N \in Nat /\ \A x \in S : IsFiniteSet(less(x)) /\ Cardinality(less(x)) \in Nat
  BY FS_CardinalityType, FS_Subset
<1>2. ASSUME NEW x \in S PROVE rank[x] \in 1 .. N
  <2>1. less(x) \subseteq S \ {x}
    BY DEF Orders
  <2>2. IsFiniteSet(S \ {x}) /\ Cardinality(S \ {x}) = N - 1
    BY FS_RemoveElement
  <2> DEFINE others == S \ {x}
             smaller == less(x)
  <2>3. smaller \in SUBSET others /\ IsFiniteSet(others) /\ Cardinality(others) = N - 1
    BY <2>1, <2>2
  <2> HIDE DEF others, smaller
  <2>4. Cardinality(smaller) <= N - 1
    BY <2>3, FS_Subset
  <2>5. rank[x] = 1 + Cardinality(smaller) /\ Cardinality(smaller) \in Nat
    BY <1>1 DEF smaller
  <2> QED BY <1>1, <2>4, <2>5
<1>3. ASSUME NEW x \in S, NEW y \in S, <<x, y>> \in R PROVE rank[x] < rank[y]
  <2>1. less(x) \cup {x} \subseteq less(y) /\ x \notin less(x)
    BY <1>3 DEF Orders
  <2>2. /\ IsFiniteSet(less(x) \cup {x})
        /\ Cardinality(less(x) \cup {x}) = Cardinality(less(x)) + 1
    BY <1>1, <2>1, FS_AddElement
  <2>3. Cardinality(less(x) \cup {x}) <= Cardinality(less(y))
    BY <1>1, <2>1, FS_Subset
  <2> QED BY <1>1, <2>2, <2>3
<1> HIDE DEF less
<1>4. \A x, y \in S : rank[x] = rank[y] => x = y
  <2> SUFFICES ASSUME NEW x \in S, NEW y \in S, rank[x] = rank[y], x # y PROVE FALSE
    OBVIOUS
  <2>1. <<x, y>> \in R \/ <<y, x>> \in R
    BY DEF Orders
  <2>2. rank[x] \in Int /\ rank[y] \in Int
    BY <1>2
  <2> QED BY <1>3, <2>1, <2>2
<1>5. rank \in Injection(S, 1 .. N)
  BY <1>2, <1>4 DEF Injection, IsInjective
<1>6. IsFiniteSet(1 .. N) /\ Cardinality(1 .. N) = N
  BY <1>1, FS_Interval
<1>7. rank \in Surjection(S, 1 .. N)
  BY <1>5, <1>6, FS_Injection
<1> DEFINE s == [i \in 1 .. N |-> CHOOSE x \in S : rank[x] = i]
<1>8. \A i \in 1 .. N : s[i] \in S /\ rank[s[i]] = i
  BY <1>7 DEF Surjection
<1> HIDE DEF rank
<1>9. ASSUME NEW i \in 1 .. N, NEW j \in 1 .. N, i < j PROVE <<s[i], s[j]>> \in R
  <2>1. s[i] # s[j] /\ ~(<<s[j], s[i]>> \in R)
    BY <1>3, <1>8, <1>9
  <2> QED BY <2>1, <1>8 DEF Orders
<1> QED BY <1>8, <1>9 DEF Listings

-----------------------------------------------------------------------------
\* The sums of the first terms of s.
LEMMA SumsExist ==
  ASSUME NEW s
  PROVE  \A m \in Nat : \E f : /\ f = [n \in 0 .. m |-> f[n]] /\ f[0] = 0
                               /\ \A n \in 1 .. m : f[n] = f[n - 1] + s[n]
<1> DEFINE Sums(f, m) == /\ f = [n \in 0 .. m |-> f[n]] /\ f[0] = 0
                         /\ \A n \in 1 .. m : f[n] = f[n - 1] + s[n]
           T == {m \in Nat : \E f : Sums(f, m)}
<1>1. 0 \in T
  <2> DEFINE g == [n \in 0 .. 0 |-> 0]
  <2>1. Sums(g, 0)
    OBVIOUS
  <2> QED BY <2>1
<1>2. ASSUME NEW m \in Nat, m \in T PROVE m + 1 \in T
  <2>1. PICK f : Sums(f, m)
    BY <1>2
  <2> DEFINE g == [n \in 0 .. m + 1 |-> IF n = m + 1 THEN f[m] + s[m + 1] ELSE f[n]]
  <2>2. g[0] = 0 /\ g = [n \in 0 .. m + 1 |-> g[n]]
    BY <2>1
  <2>3. ASSUME NEW n \in 1 .. m + 1 PROVE g[n] = g[n - 1] + s[n]
    <3>1. CASE n \in 1 .. m
      <4>1. g[n - 1] = f[n - 1] /\ g[n] = f[n]
        BY <3>1
      <4> QED BY <2>1, <3>1, <4>1
    <3>2. CASE n = m + 1
      <4>1. n - 1 = m /\ g[m] = f[m] /\ g[n] = f[m] + s[m + 1]
        BY <3>2
      <4> QED BY <3>2, <4>1
    <3> QED BY <3>1, <3>2
  <2> HIDE DEF g
  <2>4. Sums(g, m + 1)
    BY <2>2, <2>3
  <2> HIDE DEF Sums
  <2> QED BY <2>4
<1> HIDE DEF T
<1>3. Nat \subseteq T
  BY <1>1, <1>2, NaturalsAreInductive
<1> QED BY <1>3 DEF T

-----------------------------------------------------------------------------
\* f[n] is the first n of the sequences, one after the other.
Joined(f, seqs) ==
  \A n \in 1 .. Len(seqs) : f[n] = IF n = 1 THEN seqs[n] ELSE f[n - 1] \o seqs[n]

LEMMA JoinsExist ==
  ASSUME NEW seqs
  PROVE  \A m \in Nat : \E f :
           /\ f = [n \in 1 .. m |-> f[n]]
           /\ \A n \in 1 .. m : f[n] = IF n = 1 THEN seqs[n] ELSE f[n - 1] \o seqs[n]
<1> DEFINE next(f, n) == IF n = 1 THEN seqs[n] ELSE f[n - 1] \o seqs[n]
           Joins(f, m) == f = [n \in 1 .. m |-> f[n]] /\ \A n \in 1 .. m : f[n] = next(f, n)
           T == {m \in Nat : \E f : Joins(f, m)}
<1>1. 0 \in T
  <2> DEFINE g == [n \in 1 .. 0 |-> 0]
  <2>1. g = [n \in 1 .. 0 |-> g[n]] /\ \A n \in 1 .. 0 : g[n] = next(g, n)
    OBVIOUS
  <2> HIDE DEF g, next
  <2>2. Joins(g, 0)
    BY <2>1
  <2> HIDE DEF Joins
  <2> QED BY <2>2
<1>2. ASSUME NEW m \in Nat, m \in T PROVE m + 1 \in T
  <2>1. PICK f : Joins(f, m)
    BY <1>2
  <2> DEFINE last == next(f, m + 1)
             g == [n \in 1 .. m + 1 |-> IF n = m + 1 THEN last ELSE f[n]]
  <2> HIDE DEF last
  <2>2. g = [n \in 1 .. m + 1 |-> g[n]]
    BY <2>1
  <2>3. ASSUME NEW n \in 1 .. m + 1 PROVE g[n] = next(g, n)
    <3>1. CASE n \in 1 .. m
      <4>1. n # 1 => g[n - 1] = f[n - 1]
        BY <3>1
      <4>2. f[n] = next(f, n)
        <5> HIDE DEF g, next
        <5> QED BY <2>1, <3>1
      <4>3. g[n] = f[n]
        BY <3>1
      <4> HIDE DEF g
      <4> QED BY <4>1, <4>2, <4>3
    <3>2. CASE n = m + 1
      <4>1. g[n] = last /\ (n # 1 => g[n - 1] = f[m] /\ n - 1 = m)
        BY <3>2
      <4> HIDE DEF g
      <4> QED BY <3>2, <4>1 DEF last
    <3> QED BY <3>1, <3>2
  <2> HIDE DEF g, next
  <2>4. Joins(g, m + 1)
    BY <2>2, <2>3
  <2> HIDE DEF Joins
  <2> QED BY <2>4
<1> HIDE DEF T
<1>3. Nat \subseteq T
  BY <1>1, <1>2, NaturalsAreInductive
<1> QED BY <1>3 DEF T

LEMMA FlattenIsJoin ==
  ASSUME NEW seqs, Len(seqs) \in Nat \ {0}
  PROVE  \E f : Joined(f, seqs) /\ FlattenSeq(seqs) = f[Len(seqs)]
<1> DEFINE next(f, n) == IF n = 1 THEN seqs[n] ELSE f[n - 1] \o seqs[n]
           flatten == CHOOSE f : f = [n \in 1 .. Len(seqs) |-> next(f, n)]
<1>1. \E f : f = [n \in 1 .. Len(seqs) |-> next(f, n)]
  <2>1. PICK f : /\ f = [n \in 1 .. Len(seqs) |-> f[n]]
                 /\ \A n \in 1 .. Len(seqs) : f[n] = next(f, n)
    BY JoinsExist
  <2> HIDE DEF next
  <2>2. f = [n \in 1 .. Len(seqs) |-> next(f, n)]
    BY <2>1
  <2> QED BY <2>2
<1>2. FlattenSeq(seqs) = flatten[Len(seqs)]
  BY DEF FlattenSeq
<1>3. flatten = [n \in 1 .. Len(seqs) |-> next(flatten, n)]
  <2> HIDE DEF next
  <2> QED BY <1>1
<1> HIDE DEF flatten
<1>4. \A n \in 1 .. Len(seqs) : flatten[n] = next(flatten, n)
  <2> HIDE DEF next
  <2> QED BY <1>3
<1>5. Joined(flatten, seqs)
  BY <1>4 DEF Joined
<1> QED BY <1>2, <1>5

LEMMA FlattenIsSeq ==
  ASSUME NEW S, NEW seqs, Len(seqs) \in Nat, DOMAIN seqs = 1 .. Len(seqs),
         \A n \in 1 .. Len(seqs) : seqs[n] \in Seq(S)
  PROVE  /\ Len(FlattenSeq(seqs)) \in Nat
         /\ \A n \in 1 .. Len(FlattenSeq(seqs)) : FlattenSeq(seqs)[n] \in S
         /\ Len(seqs) # 0 /\ Len(seqs[Len(seqs)]) # 0 => Len(FlattenSeq(seqs)) # 0
         /\ seqs \in Seq(Seq(S)) => FlattenSeq(seqs) \in Seq(S)
<1>1. CASE Len(seqs) = 0
  <2>1. FlattenSeq(seqs) = seqs
    BY <1>1 DEF FlattenSeq
  <2> QED BY <1>1, <2>1
<1>2. CASE Len(seqs) # 0
  <2>1. PICK f : Joined(f, seqs) /\ FlattenSeq(seqs) = f[Len(seqs)]
    BY <1>2, FlattenIsJoin
  <2> DEFINE T == {n \in Nat : n \in 1 .. Len(seqs) => f[n] \in Seq(S)}
  <2>2. 0 \in T
    OBVIOUS
  <2>3. ASSUME NEW n \in Nat, n \in T PROVE n + 1 \in T
    <3> SUFFICES ASSUME n + 1 \in 1 .. Len(seqs) PROVE f[n + 1] \in Seq(S)
      OBVIOUS
    <3>1. f[n + 1] = IF n + 1 = 1 THEN seqs[n + 1] ELSE f[(n + 1) - 1] \o seqs[n + 1]
      BY <2>1 DEF Joined
    <3>2. seqs[n + 1] \in Seq(S) /\ (n + 1) - 1 = n
      OBVIOUS
    <3>3. CASE n = 0
      BY <3>1, <3>2, <3>3
    <3>4. CASE n # 0
      <4>1. n \in 1 .. Len(seqs) /\ n + 1 # 1
        BY <3>4
      <4>2. f[n] \in Seq(S)
        BY <2>3, <4>1
      <4>3. f[n + 1] = f[n] \o seqs[n + 1]
        BY <3>1, <3>2, <4>1
      <4> QED BY <3>2, <4>2, <4>3
    <3> QED BY <3>3, <3>4
  <2> HIDE DEF T
  <2>4. Nat \subseteq T
    BY <2>2, <2>3, NaturalsAreInductive
  <2>5. f[Len(seqs)] \in Seq(S)
    BY <1>2, <2>4 DEF T
  <2>6. FlattenSeq(seqs) \in Seq(S)
    BY <2>1, <2>5
  <2>7. ASSUME Len(seqs[Len(seqs)]) # 0 PROVE Len(f[Len(seqs)]) # 0
    <3> DEFINE last == Len(seqs)
               end == seqs[last]
    <3>1. last \in 1 .. Len(seqs) /\ end \in Seq(S) /\ Len(end) # 0
      BY <1>2, <2>7
    <3>2. f[last] = IF last = 1 THEN end ELSE f[last - 1] \o end
      BY <2>1, <3>1 DEF Joined
    <3>3. CASE last = 1
      BY <3>1, <3>2, <3>3
    <3>4. CASE last # 1
      <4> DEFINE before == f[last - 1]
      <4>1. last - 1 \in Nat /\ last - 1 \in 1 .. Len(seqs)
        BY <3>1, <3>4
      <4>2. before \in Seq(S)
        BY <2>4, <4>1 DEF T
      <4>3. f[last] = before \o end
        BY <3>2, <3>4
      <4> HIDE DEF before, end
      <4>4. Len(before \o end) = Len(before) + Len(end) /\ Len(before) \in Nat /\ Len(end) \in Nat
        BY <3>1, <4>2
      <4> QED BY <3>1, <4>3, <4>4
    <3> QED BY <3>3, <3>4
  <2> HIDE DEF T
  <2> QED BY <2>1, <2>6, <2>7
<1> QED BY <1>1, <1>2

\* b[n] is where the n-th of the sequences begins in what they are joined to.
Begins(b, seqs) ==
  b[1] = 0 /\ \A n \in 1 .. Len(seqs) : b[n + 1] = b[n] + Len(seqs[n])

LEMMA BeginsGrow ==
  ASSUME NEW seqs, NEW b, Begins(b, seqs), Len(seqs) \in Nat,
         \A n \in 1 .. Len(seqs) : Len(seqs[n]) \in Nat
  PROVE  /\ \A n \in 1 .. Len(seqs) + 1 : b[n] \in Nat
         /\ \A n \in 1 .. Len(seqs), m \in 1 .. Len(seqs) + 1 :
              n < m => b[n] + Len(seqs[n]) <= b[m]
<1> DEFINE T == {n \in Nat : n \in 1 .. Len(seqs) + 1 => b[n] \in Nat}
<1>1. 0 \in T
  OBVIOUS
<1>2. ASSUME NEW n \in Nat, n \in T PROVE n + 1 \in T
  <2> SUFFICES ASSUME n + 1 \in 1 .. Len(seqs) + 1 PROVE b[n + 1] \in Nat
    OBVIOUS
  <2>1. CASE n = 0
    BY <2>1 DEF Begins
  <2>2. CASE n # 0
    <3>1. n \in 1 .. Len(seqs) /\ n \in 1 .. Len(seqs) + 1
      BY <2>2
    <3>2. b[n + 1] = b[n] + Len(seqs[n]) /\ b[n] \in Nat /\ Len(seqs[n]) \in Nat
      BY <1>2, <3>1 DEF Begins
    <3> QED BY <3>2
  <2> QED BY <2>1, <2>2
<1> HIDE DEF T
<1>3. \A n \in 1 .. Len(seqs) + 1 : b[n] \in Nat
  <2>1. Nat \subseteq T
    BY <1>1, <1>2, NaturalsAreInductive
  <2>2. \A n \in 1 .. Len(seqs) + 1 : n \in Nat
    OBVIOUS
  <2> QED BY <2>1, <2>2 DEF T
<1>4. ASSUME NEW n \in 1 .. Len(seqs)
      PROVE  \A m \in 1 .. Len(seqs) + 1 : n < m => b[n] + Len(seqs[n]) <= b[m]
  <2> DEFINE after == b[n] + Len(seqs[n])
             U == {m \in Nat : m \in 1 .. Len(seqs) + 1 /\ n < m => after <= b[m]}
  <2>0. after = b[n + 1] /\ after \in Nat
    BY <1>3 DEF Begins
  <2> HIDE DEF after
  <2>1. 0 \in U
    OBVIOUS
  <2>2. ASSUME NEW m \in Nat, m \in U PROVE m + 1 \in U
    <3> SUFFICES ASSUME m + 1 \in 1 .. Len(seqs) + 1, n < m + 1 PROVE after <= b[m + 1]
      OBVIOUS
    <3>1. CASE m = n
      BY <2>0, <3>1
    <3>2. CASE m # n
      <4>1. m \in 1 .. Len(seqs) /\ m \in 1 .. Len(seqs) + 1 /\ n < m
        BY <3>2
      <4>2. b[m + 1] = b[m] + Len(seqs[m]) /\ b[m] \in Nat /\ Len(seqs[m]) \in Nat
        BY <1>3, <4>1 DEF Begins
      <4>3. after <= b[m]
        BY <2>2, <4>1
      <4> QED BY <2>0, <4>2, <4>3
    <3> QED BY <3>1, <3>2
  <2> HIDE DEF U
  <2>3. Nat \subseteq U
    BY <2>1, <2>2, NaturalsAreInductive
  <2> QED BY <2>3 DEF U, after
<1> QED BY <1>3, <1>4

\* Every position of a joined sequence is a position of one of its parts.
LEMMA BeginsCover ==
  ASSUME NEW seqs, NEW b, Begins(b, seqs), Len(seqs) \in Nat,
         \A n \in 1 .. Len(seqs) : Len(seqs[n]) \in Nat
  PROVE  \A p \in 1 .. b[Len(seqs) + 1] :
           \E n \in 1 .. Len(seqs) : p - b[n] \in 1 .. Len(seqs[n])
<1>1. \A n \in 1 .. Len(seqs) + 1 : b[n] \in Nat
  BY BeginsGrow
<1> DEFINE within(n, p) == p - b[n] \in 1 .. Len(seqs[n])
           U == {m \in Nat : m \in 1 .. Len(seqs) + 1 =>
                   \A p \in 1 .. b[m] : \E n \in 1 .. Len(seqs) : within(n, p)}
<1>2. 0 \in U
  OBVIOUS
<1>3. ASSUME NEW m \in Nat, m \in U PROVE m + 1 \in U
  <2> SUFFICES ASSUME m + 1 \in 1 .. Len(seqs) + 1, NEW p \in 1 .. b[m + 1]
               PROVE  \E n \in 1 .. Len(seqs) : within(n, p)
    OBVIOUS
  <2>1. CASE m = 0
    BY <2>1 DEF Begins
  <2>2. CASE m # 0
    <3>1. m \in 1 .. Len(seqs) /\ m \in 1 .. Len(seqs) + 1
      BY <2>2
    <3>2. b[m + 1] = b[m] + Len(seqs[m]) /\ b[m] \in Nat /\ Len(seqs[m]) \in Nat
      BY <1>1, <3>1 DEF Begins
    <3>3. CASE p <= b[m]
      <4>1. p \in 1 .. b[m]
        BY <3>2, <3>3
      <4> QED BY <1>3, <3>1, <4>1
    <3>4. CASE p > b[m]
      <4>1. within(m, p)
        BY <3>2, <3>4
      <4> QED BY <3>1, <4>1
    <3> QED BY <3>2, <3>3, <3>4
  <2> QED BY <2>1, <2>2
<1> HIDE DEF U
<1>4. Nat \subseteq U
  BY <1>2, <1>3, NaturalsAreInductive
<1>5. Len(seqs) + 1 \in Nat /\ Len(seqs) + 1 \in 1 .. Len(seqs) + 1
  OBVIOUS
<1> QED BY <1>4, <1>5 DEF U

\* What a joined sequence is at each position of its parts.
IsJoin(flat, seqs, b) ==
  /\ Len(flat) = b[Len(seqs) + 1]
  /\ \A n \in 1 .. Len(seqs) : \A k \in 1 .. Len(seqs[n]) :
       b[n] + k \in 1 .. Len(flat) /\ flat[b[n] + k] = seqs[n][k]

LEMMA FlattenIs ==
  ASSUME NEW S, NEW seqs, NEW b, Begins(b, seqs),
         Len(seqs) \in Nat, DOMAIN seqs = 1 .. Len(seqs),
         \A n \in 1 .. Len(seqs) : seqs[n] \in Seq(S)
  PROVE  IsJoin(FlattenSeq(seqs), seqs, b)
<1> USE DEF IsJoin
<1>0. /\ \A n \in 1 .. Len(seqs) : Len(seqs[n]) \in Nat
      /\ \A n \in 1 .. Len(seqs) + 1 : b[n] \in Nat
      /\ \A n \in 1 .. Len(seqs), m \in 1 .. Len(seqs) + 1 :
           n < m => b[n] + Len(seqs[n]) <= b[m]
  <2>1. \A n \in 1 .. Len(seqs) : Len(seqs[n]) \in Nat
    OBVIOUS
  <2> QED BY <2>1, BeginsGrow
<1>1. CASE Len(seqs) = 0
  <2>1. FlattenSeq(seqs) = seqs
    BY <1>1 DEF FlattenSeq
  <2> QED BY <1>1, <2>1 DEF Begins
<1>2. CASE Len(seqs) # 0
  <2>1. PICK f : Joined(f, seqs) /\ FlattenSeq(seqs) = f[Len(seqs)]
    BY <1>2, FlattenIsJoin
  <2> DEFINE fits(m) == /\ f[m] \in Seq(S) /\ Len(f[m]) = b[m + 1]
                        /\ \A n \in 1 .. m : \A k \in 1 .. Len(seqs[n]) :
                             f[m][b[n] + k] = seqs[n][k]
             T == {m \in Nat : m \in 1 .. Len(seqs) => fits(m)}
  <2>2. 0 \in T
    OBVIOUS
  <2>3. ASSUME NEW m \in Nat, m \in T PROVE m + 1 \in T
    <3> SUFFICES ASSUME m + 1 \in 1 .. Len(seqs) PROVE fits(m + 1)
      OBVIOUS
    <3> DEFINE next == m + 1
               new == seqs[next]
    <3>1. /\ f[next] = IF next = 1 THEN new ELSE f[next - 1] \o new
          /\ new \in Seq(S) /\ next - 1 = m /\ next \in 1 .. Len(seqs)
          /\ b[next + 1] = b[next] + Len(new)
      BY <2>1 DEF Joined, Begins
    <3>2. CASE m = 0
      <4>1. f[next] = new /\ next = 1 /\ b[next] = 0
        BY <3>1, <3>2 DEF Begins
      <4>2. Len(f[next]) = b[next + 1]
        BY <1>0, <3>1, <4>1
      <4>3. ASSUME NEW n \in 1 .. next, NEW k \in 1 .. Len(seqs[n])
            PROVE  f[next][b[n] + k] = seqs[n][k]
        <5>1. n = next /\ k \in 1 .. Len(new) /\ b[n] + k = k
          BY <4>1, <3>2
        <5> QED BY <4>1, <5>1
      <4> QED BY <3>1, <4>1, <4>2, <4>3
    <3>3. CASE m # 0
      <4> DEFINE old == f[m]
      <4>1. m \in 1 .. Len(seqs) /\ next # 1
        BY <3>3
      <4>2. f[next] = old \o new /\ fits(m)
        BY <2>3, <3>1, <4>1
      <4>3. /\ old \in Seq(S) /\ Len(old) = b[next] /\ Len(old) \in Nat /\ Len(new) \in Nat
        BY <3>1, <4>2
      <4>4. f[next] \in Seq(S) /\ Len(f[next]) = b[next + 1]
        <5> HIDE DEF old, new, next
        <5> QED BY <3>1, <4>2, <4>3
      <4>5. /\ \A k \in 1 .. Len(old) : f[next][k] = old[k]
            /\ \A k \in 1 .. Len(new) : f[next][b[next] + k] = new[k]
        <5> DEFINE all == f[next]
        <5>1. all = old \o new /\ old \in Seq(S) /\ new \in Seq(S) /\ Len(old) = b[next]
          BY <3>1, <4>2, <4>3
        <5> HIDE DEF old, new, next, all
        <5>2. \A k \in 1 .. Len(old) : (old \o new)[k] = old[k]
          BY <5>1
        <5>3. \A k \in 1 .. Len(new) : (old \o new)[Len(old) + k] = new[k]
          <6> TAKE k \in 1 .. Len(new)
          <6>1. Len(old) \in Nat /\ Len(new) \in Nat
            BY <5>1
          <6>2. /\ Len(old) + k \in 1 .. Len(old) + Len(new)
                /\ ~(Len(old) + k <= Len(old)) /\ (Len(old) + k) - Len(old) = k
            BY <6>1
          <6>3. \A i \in 1 .. Len(old) + Len(new) :
                  (old \o new)[i] = IF i <= Len(old) THEN old[i] ELSE new[i - Len(old)]
            BY <5>1, ConcatProperties
          <6> QED BY <6>2, <6>3
        <5> QED BY <5>1, <5>2, <5>3 DEF all
      <4>7. ASSUME NEW n \in 1 .. next, NEW k \in 1 .. Len(seqs[n])
            PROVE  f[next][b[n] + k] = seqs[n][k]
        <5>1. CASE n = next
          BY <4>5, <5>1
        <5>2. CASE n # next
          <6>1. n \in 1 .. m /\ n \in 1 .. Len(seqs) /\ n < next /\ next \in 1 .. Len(seqs) + 1
            BY <3>1, <5>2
          <6>2. old[b[n] + k] = seqs[n][k]
            BY <4>2, <6>1
          <6>3. b[n] + Len(seqs[n]) <= b[next] /\ b[n] \in Nat /\ Len(seqs[n]) \in Nat
            BY <1>0, <6>1
          <6>4. b[n] + k \in 1 .. Len(old)
            <7> HIDE DEF old, next
            <7> QED BY SMTT(30), <4>3, <6>3
          <6> QED BY <4>5, <6>2, <6>4
        <5> QED BY <5>1, <5>2
      <4> QED BY <4>4, <4>7
    <3> QED BY <3>2, <3>3
  <2> HIDE DEF T
  <2>4. Nat \subseteq T
    BY <2>2, <2>3, NaturalsAreInductive
  <2>5. fits(Len(seqs))
    <3>1. Len(seqs) \in Nat /\ Len(seqs) \in 1 .. Len(seqs)
      BY <1>2
    <3> QED BY <2>4, <3>1 DEF T
  <2>6. ASSUME NEW n \in 1 .. Len(seqs), NEW k \in 1 .. Len(seqs[n])
        PROVE  b[n] + k \in 1 .. b[Len(seqs) + 1]
    <3>1. n < Len(seqs) + 1 /\ Len(seqs) + 1 \in 1 .. Len(seqs) + 1 /\ n \in 1 .. Len(seqs) + 1
      OBVIOUS
    <3>2. b[n] + Len(seqs[n]) <= b[Len(seqs) + 1] /\ b[n] \in Nat
          /\ Len(seqs[n]) \in Nat /\ b[Len(seqs) + 1] \in Nat
      BY <1>0, <3>1
    <3> QED BY <3>2
  <2> QED BY <2>1, <2>5, <2>6
<1> QED BY <1>1, <1>2

LEMMA BeginsExist ==
  ASSUME NEW seqs, Len(seqs) \in Nat
  PROVE  \E b : Begins(b, seqs)
<1> DEFINE s == [n \in 1 .. Len(seqs) |-> Len(seqs[n])]
<1>1. \A n \in 1 .. Len(seqs) : s[n] = Len(seqs[n])
  OBVIOUS
<1> HIDE DEF s
<1>2. PICK f : f[0] = 0 /\ \A n \in 1 .. Len(seqs) : f[n] = f[n - 1] + s[n]
  BY SumsExist
<1> DEFINE b == [n \in 1 .. Len(seqs) + 1 |-> f[n - 1]]
<1>3. b[1] = 0
  BY <1>2
<1>4. ASSUME NEW n \in 1 .. Len(seqs) PROVE b[n + 1] = b[n] + Len(seqs[n])
  <2>1. b[n + 1] = f[(n + 1) - 1] /\ b[n] = f[n - 1] /\ (n + 1) - 1 = n
    OBVIOUS
  <2> HIDE DEF b
  <2> QED BY <1>1, <1>2, <2>1
<1> HIDE DEF b
<1>5. Begins(b, seqs)
  BY <1>3, <1>4 DEF Begins
<1> QED BY <1>5

\* Joining one sequence more appends it.
LEMMA FlattenAppend ==
  ASSUME NEW S, NEW seqs \in Seq(Seq(S)), NEW x \in Seq(S)
  PROVE  FlattenSeq(Append(seqs, x)) = FlattenSeq(seqs) \o x
<1> DEFINE n == Len(seqs)
           more == Append(seqs, x)
<1>1. /\ n \in Nat /\ Len(more) = n + 1 /\ more[n + 1] = x
      /\ \A k \in 1 .. n : more[k] = seqs[k]
  BY AppendProperties
<1>2. DOMAIN seqs = 1 .. n /\ \A k \in 1 .. n : seqs[k] \in Seq(S)
  OBVIOUS
<1> HIDE DEF more
<1>3. PICK f : Joined(f, more) /\ FlattenSeq(more) = f[n + 1]
  BY <1>1, FlattenIsJoin
<1>4. f[n + 1] = IF n = 0 THEN x ELSE f[n] \o x
  <2>1. n + 1 \in 1 .. Len(more) /\ (n + 1) - 1 = n
    BY <1>1
  <2> QED BY <1>1, <1>3, <2>1 DEF Joined
<1>5. CASE n = 0
  <2>1. FlattenSeq(seqs) = <<>>
    BY <1>5 DEF FlattenSeq
  <2> QED BY <1>3, <1>4, <1>5, <2>1 DEF more
<1>6. CASE n # 0
  <2>1. PICK g : Joined(g, seqs) /\ FlattenSeq(seqs) = g[n]
    BY <1>1, <1>6, FlattenIsJoin
  <2> DEFINE T == {k \in Nat : k \in 1 .. n => f[k] = g[k]}
  <2>2. 0 \in T
    OBVIOUS
  <2>3. ASSUME NEW k \in Nat, k \in T PROVE k + 1 \in T
    <3> SUFFICES ASSUME k + 1 \in 1 .. n PROVE f[k + 1] = g[k + 1]
      OBVIOUS
    <3>1. k + 1 \in 1 .. Len(more) /\ (k + 1) - 1 = k /\ more[k + 1] = seqs[k + 1]
      BY <1>1
    <3>2. f[k + 1] = IF k + 1 = 1 THEN seqs[k + 1] ELSE f[k] \o seqs[k + 1]
      BY <1>3, <3>1 DEF Joined
    <3>3. g[k + 1] = IF k + 1 = 1 THEN seqs[k + 1] ELSE g[k] \o seqs[k + 1]
      BY <2>1, <3>1 DEF Joined
    <3>4. k + 1 # 1 => f[k] = g[k]
      BY <2>3, <1>1
    <3> QED BY <3>2, <3>3, <3>4
  <2> HIDE DEF T
  <2>4. Nat \subseteq T
    BY <2>2, <2>3, NaturalsAreInductive
  <2>5. f[n] = g[n]
    BY <1>1, <1>6, <2>4 DEF T
  <2> QED BY <1>3, <1>4, <1>6, <2>1, <2>5 DEF more
<1> QED BY <1>5, <1>6

\* Every element of a joined sequence is an element of one of its parts.
LEMMA FlattenHas ==
  ASSUME NEW S, NEW seqs \in Seq(Seq(S))
  PROVE  /\ FlattenSeq(seqs) \in Seq(S)
         /\ \A j \in 1 .. Len(FlattenSeq(seqs)) : \E n \in 1 .. Len(seqs) :
              \E k \in 1 .. Len(seqs[n]) : FlattenSeq(seqs)[j] = seqs[n][k]
<1> DEFINE flat == FlattenSeq(seqs)
<1>1. /\ Len(seqs) \in Nat /\ DOMAIN seqs = 1 .. Len(seqs)
      /\ \A n \in 1 .. Len(seqs) : seqs[n] \in Seq(S)
  OBVIOUS
<1>2. \A n \in 1 .. Len(seqs) : Len(seqs[n]) \in Nat
  BY <1>1
<1>3. PICK b : Begins(b, seqs)
  BY <1>1, BeginsExist
<1>4. IsJoin(flat, seqs, b)
  BY <1>1, <1>3, FlattenIs
<1>5. flat \in Seq(S)
  BY <1>1, FlattenIsSeq
<1>6. \A n \in 1 .. Len(seqs) + 1 : b[n] \in Nat
  BY <1>1, <1>2, <1>3, BeginsGrow
<1> HIDE DEF flat
<1>7. ASSUME NEW j \in 1 .. Len(flat)
      PROVE  \E n \in 1 .. Len(seqs) : \E k \in 1 .. Len(seqs[n]) : flat[j] = seqs[n][k]
  <2>1. j \in 1 .. b[Len(seqs) + 1]
    BY <1>4 DEF IsJoin
  <2>2. PICK n \in 1 .. Len(seqs) : j - b[n] \in 1 .. Len(seqs[n])
    BY <1>1, <1>2, <1>3, <2>1, BeginsCover
  <2>3. b[n] \in Nat /\ b[n] + (j - b[n]) = j
    BY <1>1, <1>6
  <2>4. flat[b[n] + (j - b[n])] = seqs[n][j - b[n]]
    BY <1>4, <2>2 DEF IsJoin
  <2> QED BY <2>2, <2>3, <2>4
<1> QED BY <1>5, <1>7 DEF flat

LEMMA FlattenOne ==
  ASSUME NEW S, NEW x \in Seq(S)
  PROVE  FlattenSeq(<<x>>) = x
<1> DEFINE none == <<>>
<1>1. none \in Seq(Seq(S)) /\ Len(none) = 0
  OBVIOUS
<1>2. Append(none, x) = <<x>> /\ none \o x = x
  OBVIOUS
<1> HIDE DEF none
<1>3. FlattenSeq(Append(none, x)) = FlattenSeq(none) \o x
  BY <1>1, FlattenAppend
<1>4. FlattenSeq(none) = none
  BY <1>1 DEF FlattenSeq
<1> QED BY <1>2, <1>3, <1>4

-----------------------------------------------------------------------------
\* The members of X that key gives g, or one of s.
Keyed(key, X, g)  == {x \in X : key[x] = g}
Within(key, X, s) == {x \in X : key[x] \in s}

\* One element more adds its members.
LEMMA WithinAddsUp ==
  ASSUME NEW X, IsFiniteSet(X), NEW key, NEW s, NEW g \in s
  PROVE  /\ Cardinality(Within(key, X, s)) \in Nat
         /\ Cardinality(Within(key, X, s))
              = Cardinality(Within(key, X, s \ {g})) + Cardinality(Keyed(key, X, g))
<1> DEFINE all  == Within(key, X, s)
           rest == Within(key, X, s \ {g})
           one  == Keyed(key, X, g)
<1>1. all = one \cup rest /\ one \cap rest = {}
  BY DEF Within, Keyed
<1>2. all \in SUBSET X /\ one \in SUBSET X /\ rest \in SUBSET X
  BY DEF Within, Keyed
<1> HIDE DEF all, rest, one
<1>3. IsFiniteSet(one) /\ IsFiniteSet(rest)
  BY <1>2, FS_Subset
<1>4. Cardinality(one) \in Nat /\ Cardinality(rest) \in Nat
  BY <1>3, FS_CardinalityType
<1>5. Cardinality(one \cap rest) = 0
  BY <1>1, FS_EmptySet
<1>6. Cardinality(one \cup rest) = Cardinality(one) + Cardinality(rest) - Cardinality(one \cap rest)
  BY <1>3, FS_Union
<1>7. Cardinality(all) = Cardinality(rest) + Cardinality(one)
  BY <1>1, <1>4, <1>5, <1>6
<1> QED BY <1>4, <1>7 DEF all, rest, one

\* A sum that takes the elements one by one, in any order, is that of all.
AddsUp(D, X, key, h) ==
  /\ IsFiniteSet(D) /\ IsFiniteSet(X) /\ \A x \in X : key[x] \in D
  /\ h[{}] = 0
  /\ \A s \in SUBSET D : s # {} =>
       \E g \in s : h[s] = h[s \ {g}] + Cardinality(Keyed(key, X, g))

LEMMA AddedUp ==
  ASSUME NEW D, NEW X, NEW key, NEW h, AddsUp(D, X, key, h)
  PROVE  h[D] = Cardinality(X)
<1> USE DEF AddsUp
<1> DEFINE T == {n \in Nat : \A s \in SUBSET D :
                   Cardinality(s) = n => h[s] = Cardinality(Within(key, X, s))}
<1>1. Within(key, X, {}) = {} /\ Within(key, X, D) = X
  BY DEF Within
<1>2. \A s \in SUBSET D : IsFiniteSet(s) /\ Cardinality(s) \in Nat /\ (Cardinality(s) = 0 <=> s = {})
  BY FS_Subset, FS_CardinalityType, FS_EmptySet
<1>3. 0 \in T
  <2>1. ASSUME NEW s \in SUBSET D, Cardinality(s) = 0
        PROVE  h[s] = Cardinality(Within(key, X, s))
    <3>1. s = {}
      BY <1>2, <2>1
    <3>2. Cardinality(Within(key, X, s)) = 0
      BY <1>1, <3>1, FS_EmptySet
    <3> QED BY <3>1, <3>2
  <2> QED BY <2>1
<1>4. ASSUME NEW n \in Nat, n \in T PROVE n + 1 \in T
  <2>1. ASSUME NEW s \in SUBSET D, Cardinality(s) = n + 1
        PROVE  h[s] = Cardinality(Within(key, X, s))
    <3>1. s # {} /\ IsFiniteSet(s)
      BY <1>2, <2>1
    <3>2. PICK g \in s : h[s] = h[s \ {g}] + Cardinality(Keyed(key, X, g))
      BY <3>1
    <3>3. Cardinality(s \ {g}) = n
      <4>1. Cardinality(s \ {g}) = Cardinality(s) - 1
        BY <3>1, FS_RemoveElement
      <4> QED BY <2>1, <4>1
    <3>4. h[s \ {g}] = Cardinality(Within(key, X, s \ {g}))
      BY <1>4, <3>3
    <3> QED BY <3>2, <3>4, WithinAddsUp
  <2> QED BY <2>1
<1> HIDE DEF T
<1>5. Nat \subseteq T
  BY <1>3, <1>4, NaturalsAreInductive
<1>6. Cardinality(D) \in T
  BY <1>2, <1>5
<1> QED BY <1>1, <1>6 DEF T

\* A set of the first naturals has a greatest element.
LEMMA MaxIs ==
  ASSUME NEW n \in Nat, NEW s \in SUBSET (0 .. n), s # {}
  PROVE  Max(s) \in s /\ \A y \in s : y <= Max(s)
<1> DEFINE T == {k \in 0 .. n : n - k \in s}
<1>1. T \in SUBSET Nat /\ T # {}
  <2>1. PICK x \in s : TRUE
    OBVIOUS
  <2>2. n - (n - x) = x /\ n - x \in 0 .. n
    BY <2>1
  <2> QED BY <2>2
<1>2. PICK k \in T : \A m \in T : k <= m
  <2> HIDE DEF T
  <2> QED BY <1>1, LeastNatural
<1>3. ASSUME NEW y \in s PROVE y <= n - k
  <2>1. n - y \in 0 .. n /\ n - (n - y) = y
    OBVIOUS
  <2>2. k <= n - y
    BY <1>2, <2>1
  <2> QED BY <1>2, <2>2
<1>4. n - k \in s /\ \A y \in s : n - k >= y
  BY <1>2, <1>3
<1>5. Max(s) \in s /\ \A y \in s : Max(s) >= y
  BY <1>4 DEF Max
<1> QED BY <1>5

\* A fold that takes the greatest of what is left last exists.
IsFold(h, V, base, n, step) ==
  /\ h \in [SUBSET (1 .. n) -> V] /\ h[{}] = base
  /\ \A s \in SUBSET (1 .. n) : s # {} => h[s] = step[<<Max(s), h[s \ {Max(s)}]>>]

LEMMA FoldsExist ==
  ASSUME NEW V, NEW base \in V, NEW n \in Nat, NEW step \in [(1 .. n) \X V -> V]
  PROVE  \E h : IsFold(h, V, base, n, step)
<1> USE DEF IsFold
<1> DEFINE Fold(h, m) == IsFold(h, V, base, m, step)
           T == {m \in Nat : m <= n => \E h : Fold(h, m)}
<1>1. 0 \in T
  <2> DEFINE g == [s \in SUBSET (1 .. 0) |-> base]
  <2>1. \A s \in SUBSET (1 .. 0) : s = {}
    OBVIOUS
  <2>2. Fold(g, 0)
    BY <2>1
  <2> QED BY <2>2
<1>2. ASSUME NEW m \in Nat, m \in T PROVE m + 1 \in T
  <2>1. SUFFICES ASSUME m + 1 <= n PROVE \E h : Fold(h, m + 1)
    <3> HIDE DEF Fold
    <3> QED OBVIOUS
  <2>2. PICK h : Fold(h, m)
    <3> HIDE DEF Fold
    <3> QED BY <1>2, <2>1
  <2> DEFINE g == [s \in SUBSET (1 .. m + 1) |->
                     IF m + 1 \in s THEN step[<<m + 1, h[s \ {m + 1}]>>] ELSE h[s]]
  <2>3. \A s \in SUBSET (1 .. m + 1) : /\ s \ {m + 1} \in SUBSET (1 .. m)
                                       /\ m + 1 \notin s => s \in SUBSET (1 .. m)
    OBVIOUS
  <2>4. \A s \in SUBSET (1 .. m) : h[s] \in V /\ g[s] = h[s]
    BY <2>2
  <2>5. g \in [SUBSET (1 .. m + 1) -> V]
    <3>1. m + 1 \in 1 .. n
      BY <2>1
    <3>2. ASSUME NEW s \in SUBSET (1 .. m + 1) PROVE g[s] \in V
      <4>1. CASE m + 1 \in s
        <5>1. <<m + 1, h[s \ {m + 1}]>> \in (1 .. n) \X V
          BY <2>3, <2>4, <3>1
        <5>2. g[s] = step[<<m + 1, h[s \ {m + 1}]>>]
          BY <4>1
        <5> QED BY <5>1, <5>2
      <4>2. CASE m + 1 \notin s
        BY <2>3, <2>4, <4>2
      <4> QED BY <4>1, <4>2
    <3> QED BY <3>2
  <2>6. ASSUME NEW s \in SUBSET (1 .. m + 1), s # {}
        PROVE  g[s] = step[<<Max(s), g[s \ {Max(s)}]>>]
    <3>1. CASE m + 1 \in s
      <4>1. Max(s) = m + 1
        <5>1. s \in SUBSET (0 .. m + 1) /\ m + 1 \in Nat
          OBVIOUS
        <5>2. Max(s) \in s /\ \A y \in s : y <= Max(s)
          BY <2>6, <5>1, MaxIs
        <5>3. Max(s) \in 0 .. m + 1 /\ m + 1 <= Max(s)
          BY <3>1, <5>1, <5>2
        <5> QED BY ONLY <5>3, m \in Nat
      <4>2. g[s] = step[<<m + 1, h[s \ {m + 1}]>>]
        BY <3>1
      <4>3. g[s \ {m + 1}] = h[s \ {m + 1}]
        BY <2>3, <2>4
      <4> HIDE DEF g
      <4> QED BY <4>1, <4>2, <4>3
    <3>2. CASE m + 1 \notin s
      <4>1. s \in SUBSET (1 .. m) /\ s \ {Max(s)} \in SUBSET (1 .. m)
        BY <2>3, <3>2
      <4>2. g[s] = h[s] /\ g[s \ {Max(s)}] = h[s \ {Max(s)}]
        BY <2>4, <4>1
      <4> HIDE DEF g
      <4> QED BY <2>2, <2>6, <4>1, <4>2
    <3> QED BY <3>1, <3>2
  <2>7. g[{}] = base
    BY <2>2, <2>4
  <2> HIDE DEF g
  <2>8. Fold(g, m + 1)
    BY <2>5, <2>6, <2>7
  <2> HIDE DEF Fold
  <2> QED BY <2>8
<1> HIDE DEF T
<1>3. n \in T
  BY <1>1, <1>2, NaturalsAreInductive
<1>4. \E h : Fold(h, n)
  <2> HIDE DEF Fold
  <2> QED BY <1>3 DEF T
<1> QED BY <1>4

\* A list of naturals has a greatest one.
LEMMA GreatestNatural ==
  ASSUME NEW n \in Nat \ {0}, NEW f \in [1 .. n -> Nat]
  PROVE  \E r \in 1 .. n : \A s \in 1 .. n : f[s] <= f[r]
<1> DEFINE T == {k \in Nat : k \in 1 .. n => \E r \in 1 .. k : \A s \in 1 .. k : f[s] <= f[r]}
<1>1. 0 \in T
  OBVIOUS
<1>2. ASSUME NEW k \in Nat, k \in T PROVE k + 1 \in T
  <2>1. SUFFICES ASSUME k + 1 \in 1 .. n
                 PROVE  \E r \in 1 .. k + 1 : \A s \in 1 .. k + 1 : f[s] <= f[r]
    OBVIOUS
  <2>2. CASE k = 0
    <3>1. \A s \in 1 .. k + 1 : s = 1
      BY <2>2
    <3> QED BY <2>1, <2>2, <3>1
  <2>3. CASE k # 0
    <3>1. PICK r \in 1 .. k : \A s \in 1 .. k : f[s] <= f[r]
      BY <1>2, <2>1, <2>3
    <3>2. \A s \in 1 .. k + 1 : s \in 1 .. k \/ s = k + 1
      OBVIOUS
    <3>3. f[r] \in Nat /\ f[k + 1] \in Nat /\ \A s \in 1 .. k : f[s] \in Nat
      BY <2>1, <3>1
    <3>4. CASE f[k + 1] <= f[r]
      <4>1. \A s \in 1 .. k + 1 : f[s] <= f[r]
        BY <3>1, <3>2, <3>4
      <4>2. r \in 1 .. k + 1
        BY <3>1
      <4> QED BY <4>1, <4>2
    <3>5. CASE ~(f[k + 1] <= f[r])
      <4>1. \A s \in 1 .. k + 1 : f[s] <= f[k + 1]
        BY <3>1, <3>2, <3>3, <3>5
      <4>2. k + 1 \in 1 .. k + 1
        OBVIOUS
      <4> QED BY <4>1, <4>2
    <3> QED BY <3>4, <3>5
  <2> QED BY <2>2, <2>3
<1> HIDE DEF T
<1>3. n \in T
  BY <1>1, <1>2, NaturalsAreInductive
<1> QED BY <1>3 DEF T
=============================================================================
