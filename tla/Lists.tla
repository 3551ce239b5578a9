---------------------------------- MODULE Lists ----------------------------------
(***************************************************************************)
(* What the code does with arrays: Array.prototype.filter() and the        *)
(* removal of repetitions.  A list is picked by its positions, which is    *)
(* all there is to say: the rest keeps its order.                          *)
(***************************************************************************)
EXTENDS Integers, Sequences, FiniteSets, Functions, FiniteSetTheorems, WellFoundedInduction, TLAPS

(* The elements at the positions I of s, in their order.                   *)
Pick(s, I) ==
  [k \in 1 .. Cardinality(I) |-> s[CHOOSE i \in I : Cardinality({j \in I : j <= i}) = k]]

Within(s, S) == Pick(s, {i \in DOMAIN s : s[i] \in S})
Without(s, S) == Pick(s, {i \in DOMAIN s : s[i] \notin S})

(* Each element once, where it is first.                                   *)
Distinct(s) == Pick(s, {i \in DOMAIN s : \A j \in 1 .. i - 1 : s[j] # s[i]})
-----------------------------------------------------------------------------
Rank(I, i) == Cardinality({j \in I : j <= i})

(* Positions are counted as they come.                                     *)
LEMMA Ranks ==
  ASSUME NEW n \in Nat, NEW I \in SUBSET (1 .. n)
  PROVE  /\ IsFiniteSet(I) /\ Cardinality(I) \in Nat
         /\ \A i \in I : Rank(I, i) \in 1 .. Cardinality(I)
         /\ \A i, j \in I : i < j => Rank(I, i) < Rank(I, j)
         /\ \A k \in 1 .. Cardinality(I) : \E i \in I : Rank(I, i) = k
<1>1. IsFiniteSet(I) /\ Cardinality(I) \in Nat
  BY FS_Interval, FS_Subset, FS_CardinalityType, 1 \in Int, n \in Int
<1> DEFINE Upto(i) == {j \in I : j <= i}
<1>2. \A i \in I : IsFiniteSet(Upto(i)) /\ Cardinality(Upto(i)) \in Nat /\ Cardinality(Upto(i)) <= Cardinality(I)
  BY <1>1, FS_Subset, FS_CardinalityType
<1>3. ASSUME NEW i \in I PROVE Rank(I, i) \in 1 .. Cardinality(I)
  <2>1. i \in Upto(i)
    OBVIOUS
  <2>2. Cardinality(Upto(i)) # 0
    BY <1>2, <2>1, FS_EmptySet
  <2> QED
    BY <1>1, <1>2, <2>2 DEF Rank
<1>4. ASSUME NEW i \in I, NEW j \in I, i < j PROVE Rank(I, i) < Rank(I, j)
  <2>0. \A k \in I : k \in Int
    OBVIOUS
  <2>4. (\A k \in I : k <= i => k <= j) /\ j <= j /\ ~ (j <= i)
    BY <1>4, <2>0
  <2>1. Upto(i) \subseteq Upto(j) /\ j \in Upto(j) /\ j \notin Upto(i)
    BY <2>4
  <2>2. Upto(i) \in SUBSET Upto(j) /\ Upto(i) # Upto(j)
    BY <2>1
  <2>3. Cardinality(Upto(i)) <= Cardinality(Upto(j)) /\ Cardinality(Upto(j)) # Cardinality(Upto(i))
    <3> HIDE DEF Upto
    <3> QED BY <1>2, <2>2, FS_Subset
  <2> QED
    BY <1>2, <2>3 DEF Rank
<1>5. \A k \in 1 .. Cardinality(I) : \E i \in I : Rank(I, i) = k
  <2> DEFINE T == 1 .. Cardinality(I)
             f == [i \in I |-> Rank(I, i)]
  <2>1. f \in Injection(I, T)
    <3>1. f \in [I -> T]
      BY <1>3
    <3>2. \A i, j \in I : f[i] = f[j] => i = j
      <4> SUFFICES ASSUME NEW i \in I, NEW j \in I, i # j, f[i] = f[j] PROVE FALSE
        OBVIOUS
      <4>1. i < j \/ j < i
        OBVIOUS
      <4>2. Rank(I, i) = Rank(I, j) /\ Rank(I, i) \in Int
        BY <1>1, <1>3
      <4> QED
        BY <1>4, <4>1, <4>2
    <3> QED
      BY <3>1, <3>2 DEF Injection, IsInjective
  <2>2. IsFiniteSet(T) /\ Cardinality(T) = Cardinality(I)
    BY <1>1, FS_Interval, 1 \in Int, Cardinality(I) \in Int
  <2>3. f \in Surjection(I, T)
    <3> HIDE DEF T, f
    <3> QED BY <2>1, <2>2, FS_Injection
  <2> QED
    BY <2>3 DEF Surjection
<1> QED
  BY <1>1, <1>3, <1>4, <1>5

(* What is picked: the elements of the positions, in their order.          *)
LEMMA Picked ==
  ASSUME NEW X, NEW s \in Seq(X), NEW I \in SUBSET (DOMAIN s)
  PROVE  /\ Pick(s, I) \in Seq(X)
         /\ Len(Pick(s, I)) = Cardinality(I) /\ DOMAIN Pick(s, I) = 1 .. Cardinality(I) /\ Cardinality(I) \in Nat
         /\ \A k \in 1 .. Cardinality(I) : \E i \in I : Rank(I, i) = k /\ Pick(s, I)[k] = s[i]
         /\ \A i \in I : \E k \in 1 .. Cardinality(I) : Rank(I, i) = k /\ Pick(s, I)[k] = s[i]
<1>0. Len(s) \in Nat /\ DOMAIN s = 1 .. Len(s) /\ I \in SUBSET (1 .. Len(s))
  OBVIOUS
<1>1. /\ IsFiniteSet(I) /\ Cardinality(I) \in Nat
      /\ \A i \in I : Rank(I, i) \in 1 .. Cardinality(I)
      /\ \A i, j \in I : i < j => Rank(I, i) < Rank(I, j)
      /\ \A k \in 1 .. Cardinality(I) : \E i \in I : Rank(I, i) = k
  BY <1>0, Ranks
<1> DEFINE c == Cardinality(I)
           at(k) == CHOOSE i \in I : Rank(I, i) = k
<1>2. Pick(s, I) = [k \in 1 .. c |-> s[at(k)]]
  BY DEF Pick, Rank
<1>3. \A k \in 1 .. c : at(k) \in I /\ Rank(I, at(k)) = k
  BY <1>1
<1>4. \A i, j \in I : Rank(I, i) = Rank(I, j) => i = j
  <2> SUFFICES ASSUME NEW i \in I, NEW j \in I, i # j, Rank(I, i) = Rank(I, j) PROVE FALSE
    OBVIOUS
  <2>1. (i < j \/ j < i) /\ Rank(I, i) \in Int
    BY <1>0, <1>1
  <2> QED
    BY <1>1, <2>1
<1> HIDE DEF at
<1>5. \A i \in I : at(Rank(I, i)) = i
  BY <1>1, <1>3, <1>4
<1>6. \A k \in 1 .. c : Pick(s, I)[k] = s[at(k)] /\ s[at(k)] \in X
  BY <1>0, <1>2, <1>3
<1>7. Pick(s, I) \in [1 .. c -> X]
  BY <1>2, <1>6
<1>8. Pick(s, I) \in Seq(X) /\ Len(Pick(s, I)) = c /\ DOMAIN Pick(s, I) = 1 .. c
  BY <1>1, <1>7
<1> QED
  BY <1>1, <1>3, <1>5, <1>6, <1>8

Members(s) == {s[i] : i \in DOMAIN s}
Differing(s) == \A i, j \in DOMAIN s : s[i] = s[j] => i = j

LEMMA PickedSet ==
  ASSUME NEW X, NEW s \in Seq(X), NEW I \in SUBSET (DOMAIN s)
  PROVE  /\ Pick(s, I) \in Seq(X)
         /\ Members(Pick(s, I)) = {s[i] : i \in I}
         /\ (\A i, j \in I : s[i] = s[j] => i = j) => Differing(Pick(s, I))
<1> DEFINE p == Pick(s, I)
           c == Cardinality(I)
<1>1. /\ p \in Seq(X) /\ DOMAIN p = 1 .. c
      /\ \A k \in 1 .. c : \E i \in I : Rank(I, i) = k /\ p[k] = s[i]
      /\ \A i \in I : \E k \in 1 .. c : Rank(I, i) = k /\ p[k] = s[i]
  BY Picked
<1> HIDE DEF p, c
<1>2. Members(p) = {s[i] : i \in I}
  BY <1>1 DEF Members
<1>3. ASSUME \A i, j \in I : s[i] = s[j] => i = j PROVE Differing(p)
  BY <1>1, <1>3 DEF Differing
<1> QED
  BY <1>1, <1>2, <1>3 DEF p

LEMMA Filtered ==
  ASSUME NEW X, NEW s \in Seq(X), NEW S
  PROVE  /\ Within(s, S) \in Seq(X) /\ Members(Within(s, S)) = Members(s) \cap S
         /\ Without(s, S) \in Seq(X) /\ Members(Without(s, S)) = Members(s) \ S
         /\ Differing(s) => Differing(Within(s, S)) /\ Differing(Without(s, S))
<1> DEFINE I == {i \in DOMAIN s : s[i] \in S}
           J == {i \in DOMAIN s : s[i] \notin S}
<1>1. I \in SUBSET (DOMAIN s) /\ J \in SUBSET (DOMAIN s)
  OBVIOUS
<1>2. {s[i] : i \in I} = Members(s) \cap S /\ {s[i] : i \in J} = Members(s) \ S
  BY DEF Members
<1>3. Differing(s) => (\A i, j \in I : s[i] = s[j] => i = j) /\ (\A i, j \in J : s[i] = s[j] => i = j)
  BY DEF Differing
<1>4. Within(s, S) = Pick(s, I) /\ Without(s, S) = Pick(s, J)
  BY DEF Within, Without
<1> HIDE DEF I, J
<1> QED
  BY <1>1, <1>2, <1>3, <1>4, PickedSet

(* Of a list of naturals that is not empty, one is the first.              *)
LEMMA Least ==
  ASSUME NEW T \in SUBSET Nat, T # {}
  PROVE  \E x \in T : \A y \in T : x <= y
<1>1. IsWellFoundedOn(OpToRel(<, Nat), Nat)
  BY NatLessThanWellFounded
<1>2. PICK x \in T : \A y \in T : <<y, x>> \notin OpToRel(<, Nat)
  BY <1>1, WFMin
<1>3. \A y \in T : ~ (y < x)
  BY <1>2 DEF OpToRel
<1> QED
  BY <1>3

LEMMA Deduplicated ==
  ASSUME NEW X, NEW s \in Seq(X)
  PROVE  Distinct(s) \in Seq(X) /\ Members(Distinct(s)) = Members(s) /\ Differing(Distinct(s))
<1> DEFINE I == {i \in DOMAIN s : \A j \in 1 .. i - 1 : s[j] # s[i]}
<1>0. DOMAIN s = 1 .. Len(s) /\ Len(s) \in Nat
  OBVIOUS
<1>1. I \in SUBSET (DOMAIN s)
  OBVIOUS
<1>2. ASSUME NEW i \in DOMAIN s PROVE \E k \in I : s[k] = s[i]
  <2> DEFINE T == {j \in DOMAIN s : s[j] = s[i]}
  <2>1. T \in SUBSET Nat /\ T # {}
    BY <1>0
  <2>2. PICK k \in T : \A y \in T : k <= y
    <3> HIDE DEF T
    <3> QED BY <2>1, Least
  <2>3. \A j \in 1 .. k - 1 : j \in DOMAIN s /\ j < k
    BY <1>0, <2>2
  <2>4. k \in I
    BY <1>0, <2>2, <2>3
  <2> QED
    BY <2>2, <2>4
<1>3. {s[i] : i \in I} = Members(s)
  BY <1>2 DEF Members
<1>4. \A i, j \in I : s[i] = s[j] => i = j
  <2> SUFFICES ASSUME NEW i \in I, NEW j \in I, i < j, s[i] = s[j] PROVE FALSE
    BY <1>0
  <2>1. i \in 1 .. j - 1
    BY <1>0
  <2> QED
    BY <2>1
<1>5. Distinct(s) = Pick(s, I)
  BY DEF Distinct
<1> HIDE DEF I
<1>6. Pick(s, I) \in Seq(X) /\ Members(Pick(s, I)) = {s[i] : i \in I} /\ Differing(Pick(s, I))
  BY <1>1, <1>4, PickedSet
<1> QED
  BY <1>3, <1>5, <1>6

(* As members of a set.                                                    *)
LEMMA Filters ==
  ASSUME NEW X, NEW s \in Seq(X), NEW S
  PROVE  /\ Within(s, S) \in Seq(X) /\ Range(Within(s, S)) = Range(s) \cap S
         /\ Without(s, S) \in Seq(X) /\ Range(Without(s, S)) = Range(s) \ S
         /\ Differing(s) => Differing(Within(s, S)) /\ Differing(Without(s, S))
<1>1. \A t : Range(t) = Members(t)
  BY DEF Range, Members
<1>2. /\ Within(s, S) \in Seq(X) /\ Members(Within(s, S)) = Members(s) \cap S
      /\ Without(s, S) \in Seq(X) /\ Members(Without(s, S)) = Members(s) \ S
      /\ Differing(s) => Differing(Within(s, S)) /\ Differing(Without(s, S))
  BY Filtered
<1> QED
  BY <1>1, <1>2

(* At the ends of a list.                                                  *)
LEMMA Appended ==
  ASSUME NEW X, NEW s \in Seq(X), NEW x \in X
  PROVE  /\ Append(s, x) \in Seq(X) /\ Range(Append(s, x)) = Range(s) \cup {x}
         /\ Differing(s) /\ x \notin Range(s) => Differing(Append(s, x))
<1> DEFINE t == Append(s, x)
<1>1. t \in Seq(X) /\ Len(t) = Len(s) + 1 /\ DOMAIN t = 1 .. Len(s) + 1 /\ DOMAIN s = 1 .. Len(s) /\ Len(s) \in Nat
  OBVIOUS
<1>2. \A i \in 1 .. Len(s) : t[i] = s[i]
  OBVIOUS
<1>3. t[Len(s) + 1] = x
  OBVIOUS
<1> HIDE DEF t
<1>4. Range(t) = Range(s) \cup {x}
  <2>1. \A i \in DOMAIN t : t[i] \in Range(s) \cup {x}
    <3>1. \A i \in DOMAIN t : i \in 1 .. Len(s) \/ i = Len(s) + 1
      BY <1>1
    <3> QED
      BY <1>1, <1>2, <1>3, <3>1 DEF Range
  <2>2. \A i \in DOMAIN s : s[i] \in Range(t)
    BY <1>1, <1>2 DEF Range
  <2>3. x \in Range(t)
    BY <1>1, <1>3 DEF Range
  <2> QED
    BY <2>1, <2>2, <2>3 DEF Range
<1>5. ASSUME Differing(s), x \notin Range(s) PROVE Differing(t)
  <2> SUFFICES ASSUME NEW i \in DOMAIN t, NEW j \in DOMAIN t, t[i] = t[j] PROVE i = j
    BY DEF Differing
  <2>1. \A k \in 1 .. Len(s) : s[k] # x
    BY <1>1, <1>5 DEF Range
  <2>2. CASE i \in 1 .. Len(s) /\ j \in 1 .. Len(s)
    BY <1>1, <1>2, <1>5, <2>2 DEF Differing
  <2>3. CASE i = Len(s) + 1 \/ j = Len(s) + 1
    BY <1>1, <1>2, <1>3, <2>1, <2>3
  <2> QED
    BY <1>1, <2>2, <2>3
<1> QED
  BY <1>1, <1>4, <1>5 DEF t

(* A list after another.                                                   *)
LEMMA Chained ==
  ASSUME NEW X, NEW s \in Seq(X), NEW t \in Seq(X)
  PROVE  s \o t \in Seq(X) /\ Range(s \o t) = Range(s) \cup Range(t)
<1> DEFINE u == s \o t
<1>1. /\ u \in Seq(X) /\ DOMAIN u = 1 .. Len(s) + Len(t) /\ DOMAIN s = 1 .. Len(s) /\ DOMAIN t = 1 .. Len(t)
      /\ Len(s) \in Nat /\ Len(t) \in Nat
  OBVIOUS
<1>2. (\A i \in 1 .. Len(s) : u[i] = s[i]) /\ \A i \in 1 .. Len(t) : u[Len(s) + i] = t[i]
  OBVIOUS
<1> HIDE DEF u
<1>3. \A i \in DOMAIN u : u[i] \in Range(s) \cup Range(t)
  <2> SUFFICES ASSUME NEW i \in DOMAIN u PROVE u[i] \in Range(s) \cup Range(t)
    OBVIOUS
  <2>1. CASE i \in 1 .. Len(s)
    BY <1>1, <1>2, <2>1 DEF Range
  <2>2. CASE i - Len(s) \in 1 .. Len(t)
    <3>1. Len(s) + (i - Len(s)) = i
      BY <1>1
    <3> QED
      BY <1>1, <1>2, <2>2, <3>1 DEF Range
  <2> QED
    BY <1>1, <2>1, <2>2
<1>4. (\A i \in DOMAIN s : s[i] \in Range(u)) /\ \A i \in DOMAIN t : t[i] \in Range(u)
  <2>1. \A i \in 1 .. Len(s) : i \in DOMAIN u
    BY <1>1
  <2>2. \A i \in 1 .. Len(t) : Len(s) + i \in DOMAIN u
    BY <1>1
  <2> QED
    BY <1>1, <1>2, <2>1, <2>2 DEF Range
<1>5. Range(u) = Range(s) \cup Range(t)
  <2>1. Range(u) \subseteq Range(s) \cup Range(t)
    BY <1>3 DEF Range
  <2>2. Range(s) \cup Range(t) \subseteq Range(u)
    BY <1>4 DEF Range
  <2> QED
    BY <2>1, <2>2
<1> QED
  BY <1>1, <1>5 DEF u

LEMMA Halved ==
  ASSUME NEW X, NEW s \in Seq(X), s # << >>
  PROVE  /\ Head(s) \in X /\ Tail(s) \in Seq(X) /\ Range(s) = {Head(s)} \cup Range(Tail(s))
         /\ Differing(s) => Differing(Tail(s)) /\ Head(s) \notin Range(Tail(s))
<1> DEFINE t == Tail(s)
<1>1. Len(s) \in Nat \ {0} /\ DOMAIN s = 1 .. Len(s) /\ Head(s) = s[1] /\ s[1] \in X
  OBVIOUS
<1>2. t \in Seq(X) /\ DOMAIN t = 1 .. Len(s) - 1 /\ \A i \in 1 .. Len(s) - 1 : t[i] = s[i + 1]
  OBVIOUS
<1> HIDE DEF t
<1>3. Range(s) = {s[1]} \cup Range(t)
  <2>1. \A i \in DOMAIN s : s[i] \in {s[1]} \cup Range(t)
    <3>1. \A i \in DOMAIN s : i = 1 \/ (i - 1 \in 1 .. Len(s) - 1 /\ t[i - 1] = s[i])
      BY <1>1, <1>2
    <3> QED
      BY <1>2, <3>1 DEF Range
  <2>2. \A i \in DOMAIN t : t[i] \in Range(s)
    <3>1. \A i \in DOMAIN t : i + 1 \in DOMAIN s
      BY <1>1, <1>2
    <3> QED
      BY <1>2, <3>1 DEF Range
  <2> QED
    BY <1>1, <2>1, <2>2 DEF Range
<1>4. ASSUME Differing(s) PROVE Differing(t) /\ s[1] \notin Range(t)
  <2>1. \A i \in DOMAIN t : i + 1 \in DOMAIN s /\ i + 1 # 1
    BY <1>1, <1>2
  <2>2. \A i, j \in DOMAIN t : t[i] = t[j] => i = j
    BY <1>2, <1>4, <2>1 DEF Differing
  <2>3. \A i \in DOMAIN t : t[i] # s[1]
    BY <1>1, <1>2, <1>4, <2>1 DEF Differing
  <2> QED
    BY <2>2, <2>3 DEF Differing, Range
<1> QED
  BY <1>1, <1>2, <1>3, <1>4 DEF t

LEMMA Greatest ==
  ASSUME NEW n \in Nat, NEW T \in SUBSET (1 .. n), T # {}
  PROVE  \E x \in T : \A y \in T : y <= x
<1> DEFINE D == {n - i : i \in T}
<1>1. D \in SUBSET Nat /\ D # {}
  <2>1. \A i \in T : n - i \in Nat
    OBVIOUS
  <2> QED
    BY <2>1
<1>2. PICK d \in D : \A e \in D : d <= e
  <2> HIDE DEF D
  <2> QED BY <1>1, Least
<1>3. PICK x \in T : d = n - x
  BY <1>2
<1>4. \A y \in T : n - x <= n - y
  BY <1>2, <1>3
<1> QED
  BY <1>4

(* A list is as long as it has members just when they differ.              *)
LEMMA Counted ==
  ASSUME NEW X, NEW s \in Seq(X)
  PROVE  IsFiniteSet(Range(s)) /\ Cardinality(Range(s)) \in Nat /\ (Differing(s) <=> Cardinality(Range(s)) = Len(s))
<1>1. DOMAIN s = 1 .. Len(s) /\ Len(s) \in Nat
  OBVIOUS
<1>2. s \in Surjection(1 .. Len(s), Range(s))
  BY <1>1 DEF Surjection, Range
<1>3. IsFiniteSet(1 .. Len(s)) /\ Cardinality(1 .. Len(s)) = Len(s)
  BY <1>1, FS_Interval
<1>4. IsFiniteSet(Range(s)) /\ (Cardinality(Range(s)) = Len(s) <=> s \in Injection(1 .. Len(s), Range(s)))
  BY <1>2, <1>3, FS_Surjection
<1>5. s \in Injection(1 .. Len(s), Range(s)) <=> Differing(s)
  BY <1>1, <1>2 DEF Injection, Surjection, IsInjective, Differing
<1> QED
  BY <1>4, <1>5, FS_CardinalityType

LEMMA Joined ==
  ASSUME NEW X, NEW s \in Seq(X), NEW t \in Seq(X)
  PROVE  /\ s \o t \in Seq(X) /\ Range(s \o t) = Range(s) \cup Range(t)
         /\ Differing(s) /\ Differing(t) /\ Range(s) \cap Range(t) = {} => Differing(s \o t)
<1> DEFINE j == s \o t
<1>1. /\ j \in Seq(X) /\ Len(s) \in Nat /\ Len(t) \in Nat /\ DOMAIN s = 1 .. Len(s) /\ DOMAIN t = 1 .. Len(t)
      /\ DOMAIN j = 1 .. Len(s) + Len(t)
  OBVIOUS
<1>2. \A i \in 1 .. Len(s) : j[i] = s[i]
  OBVIOUS
<1>3. \A i \in 1 .. Len(t) : j[Len(s) + i] = t[i]
  OBVIOUS
<1> HIDE DEF j
<1>4. \A i \in DOMAIN j : i \in 1 .. Len(s) \/ (i - Len(s) \in 1 .. Len(t) /\ j[i] = t[i - Len(s)] /\ i = Len(s) + (i - Len(s)))
  <2>1. \A i \in DOMAIN j : i \in 1 .. Len(s) \/ (i - Len(s) \in 1 .. Len(t) /\ i = Len(s) + (i - Len(s)))
    BY <1>1
  <2> QED
    BY <1>3, <2>1
<1>5. Range(j) = Range(s) \cup Range(t)
  <2>1. \A i \in DOMAIN j : j[i] \in Range(s) \cup Range(t)
    BY <1>1, <1>2, <1>4 DEF Range
  <2>2. \A i \in DOMAIN s : s[i] \in Range(j)
    BY <1>1, <1>2 DEF Range
  <2>3. \A i \in DOMAIN t : t[i] \in Range(j)
    <3>1. \A i \in DOMAIN t : Len(s) + i \in DOMAIN j
      BY <1>1
    <3> QED
      BY <1>1, <1>3, <3>1 DEF Range
  <2> QED
    BY <2>1, <2>2, <2>3 DEF Range
<1>6. ASSUME Differing(s), Differing(t), Range(s) \cap Range(t) = {} PROVE Differing(j)
  <2> SUFFICES ASSUME NEW a \in DOMAIN j, NEW b \in DOMAIN j, j[a] = j[b] PROVE a = b
    BY DEF Differing
  <2>1. \A x \in DOMAIN s, y \in DOMAIN t : s[x] # t[y]
    BY <1>6 DEF Range
  <2>2. CASE a \in 1 .. Len(s) /\ b \in 1 .. Len(s)
    BY <1>1, <1>2, <1>6, <2>2 DEF Differing
  <2>3. CASE a \notin 1 .. Len(s) /\ b \notin 1 .. Len(s)
    <3>1. a - Len(s) = b - Len(s)
      BY <1>1, <1>4, <1>6, <2>3 DEF Differing
    <3> QED
      BY <1>1, <3>1
  <2>4. CASE ~ (a \in 1 .. Len(s) <=> b \in 1 .. Len(s))
    BY <1>1, <1>2, <1>4, <2>1, <2>4
  <2> QED
    BY <2>2, <2>3, <2>4
<1> QED
  BY <1>1, <1>5, <1>6 DEF j
=============================================================================
