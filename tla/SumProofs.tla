------------------------------- MODULE SumProofs -------------------------------
(***************************************************************************)
(* Sums over finite sets, as SumFunctionOnSet of the community modules        *)
(* defines them: by a recursive function that takes one element after the     *)
(* other, in an order that CHOOSE leaves open.  That the order makes no        *)
(* difference, and what a sum is when an element comes in or out, is proved    *)
(* here by induction: of a set of numbers that had a counterexample, the least *)
(* would be none (LeastExists, from the well-foundedness of < on Nat).         *)
(***************************************************************************)
EXTENDS Integers, FiniteSets, Functions, FiniteSetTheorems, WellFoundedInduction, TLAPS

\* A non-empty set of natural numbers has a least one.
LEMMA LeastExists ==
    ASSUME NEW T \in SUBSET Nat, T # {}
    PROVE  \E n \in T : \A m \in T : n <= m
  <1> DEFINE R == {ss \in Nat \X Nat : ss[1] < ss[2]}
  <1>1. IsWellFoundedOn(R, Nat)
    BY NatLessThanWellFounded DEF OpToRel
  <1>2. \A n, m \in Nat : <<m, n>> \in R <=> m < n
    OBVIOUS
  <1> HIDE DEF R
  <1>3. PICK n \in T : \A m \in T : ~ (<<m, n>> \in R)
    BY <1>1, WFMin
  <1>4. n \in Nat
    OBVIOUS
  <1>5. \A m \in T : ~ (m < n)
    BY <1>2, <1>3, <1>4
  <1> QED
    BY <1>4, <1>5

\* Induction over the subsets of a finite set: Good is the set of those of
\* which the claim holds.
LEMMA SubsetInduction ==
    ASSUME NEW S, IsFiniteSet(S), NEW Good,
           \A s \in SUBSET S : (\A t \in SUBSET s : t # s => t \in Good) => s \in Good
    PROVE  S \in Good
  <1> DEFINE T == {n \in Nat : \E s \in SUBSET S : Cardinality(s) = n /\ s \notin Good}
  <1>1. \A s \in SUBSET S : Cardinality(s) \in Nat /\ IsFiniteSet(s)
    BY FS_Subset, FS_CardinalityType
  <1> SUFFICES ASSUME T # {} PROVE FALSE
    BY <1>1
  <1>2. PICK n \in T : \A m \in T : n <= m
    <2>1. T \in SUBSET Nat
      OBVIOUS
    <2> HIDE DEF T
    <2> QED
      BY <2>1, LeastExists
  <1>3. PICK s \in SUBSET S : Cardinality(s) = n /\ s \notin Good
    OBVIOUS
  <1>4. PICK t \in SUBSET s : t # s /\ t \notin Good
    BY <1>3
  <1>5. Cardinality(t) \in Nat /\ Cardinality(t) <= n /\ Cardinality(t) # n
    <2>1. IsFiniteSet(s) /\ IsFiniteSet(t) /\ Cardinality(t) \in Nat
      BY <1>1
    <2> QED
      BY <1>3, <1>4, <2>1, FS_Subset
  <1>6. Cardinality(t) \in T
    BY <1>4, <1>5
  <1> QED
    BY <1>2, <1>5, <1>6, <1>1

----------------------------------------------------------------------------
(* The recursive function *)

Chosen(s) == CHOOSE x \in s : TRUE

Rest(s) == s \ {Chosen(s)}

\* What g is at s, if it is a sum.
SumsAt(f, g, s) == g[s] = IF s = {} THEN 0 ELSE f[Chosen(s)] + g[Rest(s)]

Sums(f, S, g) ==
    g = [s \in SUBSET S |-> IF s = {} THEN 0 ELSE f[Chosen(s)] + g[Rest(s)]]

LEMMA RestIs ==
    ASSUME NEW S, IsFiniteSet(S), NEW s \in SUBSET S
    PROVE  /\ Cardinality(s) \in Nat /\ IsFiniteSet(s)
           /\ s # {} => /\ Chosen(s) \in s
                        /\ Rest(s) \in SUBSET S
                        /\ Cardinality(Rest(s)) = Cardinality(s) - 1
  <1>1. IsFiniteSet(s) /\ Cardinality(s) \in Nat
    BY FS_Subset, FS_CardinalityType
  <1>2. s # {} => Chosen(s) \in s
    BY DEF Chosen
  <1> QED
    BY <1>1, <1>2, FS_RemoveElement DEF Rest

LEMMA SumIsChosen ==
    ASSUME NEW f, NEW S
    PROVE  SumFunctionOnSet(f, S) = (CHOOSE g : Sums(f, S, g))[S]
  BY DEF SumFunctionOnSet, FoldFunctionOnSet, MapThenFoldSet, Sums, Chosen, Rest

\* The recursion defines a function: one after the other for the sets with at
\* most n elements.
LEMMA SumsExist ==
    ASSUME NEW f, NEW S, IsFiniteSet(S)
    PROVE  \E g : Sums(f, S, g)
  <1> DEFINE Upto(g, n) == \A s \in SUBSET S : Cardinality(s) <= n => SumsAt(f, g, s)
             Some(n) == \E g : Upto(g, n)
             T == {n \in Nat : ~Some(n)}
  <1>1. Some(0)
    <2> DEFINE g == [s \in SUBSET S |-> 0]
    <2>1. Upto(g, 0)
      <3> SUFFICES ASSUME NEW s \in SUBSET S, Cardinality(s) <= 0
                   PROVE  s = {} /\ g[s] = 0
        BY DEF SumsAt
      <3> QED
        BY RestIs, FS_EmptySet
    <2> QED
      BY <2>1
  <1>2. ASSUME NEW n \in Nat, Some(n) PROVE Some(n + 1)
    <2>1. PICK g : Upto(g, n)
      BY <1>2
    <2> DEFINE h == [s \in SUBSET S |->
                        IF Cardinality(s) <= n THEN g[s]
                        ELSE IF s = {} THEN 0 ELSE f[Chosen(s)] + g[Rest(s)]]
    <2>2. \A s \in SUBSET S : Cardinality(s) <= n => h[s] = g[s]
      OBVIOUS
    <2>3. \A s \in SUBSET S : ~(Cardinality(s) <= n) =>
              h[s] = IF s = {} THEN 0 ELSE f[Chosen(s)] + g[Rest(s)]
      OBVIOUS
    <2>4. Upto(h, n + 1)
      <3> SUFFICES ASSUME NEW s \in SUBSET S, Cardinality(s) <= n + 1
                   PROVE  h[s] = IF s = {} THEN 0 ELSE f[Chosen(s)] + h[Rest(s)]
        BY DEF SumsAt
      <3> HIDE DEF h
      <3>1. h[s] = IF s = {} THEN 0 ELSE f[Chosen(s)] + g[Rest(s)]
        BY <2>1, <2>2, <2>3 DEF SumsAt
      <3>2. s # {} => h[Rest(s)] = g[Rest(s)]
        BY RestIs, <2>2
      <3> QED
        BY <3>1, <3>2
    <2> QED
      BY <2>4
  <1>3. T = {}
    <2> SUFFICES ASSUME T # {} PROVE FALSE
      OBVIOUS
    <2> HIDE DEF Some
    <2>1. PICK n \in T : \A m \in T : n <= m
      BY LeastExists
    <2>2. n \in Nat /\ ~Some(n)
      OBVIOUS
    <2>3. n # 0
      BY <1>1, <2>2
    <2>4. n - 1 \in Nat /\ n - 1 \notin T
      BY <2>1, <2>2, <2>3
    <2>5. Some(n - 1) /\ (n - 1) + 1 = n
      BY <2>2, <2>4
    <2> QED
      BY <1>2, <2>2, <2>4, <2>5
  <1>4. PICK g : Upto(g, Cardinality(S))
    <2> HIDE DEF Upto
    <2> QED
      BY <1>3, FS_CardinalityType
  <1> DEFINE h == [s \in SUBSET S |-> g[s]]
  <1>5. \A s \in SUBSET S : h[s] = IF s = {} THEN 0 ELSE f[Chosen(s)] + h[Rest(s)]
    <2> TAKE s \in SUBSET S
    <2>1. Cardinality(s) <= Cardinality(S)
      BY FS_Subset
    <2>2. g[s] = IF s = {} THEN 0 ELSE f[Chosen(s)] + g[Rest(s)]
      BY <1>4, <2>1 DEF SumsAt
    <2> QED
      BY RestIs, <2>2
  <1>6. h = [s \in SUBSET S |-> h[s]]
    OBVIOUS
  <1> HIDE DEF h
  <1> QED
    BY <1>5, <1>6 DEF Sums

\* It does not matter of which set the summed one is taken to be a subset.
LEMMA SumOfSubset ==
    ASSUME NEW f, NEW S, IsFiniteSet(S), NEW g, Sums(f, S, g), NEW t \in SUBSET S
    PROVE  SumFunctionOnSet(f, t) = g[t]
  <1> DEFINE h == CHOOSE x : Sums(f, t, x)
             T == {n \in Nat : \E s \in SUBSET t : Cardinality(s) = n /\ h[s] # g[s]}
  <1>1. Sums(f, t, h) /\ IsFiniteSet(t)
    BY FS_Subset, SumsExist
  <1> HIDE DEF h
  <1>2. \A s \in SUBSET t : SumsAt(f, h, s) /\ SumsAt(f, g, s)
    BY <1>1 DEF Sums, SumsAt
  <1>3. T = {}
    <2> SUFFICES ASSUME T # {} PROVE FALSE
      OBVIOUS
    <2>1. PICK n \in T : \A m \in T : n <= m
      <3>1. T \in SUBSET Nat
        OBVIOUS
      <3> HIDE DEF T
      <3> QED
        BY <3>1, LeastExists
    <2>2. PICK s \in SUBSET t : Cardinality(s) = n /\ h[s] # g[s]
      OBVIOUS
    <2>3. s # {}
      BY <1>2, <2>2 DEF SumsAt
    <2>4. Rest(s) \in SUBSET t /\ Cardinality(Rest(s)) = n - 1 /\ n - 1 \in Nat
      BY <1>1, <2>2, <2>3, RestIs, FS_CardinalityType, FS_Subset
    <2>5. h[Rest(s)] = g[Rest(s)]
      BY <2>1, <2>4
    <2> QED
      BY <1>2, <2>2, <2>3, <2>5 DEF SumsAt
  <1>4. h[t] = g[t]
    BY <1>1, <1>3, FS_CardinalityType
  <1> QED
    BY <1>4, SumIsChosen DEF h
----------------------------------------------------------------------------
(* What a sum is *)

Sum(f, S) == SumFunctionOnSet(f, S)

LEMMA SumTakes ==
    ASSUME NEW f, NEW S, IsFiniteSet(S)
    PROVE  /\ Sum(f, {}) = 0
           /\ S # {} => Sum(f, S) = f[Chosen(S)] + Sum(f, Rest(S))
  <1>1. PICK g : Sums(f, S, g)
    BY SumsExist
  <1>2. \A s \in SUBSET S : Sum(f, s) = g[s]
    BY <1>1, SumOfSubset DEF Sum
  <1>3. \A s \in SUBSET S : SumsAt(f, g, s)
    BY <1>1 DEF Sums, SumsAt
  <1>4. Sum(f, {}) = g[{}] /\ Sum(f, S) = g[S]
    BY <1>2
  <1>5. S # {} => Sum(f, Rest(S)) = g[Rest(S)]
    BY <1>2, RestIs
  <1> QED
    BY <1>3, <1>4, <1>5 DEF SumsAt

\* Induction along the order in which a sum takes its elements.
LEMMA RestInduction ==
    ASSUME NEW S, IsFiniteSet(S), NEW Good,
           {} \in Good,
           \A s \in SUBSET S : s # {} /\ Rest(s) \in Good => s \in Good
    PROVE  S \in Good
  <1>1. \A s \in SUBSET S : s # {} => Rest(s) \in SUBSET s /\ Rest(s) # s
    <2> TAKE s \in SUBSET S
    <2>1. s # {} => Chosen(s) \in s
      BY RestIs
    <2> QED
      BY <2>1 DEF Rest
  <1>2. \A s \in SUBSET S : (\A t \in SUBSET s : t # s => t \in Good) => s \in Good
    BY <1>1
  <1> QED
    BY <1>2, SubsetInduction

LEMMA SumIsNumber ==
    ASSUME NEW f, NEW S, IsFiniteSet(S), \A x \in S : f[x] \in Int
    PROVE  /\ Sum(f, S) \in Int
           /\ (\A x \in S : f[x] \in Nat) => Sum(f, S) \in Nat
  <1> DEFINE Good(N) == {s \in SUBSET S : Sum(f, s) \in N}
  <1>1. {} \in Good(Int) /\ {} \in Good(Nat)
    <2>1. Sum(f, {}) = 0
      BY SumTakes
    <2> QED
      BY <2>1
  <1>2. \A s \in SUBSET S : s # {} =>
            Chosen(s) \in S /\ Rest(s) \in SUBSET S /\ Sum(f, s) = f[Chosen(s)] + Sum(f, Rest(s))
    BY SumTakes, RestIs
  <1>3. S \in Good(Int)
    <2>1. \A s \in SUBSET S : s # {} /\ Rest(s) \in Good(Int) => s \in Good(Int)
      BY <1>2
    <2> HIDE DEF Good
    <2> QED
      BY <1>1, <2>1, RestInduction
  <1>4. (\A x \in S : f[x] \in Nat) => S \in Good(Nat)
    <2> SUFFICES ASSUME \A x \in S : f[x] \in Nat PROVE S \in Good(Nat)
      OBVIOUS
    <2>1. \A s \in SUBSET S : s # {} /\ Rest(s) \in Good(Nat) => s \in Good(Nat)
      BY <1>2
    <2> HIDE DEF Good
    <2> QED
      BY <1>1, <2>1, RestInduction
  <1> QED
    BY <1>3, <1>4

\* Whichever element is taken first, the sum is the same.
LEMMA SumWithout ==
    ASSUME NEW f, NEW S, IsFiniteSet(S), \A x \in S : f[x] \in Int, NEW e \in S
    PROVE  Sum(f, S) = f[e] + Sum(f, S \ {e})
  <1> DEFINE Good == {s \in SUBSET S : \A x \in s : Sum(f, s) = f[x] + Sum(f, s \ {x})}
  <1>1. ASSUME NEW s \in SUBSET S, \A t \in SUBSET s : t # s => t \in Good
        PROVE  s \in Good
    <2> SUFFICES ASSUME NEW x \in s PROVE Sum(f, s) = f[x] + Sum(f, s \ {x})
      OBVIOUS
    <2> DEFINE c == Chosen(s)
    <2>1. /\ c \in s /\ Rest(s) = s \ {c} /\ Sum(f, s) = f[c] + Sum(f, Rest(s))
          /\ IsFiniteSet(s)
      BY SumTakes, RestIs DEF Rest
    <2> HIDE DEF c
    <2>2. CASE x = c
      <3>1. s \ {x} = Rest(s)
        BY <2>1, <2>2
      <3> QED
        BY <2>1, <2>2, <3>1
    <2>3. CASE x # c
      <3>1. Sum(f, s \ {c}) = f[x] + Sum(f, (s \ {c}) \ {x})
        BY <1>1, <2>1, <2>3
      <3>2. Sum(f, s \ {x}) = f[c] + Sum(f, (s \ {x}) \ {c})
        BY <1>1, <2>1, <2>3
      <3>3. (s \ {c}) \ {x} = (s \ {x}) \ {c}
        OBVIOUS
      <3>4. Sum(f, (s \ {c}) \ {x}) \in Int /\ f[x] \in Int /\ f[c] \in Int
        <4>1. IsFiniteSet((s \ {c}) \ {x}) /\ (s \ {c}) \ {x} \in SUBSET S
          BY <2>1, FS_Subset
        <4> QED
          BY <2>1, <4>1, SumIsNumber
      <3>5. Sum(f, s) = f[c] + Sum(f, s \ {c})
        BY <2>1
      <3> DEFINE left == Sum(f, (s \ {c}) \ {x})
      <3>6. Sum(f, s \ {c}) = f[x] + left /\ Sum(f, s \ {x}) = f[c] + left
        BY <3>1, <3>2, <3>3
      <3> HIDE DEF left
      <3> QED
        BY <3>4, <3>5, <3>6 DEF left
    <2> QED
      BY <2>2, <2>3
  <1>2. S \in Good
    <2> HIDE DEF Good
    <2> QED
      BY <1>1, SubsetInduction
  <1> QED
    BY <1>2

\* An element that comes in adds what it is worth.
LEMMA SumOfOne ==
    ASSUME NEW f, NEW e, f[e] \in Int
    PROVE  Sum(f, {e}) = f[e]
  <1>1. IsFiniteSet({e})
    BY FS_Singleton
  <1>2. \A x \in {e} : f[x] \in Int
    OBVIOUS
  <1>3. Sum(f, {e}) = f[e] + Sum(f, {e} \ {e})
    BY <1>1, <1>2, SumWithout
  <1>4. {e} \ {e} = {}
    OBVIOUS
  <1>5. Sum(f, {e} \ {e}) = 0
    BY <1>1, <1>4, SumTakes
  <1> QED
    BY <1>3, <1>5

LEMMA SumAdded ==
    ASSUME NEW f, NEW S, IsFiniteSet(S), NEW e, e \notin S,
           \A x \in S \cup {e} : f[x] \in Int
    PROVE  /\ IsFiniteSet(S \cup {e})
           /\ Sum(f, S \cup {e}) = Sum(f, S) + f[e]
           /\ Sum(f, S) \in Int /\ Sum(f, S \cup {e}) \in Int
  <1> DEFINE T == S \cup {e}
  <1>1. IsFiniteSet(T) /\ T \ {e} = S /\ e \in T /\ \A x \in T : f[x] \in Int
    BY FS_AddElement
  <1> HIDE DEF T
  <1>2. Sum(f, T) = f[e] + Sum(f, T \ {e})
    BY <1>1, SumWithout
  <1>3. Sum(f, S) \in Int /\ Sum(f, T) \in Int /\ f[e] \in Int
    BY <1>1, SumIsNumber
  <1>4. Sum(f, T \ {e}) = Sum(f, S)
    BY <1>1, Zenon
  <1>5. Sum(f, T) = Sum(f, S) + f[e]
    BY <1>2, <1>3, <1>4
  <1> QED
    BY <1>1, <1>3, <1>5 DEF T

\* Only the values on the set matter.
LEMMA SumAgrees ==
    ASSUME NEW f, NEW g, NEW S, IsFiniteSet(S), \A x \in S : f[x] = g[x]
    PROVE  Sum(f, S) = Sum(g, S)
  <1> DEFINE Good == {s \in SUBSET S : Sum(f, s) = Sum(g, s)}
  <1>1. {} \in Good
    BY SumTakes, FS_EmptySet
  <1>2. ASSUME NEW s \in SUBSET S, s # {}, Rest(s) \in Good PROVE s \in Good
    <2>1. Chosen(s) \in S /\ IsFiniteSet(s)
      BY <1>2, RestIs
    <2>2. /\ Sum(f, s) = f[Chosen(s)] + Sum(f, Rest(s))
          /\ Sum(g, s) = g[Chosen(s)] + Sum(g, Rest(s))
      BY <1>2, <2>1, SumTakes
    <2> QED
      BY <1>2, <2>1, <2>2
  <1>3. S \in Good
    <2> HIDE DEF Good
    <2> QED
      BY <1>1, <1>2, RestInduction
  <1> QED
    BY <1>3

\* A sum is at least that of smaller values.
LEMMA SumAtMost ==
    ASSUME NEW f, NEW g, NEW S, IsFiniteSet(S),
           \A x \in S : f[x] \in Int /\ g[x] \in Int /\ f[x] <= g[x]
    PROVE  Sum(f, S) <= Sum(g, S)
  <1> DEFINE Good == {s \in SUBSET S : Sum(f, s) <= Sum(g, s)}
  <1>1. {} \in Good
    <2>1. Sum(f, {}) = 0 /\ Sum(g, {}) = 0
      BY SumTakes
    <2> QED
      BY <2>1
  <1>2. ASSUME NEW s \in SUBSET S, s # {}, Rest(s) \in Good PROVE s \in Good
    <2>1. Chosen(s) \in S /\ IsFiniteSet(s) /\ Rest(s) \in SUBSET S /\ IsFiniteSet(Rest(s))
      BY <1>2, RestIs
    <2>2. /\ Sum(f, s) = f[Chosen(s)] + Sum(f, Rest(s))
          /\ Sum(g, s) = g[Chosen(s)] + Sum(g, Rest(s))
      BY <1>2, <2>1, SumTakes
    <2>3. Sum(f, Rest(s)) \in Int /\ Sum(g, Rest(s)) \in Int
      BY <2>1, SumIsNumber
    <2> QED
      BY <1>2, <2>1, <2>2, <2>3
  <1>3. S \in Good
    <2> HIDE DEF Good
    <2> QED
      BY <1>1, <1>2, RestInduction
  <1> QED
    BY <1>3

\* A sum of natural numbers is at least any of them.
LEMMA SumAtLeast ==
    ASSUME NEW f, NEW S, IsFiniteSet(S), \A x \in S : f[x] \in Nat, NEW e \in S
    PROVE  Sum(f, S) >= f[e]
  <1>1. IsFiniteSet(S \ {e})
    BY FS_RemoveElement
  <1>2. Sum(f, S \ {e}) \in Nat
    BY <1>1, SumIsNumber
  <1>3. Sum(f, S) = f[e] + Sum(f, S \ {e})
    BY SumWithout
  <1> QED
    BY <1>2, <1>3

\* When one value changes, the sum changes by as much.
LEMMA SumChanges ==
    ASSUME NEW f, NEW g, NEW S, IsFiniteSet(S), NEW e \in S,
           \A x \in S : f[x] \in Int /\ g[x] \in Int,
           \A x \in S \ {e} : f[x] = g[x]
    PROVE  Sum(g, S) = Sum(f, S) + (g[e] - f[e])
  <1>1. IsFiniteSet(S \ {e})
    BY FS_RemoveElement
  <1>2. Sum(f, S \ {e}) = Sum(g, S \ {e}) /\ Sum(f, S \ {e}) \in Int
    BY <1>1, SumAgrees, SumIsNumber
  <1>3. Sum(f, S) = f[e] + Sum(f, S \ {e}) /\ Sum(g, S) = g[e] + Sum(g, S \ {e})
    BY SumWithout
  <1> QED
    BY <1>2, <1>3

\* A sum can be taken part by part: of the x with m[x] = d, for every d.
LEMMA SumByParts ==
    ASSUME NEW f, NEW S, IsFiniteSet(S), \A x \in S : f[x] \in Int,
           NEW D, IsFiniteSet(D), NEW m, \A x \in S : m[x] \in D
    PROVE  Sum(f, S) = Sum([d \in D |-> Sum(f, {x \in S : m[x] = d})], D)
  <1> DEFINE Parts(s) == [d \in D |-> Sum(f, {x \in s : m[x] = d})]
             Good == {s \in SUBSET S : Sum(f, s) = Sum(Parts(s), D)}
  <1>1. {} \in Good
    <2>1. Sum(f, {}) = 0
      BY SumTakes
    <2>2. Sum(Parts({}), D) = 0
      <3> DEFINE zeros == [d \in D |-> 0]
                 Zero == {s \in SUBSET D : Sum(zeros, s) = 0}
      <3>1. Sum(Parts({}), D) = Sum(zeros, D)
        <4>1. \A d \in D : Parts({})[d] = zeros[d]
          <5> TAKE d \in D
          <5>1. {x \in {} : m[x] = d} = {}
            OBVIOUS
          <5> QED
            BY <2>1, <5>1
        <4> HIDE DEF Parts, zeros
        <4> QED
          BY <4>1, SumAgrees
      <3>2. D \in Zero
        <4>1. {} \in Zero
          BY SumTakes
        <4>2. ASSUME NEW s \in SUBSET D, s # {}, Rest(s) \in Zero PROVE s \in Zero
          <5>1. Chosen(s) \in D /\ IsFiniteSet(s)
            BY <4>2, RestIs
          <5>2. zeros[Chosen(s)] = 0
            BY <5>1
          <5> HIDE DEF zeros
          <5>3. Sum(zeros, s) = zeros[Chosen(s)] + Sum(zeros, Rest(s))
            BY <4>2, <5>1, SumTakes
          <5> QED
            BY <4>2, <5>2, <5>3
        <4> HIDE DEF Zero
        <4> QED
          BY <4>1, <4>2, RestInduction
      <3> QED
        BY <3>1, <3>2
    <2> QED
      BY <2>1, <2>2
  <1>2. ASSUME NEW s \in SUBSET S, s # {}, Rest(s) \in Good PROVE s \in Good
    <2> DEFINE c == Chosen(s)
               r == Rest(s)
    <2>1. c \in s /\ c \notin r /\ s = r \cup {c} /\ r \in SUBSET S /\ IsFiniteSet(r)
      <3>1. Chosen(s) \in s
        BY <1>2, RestIs
      <3>2. Rest(s) \in SUBSET S
        BY <1>2, RestIs
      <3>3. IsFiniteSet(Rest(s))
        BY <3>2, RestIs
      <3> QED
        BY <3>1, <3>2, <3>3 DEF Rest
    <2> HIDE DEF c, r
    <2>2. Sum(f, s) = Sum(f, r) + f[c]
      BY <2>1, SumAdded
    <2>3. \A d \in D : LET part == {x \in r : m[x] = d}
                       IN /\ IsFiniteSet(part)
                          /\ Sum(f, part) \in Int
                          /\ {x \in s : m[x] = d} = IF d = m[c] THEN part \cup {c} ELSE part
      <3> SUFFICES ASSUME NEW d \in D
                   PROVE  LET part == {x \in r : m[x] = d}
                          IN /\ IsFiniteSet(part)
                             /\ Sum(f, part) \in Int
                             /\ {x \in s : m[x] = d} = IF d = m[c] THEN part \cup {c} ELSE part
        OBVIOUS
      <3> DEFINE part == {x \in r : m[x] = d}
      <3>1. part \in SUBSET r
        OBVIOUS
      <3>2. {x \in s : m[x] = d} = IF d = m[c] THEN part \cup {c} ELSE part
        BY <2>1
      <3> HIDE DEF part
      <3>3. IsFiniteSet(part)
        BY <2>1, <3>1, FS_Subset
      <3>4. Sum(f, part) \in Int
        BY <2>1, <3>1, <3>3, SumIsNumber
      <3> QED
        BY <3>2, <3>3, <3>4 DEF part
    <2>4. \A d \in D : /\ Parts(r)[d] \in Int /\ Parts(s)[d] \in Int
                       /\ d # m[c] => Parts(r)[d] = Parts(s)[d]
                       /\ d = m[c] => Parts(s)[d] = Parts(r)[d] + f[c]
      <3> TAKE d \in D
      <3> DEFINE part == {x \in r : m[x] = d}
      <3>1. Parts(r)[d] = Sum(f, part) /\ Parts(s)[d] = Sum(f, {x \in s : m[x] = d})
        OBVIOUS
      <3>2. IsFiniteSet(part) /\ Sum(f, part) \in Int /\ part \subseteq S /\ c \notin part
        BY <2>1, <2>3
      <3>3. {x \in s : m[x] = d} = IF d = m[c] THEN part \cup {c} ELSE part
        BY <2>3
      <3> HIDE DEF part, Parts
      <3>4. Sum(f, part \cup {c}) = Sum(f, part) + f[c] /\ f[c] \in Int
        BY <2>1, <3>2, SumAdded
      <3>5. CASE d = m[c]
        <4>1. {x \in s : m[x] = d} = part \cup {c}
          BY <3>3, <3>5
        <4>2. Sum(f, {x \in s : m[x] = d}) = Sum(f, part \cup {c})
          BY <4>1, Zenon
        <4> QED
          BY <3>1, <3>2, <3>4, <3>5, <4>2
      <3>6. CASE d # m[c]
        <4>1. {x \in s : m[x] = d} = part
          BY <3>3, <3>6
        <4> QED
          BY <3>1, <3>2, <3>6, <4>1
      <3> QED
        BY <3>5, <3>6
    <2>5. Sum(Parts(s), D) = Sum(Parts(r), D) + f[c]
      <3> DEFINE old == Parts(r)
                 new == Parts(s)
      <3>1. /\ \A d \in D : old[d] \in Int /\ new[d] \in Int
            /\ \A d \in D \ {m[c]} : old[d] = new[d]
            /\ m[c] \in D /\ new[m[c]] = old[m[c]] + f[c]
            /\ f[c] \in Int
        BY <2>1, <2>4
      <3> HIDE DEF old, new
      <3>2. Sum(new, D) = Sum(old, D) + (new[m[c]] - old[m[c]]) /\ Sum(old, D) \in Int
        BY <3>1, SumChanges, SumIsNumber
      <3>3. Sum(new, D) = Sum(old, D) + f[c]
        BY <3>1, <3>2
      <3> QED
        BY <3>3 DEF old, new
    <2>6. Sum(f, r) = Sum(Parts(r), D)
      BY <1>2 DEF r
    <2>7. Sum(f, s) = Sum(Parts(s), D)
      BY <2>2, <2>5, <2>6
    <2> QED
      BY <2>7
  <1>3. S \in Good
    <2> HIDE DEF Good
    <2> QED
      BY <1>1, <1>2, RestInduction
  <1> QED
    BY <1>3
LEMMA SumOfFunction ==
    ASSUME NEW f
    PROVE  SumFunction(f) = Sum(f, DOMAIN f)
  BY DEF SumFunction, FoldFunction, SumFunctionOnSet, Sum

\* A sum of a sum, element by element.
LEMMA SumPlus ==
    ASSUME NEW f, NEW g, NEW h, NEW S, IsFiniteSet(S),
           \A x \in S : f[x] \in Int /\ g[x] \in Int /\ h[x] = f[x] + g[x]
    PROVE  Sum(h, S) = Sum(f, S) + Sum(g, S)
  <1> DEFINE Good == {s \in SUBSET S : Sum(h, s) = Sum(f, s) + Sum(g, s)}
  <1>1. {} \in Good
    <2>1. Sum(f, {}) = 0 /\ Sum(g, {}) = 0 /\ Sum(h, {}) = 0
      BY SumTakes
    <2> QED
      BY <2>1
  <1>2. ASSUME NEW s \in SUBSET S, s # {}, Rest(s) \in Good PROVE s \in Good
    <2>1. /\ Chosen(s) \in S /\ IsFiniteSet(s)
          /\ Rest(s) \in SUBSET S /\ IsFiniteSet(Rest(s))
      <3>1. Chosen(s) \in s /\ Rest(s) \in SUBSET S
        BY <1>2, RestIs
      <3>2. IsFiniteSet(s) /\ IsFiniteSet(Rest(s))
        BY <3>1, RestIs
      <3> QED
        BY <3>1, <3>2
    <2>2. /\ Sum(f, s) = f[Chosen(s)] + Sum(f, Rest(s))
          /\ Sum(g, s) = g[Chosen(s)] + Sum(g, Rest(s))
          /\ Sum(h, s) = h[Chosen(s)] + Sum(h, Rest(s))
      BY <1>2, <2>1, SumTakes
    <2>3. Sum(f, Rest(s)) \in Int /\ Sum(g, Rest(s)) \in Int
      BY <2>1, SumIsNumber
    <2>4. f[Chosen(s)] \in Int /\ g[Chosen(s)] \in Int
          /\ h[Chosen(s)] = f[Chosen(s)] + g[Chosen(s)]
      BY <2>1
    <2>5. Sum(h, Rest(s)) = Sum(f, Rest(s)) + Sum(g, Rest(s))
      BY <1>2
    <2>6. Sum(h, s) = Sum(f, s) + Sum(g, s)
      BY <2>2, <2>3, <2>4, <2>5
    <2> QED
      BY <1>2, <2>6
  <1> HIDE DEF Good
  <1>3. S \in Good
    BY <1>1, <1>2, RestInduction
  <1> QED
    BY <1>3 DEF Good

\* The elements of a set and the others.
LEMMA SumSplit ==
    ASSUME NEW f, NEW S, IsFiniteSet(S), \A x \in S : f[x] \in Int, NEW T \in SUBSET S
    PROVE  /\ Sum(f, S) = Sum(f, T) + Sum(f, S \ T)
           /\ Sum(f, T) \in Int /\ Sum(f, S \ T) \in Int
  <1> DEFINE m == [x \in S |-> IF x \in T THEN 1 ELSE 2]
             D == {1, 2}
             parts == [d \in D |-> Sum(f, {x \in S : m[x] = d})]
  <1>1. \A x \in S : m[x] \in D
    OBVIOUS
  <1>2. {x \in S : m[x] = 1} = T /\ {x \in S : m[x] = 2} = S \ T
    OBVIOUS
  <1>3. parts[1] = Sum(f, {x \in S : m[x] = 1}) /\ parts[2] = Sum(f, {x \in S : m[x] = 2})
    OBVIOUS
  <1>4. IsFiniteSet(D) /\ IsFiniteSet({2})
    <2>1. IsFiniteSet({2})
      BY FS_Singleton
    <2>2. {1, 2} = {2} \cup {1}
      OBVIOUS
    <2>3. IsFiniteSet({2} \cup {1})
      BY <2>1, FS_AddElement
    <2> QED
      BY <2>1, <2>2, <2>3
  <1>5. Sum(f, S) = Sum(parts, D)
    <2> HIDE DEF m, D
    <2> QED
      BY <1>1, <1>4, SumByParts
  <1>6. parts[1] = Sum(f, T) /\ parts[2] = Sum(f, S \ T)
    BY <1>2, <1>3, Zenon
  <1>7. Sum(f, T) \in Int /\ Sum(f, S \ T) \in Int
    <2>1. IsFiniteSet(T) /\ IsFiniteSet(S \ T)
      BY FS_Subset
    <2> QED
      BY <2>1, SumIsNumber
  <1> HIDE DEF parts
  <1>8. Sum(parts, D) = parts[1] + Sum(parts, {2})
    <2>1. D \ {1} = {2}
      OBVIOUS
    <2>2. Sum(parts, D) = parts[1] + Sum(parts, D \ {1})
      <3>1. 1 \in D /\ \A d \in D : parts[d] \in Int
        BY <1>6, <1>7
      <3> HIDE DEF D
      <3> QED
        BY <1>4, <3>1, SumWithout
    <2> QED
      BY <2>1, <2>2
  <1>9. Sum(parts, {2}) = parts[2]
    BY <1>6, <1>7, SumOfOne
  <1> QED
    BY <1>5, <1>6, <1>7, <1>8, <1>9

\* A set that is numbered one by one.
LEMMA SumOfImage ==
    ASSUME NEW f, NEW S, IsFiniteSet(S), \A x \in S : f[x] \in Int,
           NEW P, IsFiniteSet(P), NEW name, NEW number,
           \A p \in P : name[p] \in S /\ number[name[p]] = p,
           \A x \in S : number[x] \in P /\ name[number[x]] = x
    PROVE  Sum(f, S) = Sum([p \in P |-> f[name[p]]], P)
  <1> DEFINE parts == [p \in P |-> Sum(f, {x \in S : number[x] = p})]
             named == [p \in P |-> f[name[p]]]
  <1>1. Sum(f, S) = Sum(parts, P)
    BY SumByParts
  <1>2. \A p \in P : parts[p] = named[p]
    <2> TAKE p \in P
    <2>1. {x \in S : number[x] = p} = {name[p]}
      OBVIOUS
    <2>2. Sum(f, {x \in S : number[x] = p}) = Sum(f, {name[p]})
      BY <2>1, Zenon
    <2>3. Sum(f, {name[p]}) = f[name[p]]
      BY SumOfOne
    <2> QED
      BY <2>2, <2>3
  <1> HIDE DEF parts, named
  <1>3. Sum(parts, P) = Sum(named, P)
    BY <1>2, SumAgrees
  <1> QED
    BY <1>1, <1>3 DEF named

----------------------------------------------------------------------------
(* Counting *)

LEMMA SumOfOnes ==
    ASSUME NEW f, NEW S, IsFiniteSet(S), \A x \in S : f[x] = 1
    PROVE  Sum(f, S) = Cardinality(S)
  <1> DEFINE Good == {s \in SUBSET S : Sum(f, s) = Cardinality(s)}
  <1>1. {} \in Good
    <2>1. Sum(f, {}) = 0 /\ Cardinality({}) = 0
      BY SumTakes, FS_EmptySet
    <2> QED
      BY <2>1
  <1>2. ASSUME NEW s \in SUBSET S, s # {}, Rest(s) \in Good PROVE s \in Good
    <2>1. /\ Chosen(s) \in S /\ IsFiniteSet(s)
          /\ Cardinality(Rest(s)) = Cardinality(s) - 1 /\ Cardinality(s) \in Nat
      BY <1>2, RestIs
    <2>2. Sum(f, s) = f[Chosen(s)] + Sum(f, Rest(s))
      BY <1>2, <2>1, SumTakes
    <2>3. Sum(f, Rest(s)) = Cardinality(Rest(s))
      BY <1>2
    <2>4. f[Chosen(s)] = 1
      BY <2>1
    <2>5. Sum(f, s) = Cardinality(s)
      BY <2>1, <2>2, <2>3, <2>4
    <2> QED
      BY <1>2, <2>5
  <1> HIDE DEF Good
  <1>3. S \in Good
    BY <1>1, <1>2, RestInduction
  <1> QED
    BY <1>3 DEF Good

\* A set is counted kind by kind.
LEMMA CountByParts ==
    ASSUME NEW S, IsFiniteSet(S), NEW D, IsFiniteSet(D), NEW m, \A x \in S : m[x] \in D
    PROVE  Cardinality(S) = Sum([d \in D |-> Cardinality({x \in S : m[x] = d})], D)
  <1> DEFINE ones == [x \in S |-> 1]
             sums == [d \in D |-> Sum(ones, {x \in S : m[x] = d})]
             counts == [d \in D |-> Cardinality({x \in S : m[x] = d})]
  <1>1. \A x \in S : ones[x] = 1
    OBVIOUS
  <1>2. \A d \in D : sums[d] = counts[d]
    <2> TAKE d \in D
    <2> DEFINE part == {x \in S : m[x] = d}
    <2>1. part \in SUBSET S
      OBVIOUS
    <2>2. sums[d] = Sum(ones, part) /\ counts[d] = Cardinality(part)
      OBVIOUS
    <2> HIDE DEF part, ones
    <2>3. IsFiniteSet(part) /\ \A x \in part : ones[x] = 1
      BY <1>1, <2>1, FS_Subset
    <2>4. Sum(ones, part) = Cardinality(part)
      BY <2>3, SumOfOnes
    <2> QED
      BY <2>2, <2>4
  <1> HIDE DEF ones, counts
  <1>3. Sum(ones, S) = Sum(sums, D)
    <2>1. \A x \in S : ones[x] \in Int
      BY <1>1
    <2> QED
      BY <2>1, SumByParts
  <1> HIDE DEF sums
  <1>4. Sum(sums, D) = Sum(counts, D)
    BY <1>2, SumAgrees
  <1>5. Sum(ones, S) = Cardinality(S)
    BY <1>1, SumOfOnes
  <1> QED
    BY <1>3, <1>4, <1>5 DEF counts

LEMMA CountSplit ==
    ASSUME NEW S, IsFiniteSet(S), NEW T \in SUBSET S
    PROVE  /\ Cardinality(S) = Cardinality(T) + Cardinality(S \ T)
           /\ Cardinality(T) \in Nat /\ Cardinality(S \ T) \in Nat
           /\ IsFiniteSet(T) /\ IsFiniteSet(S \ T)
  <1> DEFINE ones == [x \in S |-> 1]
  <1>1. \A x \in S : ones[x] = 1
    OBVIOUS
  <1> HIDE DEF ones
  <1>2. IsFiniteSet(T) /\ IsFiniteSet(S \ T)
    BY FS_Subset
  <1>3. Sum(ones, S) = Sum(ones, T) + Sum(ones, S \ T)
    <2>1. \A x \in S : ones[x] \in Int
      BY <1>1
    <2> QED
      BY <2>1, SumSplit
  <1>4. Sum(ones, S) = Cardinality(S)
    BY <1>1, SumOfOnes
  <1>5. Sum(ones, T) = Cardinality(T)
    BY <1>1, <1>2, SumOfOnes
  <1>6. Sum(ones, S \ T) = Cardinality(S \ T)
    BY <1>1, <1>2, SumOfOnes
  <1>7. Cardinality(T) \in Nat /\ Cardinality(S \ T) \in Nat
    BY <1>2, FS_CardinalityType
  <1> QED
    BY <1>2, <1>3, <1>4, <1>5, <1>6, <1>7
==============================================================================
