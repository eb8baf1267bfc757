---------------------------- MODULE SumTheorems ----------------------------
(***************************************************************************)
(* Sums over finite sets: what MapThenSumSet of FiniteSetsExt computes,    *)
(* whatever order its CHOOSE takes the elements in.  A sum in a model is   *)
(* SumOver a function (see SumIsOver), and the lemmas say what becomes of  *)
(* it when an element is added, removed or changed.                        *)
(*                                                                         *)
(* The induction is by a smallest counterexample, which NatLessThanWell-   *)
(* Founded and WFMin provide.                                              *)
(***************************************************************************)
EXTENDS Integers, FiniteSetsExt, TLAPS, FiniteSetTheorems, WellFoundedInduction

Chosen(s) == CHOOSE x \in s : TRUE

Body(f, g, s) == IF s = {} THEN 0 ELSE f[Chosen(s)] + g[s \ {Chosen(s)}]

PartialSums(f, S) == CHOOSE g : g = [s \in SUBSET S |-> Body(f, g, s)]

SumOver(f, S) == PartialSums(f, S)[S]

(* The sums of the models are of this kind.                                *)
LEMMA SumIsOver ==
  ASSUME NEW f, NEW S
  PROVE  MapThenSumSet(LAMBDA x : f[x], S) = SumOver(f, S)
  BY DEF MapThenSumSet, MapThenFoldSet, SumOver, PartialSums, Body, Chosen

LEMMA SumSame ==
  ASSUME NEW S, NEW f, NEW h, \A x \in S : f[x] = h[x]
  PROVE  SumOver(f, S) = SumOver(h, S)
  <1>1. ASSUME NEW s \in SUBSET S, s # {} PROVE f[Chosen(s)] = h[Chosen(s)]
    BY <1>1 DEF Chosen
  <1>2. \A g : [s \in SUBSET S |-> Body(f, g, s)] = [s \in SUBSET S |-> Body(h, g, s)]
    BY <1>1 DEF Body
  <1>3. QED
    BY <1>2 DEF SumOver, PartialSums

(***************************************************************************)
(* Induction.                                                              *)
(***************************************************************************)
LEMMA Least ==
  ASSUME NEW T, T \subseteq Nat, T # {}
  PROVE  \E n \in T : \A m \in T : n <= m
  <1>1. \E n \in T : \A m \in T : ~(<<m, n>> \in OpToRel(<, Nat))
    BY NatLessThanWellFounded, WFMin
  <1>2. \A m, n \in Nat : m < n => <<m, n>> \in OpToRel(<, Nat)
    BY DEF OpToRel
  <1>3. PICK n \in T : \A m \in T : ~(m < n)
    BY <1>1, <1>2
  <1>4. QED
    BY <1>3

LEMMA SmallestSet ==
  ASSUME NEW P, P # {}, \A s \in P : IsFiniteSet(s)
  PROVE  \E s \in P : \A t \in P : Cardinality(s) <= Cardinality(t)
  <1> DEFINE sizes == {Cardinality(s) : s \in P}
  <1>1. sizes \subseteq Nat /\ sizes # {}
    BY FS_CardinalityType
  <1>2. PICK n \in sizes : \A m \in sizes : n <= m
    BY <1>1, Least
  <1>3. QED
    BY <1>2

(* The chosen element of a finite set, and what is left without it.        *)
LEMMA Without ==
  ASSUME NEW s, IsFiniteSet(s), NEW x \in s
  PROVE  /\ IsFiniteSet(s \ {x})
         /\ Cardinality(s) \in Nat /\ Cardinality(s \ {x}) \in Nat
         /\ Cardinality(s \ {x}) = Cardinality(s) - 1
  BY FS_RemoveElement, FS_CardinalityType

LEMMA ChosenIn == \A s : s # {} => Chosen(s) \in s
  BY DEF Chosen

(***************************************************************************)
(* The recursive function exists and is the only one.                      *)
(***************************************************************************)
Solves(f, S, g, n) == \A s \in SUBSET S : Cardinality(s) <= n => g[s] = Body(f, g, s)

LEMMA SolvedFurther ==
  ASSUME NEW S, IsFiniteSet(S), NEW f, NEW g, NEW n \in Nat, Solves(f, S, g, n)
  PROVE  \E h : Solves(f, S, h, n + 1)
  <1> DEFINE h == [s \in SUBSET S |-> IF Cardinality(s) <= n THEN g[s] ELSE Body(f, g, s)]
  <1>1. ASSUME NEW s \in SUBSET S, Cardinality(s) <= n + 1
        PROVE  h[s] = Body(f, h, s)
    <2>1. IsFiniteSet(s) /\ Cardinality(s) \in Nat
      BY FS_Subset, FS_CardinalityType
    <2>2. h[s] = Body(f, g, s)
      BY DEF Solves
    <2>3. CASE s = {}
      BY <2>2, <2>3 DEF Body
    <2>4. CASE s # {}
      <3>1. Chosen(s) \in s
        BY <2>4, ChosenIn
      <3>2. /\ s \ {Chosen(s)} \in SUBSET S
            /\ Cardinality(s \ {Chosen(s)}) <= n
        BY <1>1, <2>1, <3>1, Without
      <3>3. h[s \ {Chosen(s)}] = g[s \ {Chosen(s)}]
        BY <3>2
      <3>4. QED
        BY <2>2, <2>4, <3>3 DEF Body
    <2>5. QED
      BY <2>3, <2>4
  <1> HIDE DEF h
  <1>2. Solves(f, S, h, n + 1)
    BY <1>1 DEF Solves
  <1>3. QED
    BY <1>2

LEMMA Solvable ==
  ASSUME NEW S, IsFiniteSet(S), NEW f, NEW n \in Nat
  PROVE  \E g : Solves(f, S, g, n)
  <1> DEFINE bad == {m \in Nat : ~\E g : Solves(f, S, g, m)}
  <1>1. 0 \notin bad
    <2>1. \A s \in SUBSET S : Cardinality(s) <= 0 => s = {}
      BY FS_Subset, FS_CardinalityType, FS_EmptySet
    <2>2. Solves(f, S, [s \in SUBSET S |-> 0], 0)
      BY <2>1 DEF Solves, Body
    <2>3. QED
      BY <2>2
  <1>2. ASSUME bad # {} PROVE FALSE
    <2>1. PICK m \in bad : \A k \in bad : m <= k
      BY <1>2, Least
    <2>2. m - 1 \in Nat /\ m - 1 \notin bad
      BY <1>1, <2>1
    <2>3. \E g : Solves(f, S, g, (m - 1) + 1)
      BY <2>2, SolvedFurther
    <2>4. QED
      BY <2>1, <2>3
  <1>3. QED
    BY <1>2

LEMMA PartialSumsDefined ==
  ASSUME NEW S, IsFiniteSet(S), NEW f
  PROVE  \A s \in SUBSET S : PartialSums(f, S)[s] = Body(f, PartialSums(f, S), s)
  <1>1. PICK g : Solves(f, S, g, Cardinality(S))
    BY Solvable, FS_CardinalityType
  <1>2. PICK h : h = [s \in SUBSET S |-> g[s]]
    OBVIOUS
  <1>3. ASSUME NEW s \in SUBSET S PROVE h[s] = Body(f, h, s)
    <2>1. Cardinality(s) <= Cardinality(S)
      BY FS_Subset
    <2>2. g[s] = Body(f, g, s)
      BY <1>1, <2>1 DEF Solves
    <2>3. s \ {Chosen(s)} \in SUBSET S
      OBVIOUS
    <2>4. QED
      BY <1>2, <2>2, <2>3 DEF Body
  <1>4. h = [s \in SUBSET S |-> Body(f, h, s)]
    BY <1>2, <1>3
  <1>5. PICK p : p = PartialSums(f, S)
    OBVIOUS
  <1>6. p = [s \in SUBSET S |-> Body(f, p, s)]
    BY <1>4, <1>5 DEF PartialSums
  <1>7. \A s \in SUBSET S : p[s] = Body(f, p, s)
    BY <1>6
  <1>8. QED
    BY <1>5, <1>7

LEMMA PartialSumsUnique ==
  ASSUME NEW S, IsFiniteSet(S), NEW T, IsFiniteSet(T), NEW f,
         NEW u, u \subseteq S, u \subseteq T
  PROVE  PartialSums(f, S)[u] = PartialSums(f, T)[u]
  <1>1. PICK g : g = PartialSums(f, S)
    OBVIOUS
  <1>2. PICK h : h = PartialSums(f, T)
    OBVIOUS
  <1>3. \A s \in SUBSET S : g[s] = Body(f, g, s)
    BY <1>1, PartialSumsDefined
  <1>4. \A s \in SUBSET T : h[s] = Body(f, h, s)
    BY <1>2, PartialSumsDefined
  <1> DEFINE bad == {s \in SUBSET u : g[s] # h[s]}
  <1>5. ASSUME bad # {} PROVE FALSE
    <2>1. \A s \in bad : IsFiniteSet(s)
      BY FS_Subset
    <2>2. PICK s \in bad : \A t \in bad : Cardinality(s) <= Cardinality(t)
      BY <1>5, <2>1, SmallestSet
    <2>3. s # {}
      BY <1>3, <1>4, <2>2 DEF Body
    <2>4. PICK c \in s : c = Chosen(s)
      BY <2>3, ChosenIn
    <2>5. /\ Cardinality(s) \in Nat
          /\ Cardinality(s \ {c}) = Cardinality(s) - 1
      BY <2>1, <2>2, Without
    <2>6. s \ {c} \notin bad
      BY <2>2, <2>5
    <2>7. g[s \ {c}] = h[s \ {c}]
      BY <2>6
    <2>8. QED
      BY <1>3, <1>4, <2>2, <2>3, <2>4, <2>7 DEF Body
  <1>6. g[u] = h[u]
    BY <1>5
  <1>7. QED
    BY <1>1, <1>2, <1>6

LEMMA SumByChosen ==
  ASSUME NEW S, IsFiniteSet(S), NEW f
  PROVE  SumOver(f, S) = IF S = {} THEN 0 ELSE f[Chosen(S)] + SumOver(f, S \ {Chosen(S)})
  <1>1. PartialSums(f, S)[S] = Body(f, PartialSums(f, S), S)
    BY PartialSumsDefined
  <1>2. IsFiniteSet(S \ {Chosen(S)})
    BY FS_Subset
  <1>3. PartialSums(f, S)[S \ {Chosen(S)}] = PartialSums(f, S \ {Chosen(S)})[S \ {Chosen(S)}]
    BY <1>2, PartialSumsUnique
  <1>4. QED
    BY <1>1, <1>3 DEF SumOver, Body

(***************************************************************************)
(* The laws of sums of integers.                                           *)
(***************************************************************************)
LEMMA SumEmpty == \A f : SumOver(f, {}) = 0
  BY SumByChosen, FS_EmptySet

(* A sum of integers, or of natural numbers, is one.                       *)
LEMMA SumIn ==
  ASSUME NEW S, IsFiniteSet(S), NEW f, NEW V \in {Int, Nat}, \A x \in S : f[x] \in V
  PROVE  SumOver(f, S) \in V
  <1> DEFINE bad == {s \in SUBSET S : SumOver(f, s) \notin V}
  <1>1. ASSUME bad # {} PROVE FALSE
    <2>1. \A s \in bad : IsFiniteSet(s)
      BY FS_Subset
    <2>2. PICK s \in bad : \A t \in bad : Cardinality(s) <= Cardinality(t)
      BY <1>1, <2>1, SmallestSet
    <2>3. s # {}
      BY <2>2, SumEmpty
    <2>4. PICK c \in s : c = Chosen(s)
      BY <2>3, ChosenIn
    <2>5. /\ Cardinality(s) \in Nat
          /\ Cardinality(s \ {c}) = Cardinality(s) - 1
      BY <2>1, <2>2, Without
    <2>6. s \ {c} \notin bad
      BY <2>2, <2>5
    <2>7. SumOver(f, s \ {c}) \in V /\ f[c] \in V
      BY <2>6
    <2>8. SumOver(f, s) = f[c] + SumOver(f, s \ {c})
      BY <2>1, <2>3, <2>4, SumByChosen
    <2>9. QED
      BY <2>2, <2>7, <2>8
  <1>2. QED
    BY <1>1

(* Any element can be taken out of a sum.                                  *)
LEMMA SumWithout ==
  ASSUME NEW S, IsFiniteSet(S), NEW f, \A x \in S : f[x] \in Int, NEW y \in S
  PROVE  SumOver(f, S) = f[y] + SumOver(f, S \ {y})
  <1> DEFINE bad == {s \in SUBSET S : \E x \in s : SumOver(f, s) # f[x] + SumOver(f, s \ {x})}
  <1>1. ASSUME bad # {} PROVE FALSE
    <2>1. \A s \in SUBSET S : IsFiniteSet(s)
      BY FS_Subset
    <2>2. \A s \in SUBSET S : SumOver(f, s) \in Int
      BY <2>1, SumIn
    <2>3. PICK s \in bad : \A t \in bad : Cardinality(s) <= Cardinality(t)
      BY <1>1, <2>1, SmallestSet
    <2>4. PICK x \in s : SumOver(f, s) # f[x] + SumOver(f, s \ {x})
      BY <2>3
    <2>5. PICK c \in s : c = Chosen(s)
      BY <2>4, ChosenIn
    <2>6. SumOver(f, s) = f[c] + SumOver(f, s \ {c})
      BY <2>1, <2>3, <2>5, SumByChosen
    <2>7. c # x
      BY <2>4, <2>6
    <2>8. /\ Cardinality(s) \in Nat
          /\ Cardinality(s \ {c}) = Cardinality(s) - 1
          /\ Cardinality(s \ {x}) = Cardinality(s) - 1
      BY <2>1, <2>3, Without
    <2>9. /\ s \ {c} \notin bad
          /\ s \ {x} \notin bad
      <3>1. \A t \in bad : ~(Cardinality(t) = Cardinality(s) - 1)
        <4>1. \A t \in bad : Cardinality(t) \in Nat
          BY <2>1, FS_CardinalityType
        <4>2. QED
          BY <2>3, <2>8, <4>1
      <3>2. QED
        BY <2>8, <3>1
    <2>10. /\ SumOver(f, s \ {c}) = f[x] + SumOver(f, (s \ {c}) \ {x})
           /\ SumOver(f, s \ {x}) = f[c] + SumOver(f, (s \ {x}) \ {c})
      BY <2>7, <2>9
    <2>11. (s \ {c}) \ {x} = (s \ {x}) \ {c}
      OBVIOUS
    <2>12. /\ f[c] \in Int /\ f[x] \in Int
           /\ SumOver(f, (s \ {x}) \ {c}) \in Int
      BY <2>2
    <2>13. PICK r \in Int : r = SumOver(f, (s \ {x}) \ {c})
      BY <2>12
    <2>14. SumOver(f, s) = f[c] + (f[x] + r)
      BY <2>6, <2>10, <2>11, <2>13
    <2>15. f[x] + SumOver(f, s \ {x}) = f[x] + (f[c] + r)
      BY <2>10, <2>13
    <2>16. f[c] + (f[x] + r) = f[x] + (f[c] + r)
      BY <2>12, <2>13
    <2>17. QED
      BY <2>4, <2>14, <2>15, <2>16
  <1>2. QED
    BY <1>1

LEMMA SumWith ==
  ASSUME NEW S, IsFiniteSet(S), NEW f, NEW y, y \notin S, f[y] \in Int, \A x \in S : f[x] \in Int
  PROVE  SumOver(f, S \cup {y}) = f[y] + SumOver(f, S)
  <1>1. IsFiniteSet(S \cup {y}) /\ (S \cup {y}) \ {y} = S
    BY FS_AddElement
  <1>2. SumOver(f, S \cup {y}) = f[y] + SumOver(f, (S \cup {y}) \ {y})
    BY <1>1, SumWithout
  <1>3. QED
    BY <1>1, <1>2

(* One summand changes.                                                    *)
LEMMA SumChanged ==
  ASSUME NEW S, IsFiniteSet(S), NEW y \in S, NEW f, NEW h,
         \A x \in S : f[x] \in Int /\ h[x] \in Int,
         \A x \in S \ {y} : h[x] = f[x]
  PROVE  SumOver(h, S) = SumOver(f, S) - f[y] + h[y]
  <1>1. IsFiniteSet(S \ {y})
    BY FS_Subset
  <1>2. SumOver(f, S \ {y}) \in Int
    BY <1>1, SumIn
  <1>3. SumOver(h, S \ {y}) = SumOver(f, S \ {y})
    BY SumSame
  <1>4. /\ SumOver(f, S) = f[y] + SumOver(f, S \ {y})
        /\ SumOver(h, S) = h[y] + SumOver(h, S \ {y})
    BY SumWithout
  <1>5. QED
    BY <1>2, <1>3, <1>4

(* A sum of natural numbers grows with its set.                            *)
LEMMA SumGrows ==
  ASSUME NEW S, IsFiniteSet(S), NEW y, NEW f, f[y] \in Nat, \A x \in S : f[x] \in Nat
  PROVE  /\ SumOver(f, S) \in Nat
         /\ SumOver(f, S \cup {y}) \in Nat
         /\ SumOver(f, S) <= SumOver(f, S \cup {y})
  <1>1. SumOver(f, S) \in Nat
    BY SumIn
  <1>2. CASE y \in S
    <2>1. S \cup {y} = S
      BY <1>2
    <2>2. QED
      BY <1>1, <2>1
  <1>3. CASE y \notin S
    <2>1. SumOver(f, S \cup {y}) = f[y] + SumOver(f, S)
      BY <1>3, SumWith
    <2>2. QED
      BY <1>1, <2>1
  <1>4. QED
    BY <1>2, <1>3

(* Zeros add nothing to a sum.                                             *)
LEMMA SumZeros ==
  ASSUME NEW S, IsFiniteSet(S), NEW T \in SUBSET S, NEW f,
         \A x \in S : f[x] \in Int, \A x \in S \ T : f[x] = 0
  PROVE  SumOver(f, S) = SumOver(f, T)
  <1> DEFINE bad == {s \in SUBSET S : T \subseteq s /\ SumOver(f, s) # SumOver(f, T)}
  <1>1. ASSUME bad # {} PROVE FALSE
    <2>1. \A s \in bad : IsFiniteSet(s)
      BY FS_Subset
    <2>2. PICK s \in bad : \A t \in bad : Cardinality(s) <= Cardinality(t)
      BY <1>1, <2>1, SmallestSet
    <2>3. PICK y \in s \ T : TRUE
      BY <2>2
    <2>4. /\ Cardinality(s) \in Nat /\ Cardinality(s \ {y}) \in Nat
          /\ Cardinality(s \ {y}) = Cardinality(s) - 1
      BY <2>1, <2>3, Without
    <2>5. s \ {y} \notin bad
      <3>1. ~(Cardinality(s) <= Cardinality(s \ {y}))
        BY <2>4
      <3>2. QED
        BY <2>2, <3>1
    <2>6. SumOver(f, s \ {y}) = SumOver(f, T)
      BY <2>3, <2>5
    <2>7. SumOver(f, s) = f[y] + SumOver(f, s \ {y})
      BY <2>1, <2>3, SumWithout
    <2>8. f[y] = 0 /\ SumOver(f, s \ {y}) \in Int
      BY <2>1, <2>3, FS_Subset, SumIn
    <2>9. QED
      BY <2>6, <2>7, <2>8
  <1>2. S \notin bad
    BY <1>1
  <1>3. QED
    BY <1>2

(* The elements of P, counted by what g makes of them.                     *)
LEMMA CountByParts ==
  ASSUME NEW S, IsFiniteSet(S), NEW P, IsFiniteSet(P), NEW g, \A x \in P : g[x] \in S
  PROVE  Cardinality(P) = SumOver([s \in S |-> Cardinality({x \in P : g[x] = s})], S)
  <1> DEFINE counts(q) == [s \in S |-> Cardinality({x \in q : g[x] = s})]
             bad == {q \in SUBSET P : Cardinality(q) # SumOver(counts(q), S)}
  <1>1. \A q \in SUBSET P : IsFiniteSet(q) /\ \A s \in S : IsFiniteSet({x \in q : g[x] = s})
                                                           /\ counts(q)[s] \in Nat
    BY FS_Subset, FS_CardinalityType
  <1>2. ASSUME bad # {} PROVE FALSE
    <2>1. PICK q \in bad : \A t \in bad : Cardinality(q) <= Cardinality(t)
      BY <1>1, <1>2, SmallestSet
    <2>2. CASE q = {}
      <3>1. \A s \in S : counts(q)[s] = 0
        <4>1. \A s \in S : {x \in q : g[x] = s} = {}
          BY <2>2
        <4>2. QED
          BY <4>1, FS_EmptySet
      <3>2. SumOver(counts(q), S) = SumOver(counts(q), {})
        <4>1. \A s \in S : counts(q)[s] \in Int
          BY <3>1
        <4>2. PICK f : f = counts(q)
          OBVIOUS
        <4>3. SumOver(f, S) = SumOver(f, {})
          BY <3>1, <4>1, <4>2, SumZeros
        <4>4. QED
          BY <4>2, <4>3
      <3>3. QED
        BY <2>1, <2>2, <3>2, SumEmpty, FS_EmptySet
    <2>3. CASE q # {}
      <3>1. PICK x \in q : TRUE
        BY <2>3
      <3>2. PICK t \in SUBSET P : t = q \ {x}
        OBVIOUS
      <3>3. /\ Cardinality(q) \in Nat /\ Cardinality(t) \in Nat
            /\ Cardinality(t) = Cardinality(q) - 1
        BY <1>1, <3>1, <3>2, Without
      <3>4. t \notin bad
        <4>1. ~(Cardinality(q) <= Cardinality(t))
          BY <3>3
        <4>2. QED
          BY <2>1, <4>1
      <3>5. PICK f : f = counts(t)
        OBVIOUS
      <3>6. PICK h : h = counts(q)
        OBVIOUS
      <3>7. PICK y \in S : y = g[x]
        BY <3>1
      <3>8. \A s \in S : f[s] \in Int /\ h[s] \in Int
        BY <1>1, <3>5, <3>6
      <3>9. \A s \in S \ {y} : h[s] = f[s]
        <4>1. \A s \in S \ {y} : {z \in q : g[z] = s} = {z \in t : g[z] = s}
          BY <3>2, <3>7
        <4>2. QED
          BY <3>5, <3>6, <4>1
      <3>10. h[y] = f[y] + 1
        <4>1. PICK u : u = {z \in q : g[z] = y}
          OBVIOUS
        <4>2. PICK v : v = {z \in t : g[z] = y}
          OBVIOUS
        <4>3. v = u \ {x} /\ x \in u
          BY <3>1, <3>2, <3>7, <4>1, <4>2
        <4>4. IsFiniteSet(u)
          BY <1>1, <4>1
        <4>5. Cardinality(u) \in Nat /\ Cardinality(v) = Cardinality(u) - 1
          BY <4>3, <4>4, Without
        <4>6. h[y] = Cardinality(u) /\ f[y] = Cardinality(v)
          BY <3>5, <3>6, <4>1, <4>2
        <4>7. QED
          BY <4>5, <4>6
      <3>11. SumOver(h, S) = SumOver(f, S) - f[y] + h[y]
        BY <3>8, <3>9, SumChanged
      <3>12. SumOver(f, S) \in Int
        BY <3>8, SumIn
      <3>13. Cardinality(t) = SumOver(f, S)
        BY <3>4, <3>5
      <3>14. SumOver(h, S) = Cardinality(q)
        BY <3>3, <3>8, <3>10, <3>11, <3>12, <3>13
      <3>15. QED
        BY <2>1, <3>6, <3>14
    <2>4. QED
      BY <2>2, <2>3
  <1>3. P \notin bad
    BY <1>2
  <1>4. QED
    BY <1>3

(* A difference and a sum, element by element.                             *)
LEMMA SumMinus ==
  ASSUME NEW S, IsFiniteSet(S), NEW f, NEW g, NEW h,
         \A x \in S : f[x] \in Int /\ g[x] \in Int /\ h[x] = f[x] - g[x]
  PROVE  SumOver(h, S) = SumOver(f, S) - SumOver(g, S)
  <1> DEFINE bad == {s \in SUBSET S : SumOver(h, s) # SumOver(f, s) - SumOver(g, s)}
  <1>1. ASSUME bad # {} PROVE FALSE
    <2>1. \A s \in SUBSET S : IsFiniteSet(s)
      BY FS_Subset
    <2>2. PICK s \in bad : \A t \in bad : Cardinality(s) <= Cardinality(t)
      BY <1>1, <2>1, SmallestSet
    <2>3. s # {}
      BY <2>2, SumEmpty
    <2>4. PICK c \in s : TRUE
      BY <2>3
    <2>5. /\ Cardinality(s) \in Nat
          /\ Cardinality(s \ {c}) = Cardinality(s) - 1
      BY <2>1, <2>2, Without
    <2>6. s \ {c} \notin bad
      BY <2>2, <2>5
    <2>7. PICK a \in Int : a = SumOver(f, s \ {c})
      BY <2>1, <2>2, SumIn
    <2>8. PICK b \in Int : b = SumOver(g, s \ {c})
      BY <2>1, <2>2, SumIn
    <2>9. SumOver(h, s \ {c}) = a - b
      BY <2>6, <2>7, <2>8
    <2>10. \A x \in s : f[x] \in Int /\ g[x] \in Int /\ h[x] \in Int
      BY <2>2
    <2>11. /\ SumOver(f, s) = f[c] + a
           /\ SumOver(g, s) = g[c] + b
           /\ SumOver(h, s) = h[c] + (a - b)
      <3>1. IsFiniteSet(s)
        BY <2>1, <2>2
      <3>2. SumOver(f, s) = f[c] + SumOver(f, s \ {c})
        BY <2>4, <2>10, <3>1, SumWithout
      <3>3. SumOver(g, s) = g[c] + SumOver(g, s \ {c})
        BY <2>4, <2>10, <3>1, SumWithout
      <3>4. SumOver(h, s) = h[c] + SumOver(h, s \ {c})
        BY <2>4, <2>10, <3>1, SumWithout
      <3>5. QED
        BY <2>7, <2>8, <2>9, <3>2, <3>3, <3>4
    <2>12. h[c] = f[c] - g[c]
      BY <2>2, <2>4
    <2>13. SumOver(h, s) = SumOver(f, s) - SumOver(g, s)
      BY <2>10, <2>11, <2>12
    <2>14. QED
      BY <2>2, <2>13
  <1>2. S \notin bad
    BY <1>1
  <1>3. QED
    BY <1>2

LEMMA SumPlus ==
  ASSUME NEW S, IsFiniteSet(S), NEW f, NEW g, NEW h,
         \A x \in S : f[x] \in Int /\ g[x] \in Int /\ h[x] = f[x] + g[x]
  PROVE  SumOver(h, S) = SumOver(f, S) + SumOver(g, S)
  <1>1. \A x \in S : h[x] \in Int /\ g[x] \in Int /\ f[x] = h[x] - g[x]
    OBVIOUS
  <1>2. SumOver(f, S) = SumOver(h, S) - SumOver(g, S)
    BY <1>1, SumMinus
  <1>3. SumOver(h, S) \in Int /\ SumOver(g, S) \in Int
    BY <1>1, SumIn
  <1>4. QED
    BY <1>2, <1>3

(* A sum over the elements that s gives different names to.                *)
LEMMA SumRenamed ==
  ASSUME NEW S, IsFiniteSet(S), NEW P, IsFiniteSet(P), NEW s, \A x \in S : s[x] \in P,
         \A x, y \in S : s[x] = s[y] => x = y,
         NEW f, \A p \in P : f[p] \in Int, NEW h, \A x \in S : h[x] = f[s[x]]
  PROVE  SumOver(h, S) = SumOver(f, {s[x] : x \in S})
  <1> DEFINE Named(t) == {s[x] : x \in t}
             bad == {t \in SUBSET S : SumOver(h, t) # SumOver(f, Named(t))}
  <1>1. ASSUME bad # {} PROVE FALSE
    <2>1. \A t \in SUBSET S : IsFiniteSet(t) /\ IsFiniteSet(Named(t)) /\ Named(t) \subseteq P
      <3>1. \A t \in SUBSET S : Named(t) \subseteq P
        OBVIOUS
      <3>2. QED
        BY <3>1, FS_Subset
    <2>2. PICK t \in bad : \A u \in bad : Cardinality(t) <= Cardinality(u)
      BY <1>1, <2>1, SmallestSet
    <2>3. t # {}
      <3>1. t = {} => Named(t) = {}
        OBVIOUS
      <3>2. QED
        BY <2>2, <3>1, SumEmpty
    <2>4. PICK c \in t : TRUE
      BY <2>3
    <2>5. PICK u \in SUBSET S : u = t \ {c}
      BY <2>2
    <2>6. /\ Cardinality(t) \in Nat
          /\ Cardinality(u) = Cardinality(t) - 1
      BY <2>1, <2>2, <2>4, <2>5, Without
    <2>7. u \notin bad
      BY <2>2, <2>5, <2>6
    <2>8. SumOver(h, u) = SumOver(f, Named(u))
      BY <2>7
    <2>9. Named(u) = Named(t) \ {s[c]} /\ s[c] \in Named(t)
      BY <2>2, <2>4, <2>5
    <2>10. SumOver(f, Named(t)) = f[s[c]] + SumOver(f, Named(u))
      <3>1. PICK q : q = Named(t)
        OBVIOUS
      <3>2. IsFiniteSet(q) /\ s[c] \in q /\ \A p \in q : f[p] \in Int
        BY <2>1, <2>2, <2>9, <3>1
      <3>3. SumOver(f, q) = f[s[c]] + SumOver(f, q \ {s[c]})
        BY <3>2, SumWithout
      <3>4. QED
        BY <2>9, <3>1, <3>3
    <2>11. SumOver(h, t) = h[c] + SumOver(h, u)
      <3>1. \A x \in t : h[x] \in Int
        BY <2>2
      <3>2. IsFiniteSet(t)
        BY <2>1, <2>2
      <3>3. QED
        BY <2>4, <2>5, <3>1, <3>2, SumWithout
    <2>12. h[c] = f[s[c]]
      BY <2>2, <2>4
    <2>13. QED
      BY <2>2, <2>8, <2>10, <2>11, <2>12
  <1>2. S \notin bad
    BY <1>1
  <1>3. QED
    BY <1>2
=============================================================================
