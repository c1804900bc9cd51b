----------------------------- MODULE FiniteSums -----------------------------
(***************************************************************************)
(* Lemmas about finite sets that know nothing of allocators: an induction  *)
(* over a set, and sums of a function over one.  They are what the proofs  *)
(* about the counters of the lists and about the getters need.             *)
(***************************************************************************)
EXTENDS Integers, FiniteSetsExt, FiniteSetTheorems, WellFoundedInduction, TLAPS

(* Every non-empty set of numbers has a least element.                     *)
LEMMA LeastNat ==
  ASSUME NEW S, S \subseteq Nat, S # {}
  PROVE  \E x \in S : \A y \in S : x <= y
<1>1. \E x \in S : \A y \in S : ~ (<<y, x>> \in OpToRel(<, Nat))
  BY WFMin, NatLessThanWellFounded
<1>2. PICK x \in S : \A y \in S : ~ (<<y, x>> \in OpToRel(<, Nat))
  BY <1>1
<1>3. \A y \in S : ~ (y < x)
  BY <1>2 DEF OpToRel
<1>4. \A y \in S : x <= y
  BY <1>3
<1> QED
  BY <1>4

(* Induction: what holds of no element and of one element more holds of    *)
(* the whole set.  The property is given as the set B of the sets that     *)
(* have it.                                                                *)
LEMMA SetInduction ==
  ASSUME NEW S, IsFiniteSet(S), NEW B,
         {} \in B,
         \A T \in SUBSET S : \A x \in S \ T : T \in B => T \cup {x} \in B
  PROVE  \A T \in SUBSET S : T \in B
<1> DEFINE D == {n \in Nat : \E T \in SUBSET S : Cardinality(T) = n /\ T \notin B}
<1> SUFFICES ASSUME NEW U \in SUBSET S, U \notin B PROVE FALSE
  OBVIOUS
<1>1. \A T \in SUBSET S : IsFiniteSet(T) /\ Cardinality(T) \in Nat
  <2> TAKE T \in SUBSET S
  <2>1. IsFiniteSet(T)
    BY FS_Subset
  <2> QED
    BY <2>1, FS_CardinalityType
<1>2. D # {} /\ D \subseteq Nat
  BY <1>1
<1>3. PICK n \in D : \A m \in D : n <= m
  <2> HIDE DEF D
  <2> QED
    BY <1>2, LeastNat
<1>4. PICK T \in SUBSET S : Cardinality(T) = n /\ T \notin B
  OBVIOUS
<1>5. PICK x \in T : TRUE
  BY <1>4
<1>6. PICK R : R = T \ {x}
  OBVIOUS
<1>7. Cardinality(R) = n - 1 /\ R \in SUBSET S /\ n - 1 \in Nat /\ n \in Nat
  <2>1. Cardinality(R) = n - 1
    BY <1>1, <1>4, <1>5, <1>6, FS_RemoveElement
  <2>2. R \in SUBSET S
    BY <1>6
  <2> QED
    BY <1>1, <2>1, <2>2
<1>8. n - 1 \notin D
  <2>1. \A m \in D : n <= m
    BY <1>3
  <2> HIDE DEF D
  <2> QED
    BY <1>7, <2>1
<1>9. R \in B
  BY <1>7, <1>8
<1>10. T = R \cup {x} /\ x \in S \ R
  BY <1>5, <1>6
<1> QED
  BY <1>4, <1>7, <1>9, <1>10

----------------------------------------------------------------------------
(* SumFunctionOnSet, unfolded: one element, then the rest                  *)

Chosen(s) == CHOOSE x \in s : TRUE

IsSum(g, f, S) ==
  g = [s \in SUBSET S |-> IF s = {} THEN 0 ELSE f[Chosen(s)] + g[s \ {Chosen(s)}]]

LEMMA SumIsChosen ==
  ASSUME NEW f, NEW S
  PROVE  SumFunctionOnSet(f, S) = (CHOOSE g : IsSum(g, f, S))[S]
BY DEF SumFunctionOnSet, FoldFunctionOnSet, MapThenFoldSet, IsSum, Chosen

LEMMA ChosenIn ==
  ASSUME NEW s, s # {}
  PROVE  Chosen(s) \in s
BY DEF Chosen

(* Two such functions agree where both are defined: on a set and, with it, *)
(* on all that is left of it as its elements are taken away.               *)
LEMMA SumUnique ==
  ASSUME NEW f, NEW S, IsFiniteSet(S), NEW T, IsFiniteSet(T),
         NEW g, IsSum(g, f, S), NEW h, IsSum(h, f, T)
  PROVE  \A r : r \subseteq S /\ r \subseteq T => g[r] = h[r]
<1> SUFFICES ASSUME NEW r, r \subseteq S, r \subseteq T, g[r] # h[r] PROVE FALSE
  OBVIOUS
<1> DEFINE D == {n \in Nat : \E s \in SUBSET (S \cap T) : Cardinality(s) = n /\ g[s] # h[s]}
<1>1. \A s \in SUBSET (S \cap T) : IsFiniteSet(s) /\ Cardinality(s) \in Nat
  <2> TAKE s \in SUBSET (S \cap T)
  <2>1. IsFiniteSet(s)
    BY FS_Subset
  <2> QED
    BY <2>1, FS_CardinalityType
<1>2. D # {} /\ D \subseteq Nat
  BY <1>1
<1>3. PICK n \in D : \A m \in D : n <= m
  <2> HIDE DEF D
  <2> QED
    BY <1>2, LeastNat
<1>4. PICK s \in SUBSET (S \cap T) : Cardinality(s) = n /\ g[s] # h[s]
  OBVIOUS
<1>5. s # {}
  BY <1>4 DEF IsSum
<1>6. PICK t : t = s \ {Chosen(s)}
  OBVIOUS
<1>7. g[t] = h[t]
  <2>1. t \in SUBSET (S \cap T) /\ Cardinality(t) = n - 1 /\ n - 1 \in Nat
    <3>1. Cardinality(t) = Cardinality(s) - 1
      BY <1>1, <1>5, <1>6, ChosenIn, FS_RemoveElement
    <3>2. t \in SUBSET (S \cap T)
      BY <1>6
    <3> QED
      BY <1>1, <1>4, <3>1, <3>2
  <2>2. n - 1 \notin D
    <3>1. \A m \in D : n <= m
      BY <1>3
    <3> HIDE DEF D
    <3> QED
      BY <1>2, <2>1, <3>1
  <2> QED
    BY <2>1, <2>2
<1>8. g[s] = f[Chosen(s)] + g[t] /\ h[s] = f[Chosen(s)] + h[t]
  <2>1. s \in SUBSET S /\ s \in SUBSET T
    OBVIOUS
  <2> QED
    BY <1>5, <1>6, <2>1 DEF IsSum
<1> QED
  BY <1>4, <1>7, <1>8

(* There is such a function: it can be built size by size.                 *)
LEMMA SumExists ==
  ASSUME NEW f, NEW S, IsFiniteSet(S)
  PROVE  \E g : IsSum(g, f, S)
<1> DEFINE Sized(n) == {s \in SUBSET S : Cardinality(s) <= n}
           Upto(n) == \E g : g = [s \in Sized(n) |->
                          IF s = {} THEN 0 ELSE f[Chosen(s)] + g[s \ {Chosen(s)}]]
           D == {n \in Nat : ~Upto(n)}
<1>1. \A s \in SUBSET S : /\ IsFiniteSet(s) /\ Cardinality(s) \in Nat
                          /\ Cardinality(s) <= Cardinality(S)
  <2> TAKE s \in SUBSET S
  <2>1. IsFiniteSet(s) /\ Cardinality(s) <= Cardinality(S)
    BY FS_Subset
  <2> QED
    BY <2>1, FS_CardinalityType
<1>2. \A s \in SUBSET S : s # {} => /\ s \ {Chosen(s)} \in SUBSET S
                                    /\ Cardinality(s \ {Chosen(s)}) = Cardinality(s) - 1
  BY <1>1, ChosenIn, FS_RemoveElement
<1>3. \A s \in SUBSET S : Cardinality(s) = 0 <=> s = {}
  BY <1>1, FS_EmptySet
<1>4. Upto(0)
  <2> DEFINE g == [s \in Sized(0) |-> 0]
  <2>1. \A s \in Sized(0) : s = {}
    BY <1>1, <1>3
  <2>2. g = [s \in Sized(0) |-> IF s = {} THEN 0 ELSE f[Chosen(s)] + g[s \ {Chosen(s)}]]
    BY <2>1
  <2> QED
    BY <2>2
<1>5. ASSUME NEW n \in Nat, Upto(n) PROVE Upto(n + 1)
  <2>1. PICK g : g = [s \in Sized(n) |->
                        IF s = {} THEN 0 ELSE f[Chosen(s)] + g[s \ {Chosen(s)}]]
    BY <1>5
  <2> DEFINE h == [s \in Sized(n + 1) |->
                     IF s = {} THEN 0 ELSE f[Chosen(s)] + g[s \ {Chosen(s)}]]
  <2>2. \A s \in Sized(n + 1) : s # {} => s \ {Chosen(s)} \in Sized(n)
                                          /\ s \ {Chosen(s)} \in Sized(n + 1)
    BY <1>1, <1>2
  <2>3. \A s \in Sized(n) : s \in Sized(n + 1) /\ h[s] = g[s]
    <3>1. \A s \in Sized(n) : s \in Sized(n + 1)
      BY <1>1
    <3> QED
      BY <2>1, <3>1
  <2>4. h = [s \in Sized(n + 1) |->
               IF s = {} THEN 0 ELSE f[Chosen(s)] + h[s \ {Chosen(s)}]]
    BY <2>2, <2>3
  <2> QED
    BY <2>4
<1>6. D = {}
  <2> SUFFICES ASSUME D # {} PROVE FALSE
    OBVIOUS
  <2>1. PICK n \in D : \A m \in D : n <= m
    <3>1. D \subseteq Nat
      OBVIOUS
    <3> HIDE DEF D
    <3> QED
      BY <3>1, LeastNat
  <2>2. n \in Nat /\ ~Upto(n)
    OBVIOUS
  <2> HIDE DEF Upto
  <2>3. n # 0
    BY <1>4, <2>2
  <2>4. n - 1 \in Nat /\ n - 1 \notin D
    <3>1. n - 1 \in Nat
      BY <2>2, <2>3
    <3>2. \A m \in D : n <= m
      BY <2>1
    <3>3. ~(n <= n - 1)
      BY <2>2
    <3> HIDE DEF D
    <3> QED
      BY <3>1, <3>2, <3>3
  <2>5. Upto(n - 1)
    BY <2>4
  <2>6. Upto((n - 1) + 1)
    BY <1>5, <2>4, <2>5
  <2> QED
    BY <2>2, <2>6
<1>7. Cardinality(S) \in Nat
  BY FS_CardinalityType
<1>8. Upto(Cardinality(S))
  <2> HIDE DEF Upto
  <2> QED
    BY <1>6, <1>7
<1>9. Sized(Cardinality(S)) = SUBSET S
  BY <1>1
<1> QED
  BY <1>8, <1>9 DEF IsSum

(* Hence the equation by which a sum is computed.                          *)
LEMMA SumUnfolds ==
  ASSUME NEW f, NEW S, IsFiniteSet(S)
  PROVE  /\ SumFunctionOnSet(f, {}) = 0
         /\ S # {} => SumFunctionOnSet(f, S) =
                        f[Chosen(S)] + SumFunctionOnSet(f, S \ {Chosen(S)})
<1>1. ASSUME NEW T, IsFiniteSet(T)
      PROVE  \E g : IsSum(g, f, T) /\ SumFunctionOnSet(f, T) = g[T]
  <2>1. IsSum(CHOOSE g : IsSum(g, f, T), f, T)
    BY <1>1, SumExists
  <2> QED
    BY <2>1, SumIsChosen
<1>2. SumFunctionOnSet(f, {}) = 0
  <2>1. IsFiniteSet({})
    BY FS_EmptySet
  <2>2. PICK g : IsSum(g, f, {}) /\ SumFunctionOnSet(f, {}) = g[{}]
    BY <1>1, <2>1
  <2> QED
    BY <2>2 DEF IsSum
<1>3. ASSUME S # {}
      PROVE  SumFunctionOnSet(f, S) = f[Chosen(S)] + SumFunctionOnSet(f, S \ {Chosen(S)})
  <2>1. PICK t : t = S \ {Chosen(S)}
    OBVIOUS
  <2>2. PICK g : IsSum(g, f, S) /\ SumFunctionOnSet(f, S) = g[S]
    BY <1>1
  <2>3. IsFiniteSet(t)
    BY <2>1, FS_RemoveElement
  <2>4. PICK h : IsSum(h, f, t) /\ SumFunctionOnSet(f, t) = h[t]
    BY <1>1, <2>3
  <2>5. g[S] = f[Chosen(S)] + g[t]
    BY <1>3, <2>1, <2>2 DEF IsSum
  <2>6. g[t] = h[t]
    <3>1. t \subseteq S /\ t \subseteq t
      BY <2>1
    <3>2. IsSum(g, f, S) /\ IsSum(h, f, t)
      BY <2>2, <2>4
    <3> QED
      BY <2>3, <3>1, <3>2, SumUnique
  <2> QED
    BY <2>1, <2>2, <2>4, <2>5, <2>6
<1> QED
  BY <1>2, <1>3

LEMMA SumOfNone ==
  ASSUME NEW f
  PROVE  SumFunctionOnSet(f, {}) = 0
BY SumUnfolds, FS_EmptySet

----------------------------------------------------------------------------
(* The order in which a sum is taken does not matter                       *)

(* A sum of numbers is a number.                                           *)
LEMMA SumType ==
  ASSUME NEW S, IsFiniteSet(S), NEW f, \A x \in S : f[x] \in Int
  PROVE  SumFunctionOnSet(f, S) \in Int
<1> DEFINE D == {n \in Nat : \E T \in SUBSET S : /\ Cardinality(T) = n
                                                 /\ SumFunctionOnSet(f, T) \notin Int}
<1> SUFFICES ASSUME SumFunctionOnSet(f, S) \notin Int PROVE FALSE
  OBVIOUS
<1>1. \A T \in SUBSET S : IsFiniteSet(T) /\ Cardinality(T) \in Nat
  <2> TAKE T \in SUBSET S
  <2>1. IsFiniteSet(T)
    BY FS_Subset
  <2> QED
    BY <2>1, FS_CardinalityType
<1>2. D # {} /\ D \subseteq Nat
  BY <1>1
<1>3. PICK n \in D : \A m \in D : n <= m
  <2> HIDE DEF D
  <2> QED
    BY <1>2, LeastNat
<1>4. PICK T \in SUBSET S : Cardinality(T) = n /\ SumFunctionOnSet(f, T) \notin Int
  OBVIOUS
<1>5. T # {}
  BY <1>4, SumOfNone
<1>6. PICK c, R : c = Chosen(T) /\ R = T \ {c}
  OBVIOUS
<1>7. c \in S /\ c \in T
  BY <1>5, <1>6, ChosenIn
<1>8. Cardinality(R) = n - 1 /\ R \in SUBSET S /\ n - 1 \in Nat /\ n \in Nat
  <2>1. Cardinality(R) = n - 1
    BY <1>1, <1>4, <1>6, <1>7, FS_RemoveElement
  <2>2. R \in SUBSET S
    BY <1>6
  <2> QED
    BY <1>1, <2>1, <2>2
<1>9. SumFunctionOnSet(f, R) \in Int
  <2>1. \A m \in D : n <= m
    BY <1>3
  <2>2. n - 1 \notin D
    <3> HIDE DEF D
    <3> QED
      BY <1>8, <2>1
  <2> QED
    BY <1>8, <2>2
<1>10. SumFunctionOnSet(f, T) = f[c] + SumFunctionOnSet(f, R)
  BY <1>1, <1>5, <1>6, SumUnfolds
<1> QED
  BY <1>4, <1>7, <1>9, <1>10

(* An element more.                                                        *)
LEMMA SumAdd ==
  ASSUME NEW S, IsFiniteSet(S), NEW f, \A x \in S : f[x] \in Int,
         NEW U \in SUBSET S, NEW z \in S \ U
  PROVE  SumFunctionOnSet(f, U \cup {z}) = SumFunctionOnSet(f, U) + f[z]
<1> DEFINE Off(T, x) ==
             SumFunctionOnSet(f, T \cup {x}) # SumFunctionOnSet(f, T) + f[x]
           D == {n \in Nat : \E T \in SUBSET S : \E x \in S \ T : Cardinality(T) = n /\ Off(T, x)}
<1> SUFFICES ASSUME Off(U, z) PROVE FALSE
  OBVIOUS
<1> HIDE DEF Off
<1>1. \A T \in SUBSET S : /\ IsFiniteSet(T) /\ Cardinality(T) \in Nat
                          /\ SumFunctionOnSet(f, T) \in Int
  <2> TAKE T \in SUBSET S
  <2>1. IsFiniteSet(T)
    BY FS_Subset
  <2>2. \A x \in T : f[x] \in Int
    OBVIOUS
  <2> QED
    BY <2>1, <2>2, FS_CardinalityType, SumType
<1>2. D # {} /\ D \subseteq Nat
  BY <1>1
<1>3. PICK n \in D : \A m \in D : n <= m
  <2> HIDE DEF D
  <2> QED
    BY <1>2, LeastNat
<1>4. PICK T \in SUBSET S : \E x \in S \ T : Cardinality(T) = n /\ Off(T, x)
  OBVIOUS
<1>5. PICK x \in S \ T : Cardinality(T) = n /\ Off(T, x)
  BY <1>4
<1>6. ASSUME NEW R \in SUBSET T, NEW y \in S \ R, Cardinality(R) = n - 1
      PROVE  SumFunctionOnSet(f, R \cup {y}) = SumFunctionOnSet(f, R) + f[y]
  <2>1. n \in Nat /\ R \in SUBSET S /\ n - 1 \in Nat
    BY <1>1, <1>6
  <2>2. n - 1 \notin D
    <3>1. \A m \in D : n <= m
      BY <1>3
    <3> HIDE DEF D
    <3> QED
      BY <2>1, <3>1
  <2> QED
    BY <1>6, <2>1, <2>2 DEF Off
<1>7. PICK W, c : W = T \cup {x} /\ c = Chosen(W)
  OBVIOUS
<1>8. W \in SUBSET S /\ W # {} /\ c \in W
  BY <1>5, <1>7, ChosenIn
<1>9. SumFunctionOnSet(f, W) = f[c] + SumFunctionOnSet(f, W \ {c})
  BY <1>1, <1>7, <1>8, SumUnfolds
<1>10. CASE c = x
  <2>1. W \ {c} = T
    BY <1>7, <1>10
  <2>2. SumFunctionOnSet(f, T) \in Int /\ f[x] \in Int
    BY <1>1, <1>4, <1>5
  <2>3. SumFunctionOnSet(f, W) = f[x] + SumFunctionOnSet(f, T)
    BY <1>9, <1>10, <2>1
  <2>4. SumFunctionOnSet(f, T \cup {x}) = SumFunctionOnSet(f, T) + f[x]
    BY <1>7, <2>2, <2>3
  <2> QED
    BY <1>5, <2>4 DEF Off
<1>11. CASE c # x
  <2>1. c \in T
    BY <1>7, <1>8, <1>11
  <2>2. PICK R : R = T \ {c}
    OBVIOUS
  <2>3. R \in SUBSET T /\ c \in S \ R /\ x \in S \ R /\ R \cup {c} = T /\ R \cup {x} = W \ {c}
    BY <1>5, <1>7, <1>11, <2>1, <2>2
  <2>4. Cardinality(R) = n - 1
    BY <1>1, <1>5, <2>1, <2>2, FS_RemoveElement
  <2>5. SumFunctionOnSet(f, T) = SumFunctionOnSet(f, R) + f[c]
    BY <1>6, <2>3, <2>4
  <2>6. SumFunctionOnSet(f, W \ {c}) = SumFunctionOnSet(f, R) + f[x]
    BY <1>6, <2>3, <2>4
  <2>7. /\ SumFunctionOnSet(f, R) \in Int /\ f[c] \in Int /\ f[x] \in Int
    BY <1>1, <2>3
  <2> QED
    BY <1>5, <1>7, <1>9, <2>5, <2>6, <2>7 DEF Off
<1> QED
  BY <1>10, <1>11

(* The same, of two sets; and an element less.                             *)
LEMMA SumWith ==
  ASSUME NEW S, IsFiniteSet(S), NEW z, z \notin S, NEW f, \A x \in S \cup {z} : f[x] \in Int
  PROVE  SumFunctionOnSet(f, S \cup {z}) = SumFunctionOnSet(f, S) + f[z]
<1>1. PICK T : T = S \cup {z}
  OBVIOUS
<1>2. IsFiniteSet(T) /\ S \in SUBSET T /\ z \in T \ S /\ \A x \in T : f[x] \in Int
  BY <1>1, FS_AddElement
<1> QED
  BY <1>1, <1>2, SumAdd

LEMMA SumWithout ==
  ASSUME NEW S, IsFiniteSet(S), NEW z \in S, NEW f, \A x \in S : f[x] \in Int
  PROVE  SumFunctionOnSet(f, S \ {z}) = SumFunctionOnSet(f, S) - f[z]
<1>1. PICK R : R = S \ {z}
  OBVIOUS
<1>2. R \cup {z} = S /\ z \notin R /\ IsFiniteSet(R)
  BY <1>1, FS_RemoveElement
<1>3. SumFunctionOnSet(f, S) = SumFunctionOnSet(f, R) + f[z]
  BY <1>2, SumWith
<1>4. \A x \in R : f[x] \in Int
  BY <1>1
<1>5. SumFunctionOnSet(f, R) \in Int
  BY <1>2, <1>4, SumType
<1> QED
  BY <1>1, <1>3, <1>5

----------------------------------------------------------------------------
(* Sums of related functions                                               *)

(* h = f + c * g.  With c = 0 two functions that agree, with c = 1 a sum   *)
(* of two.                                                                 *)
LEMMA SumLinear ==
  ASSUME NEW S, IsFiniteSet(S), NEW f, NEW g, NEW h, NEW c \in Int,
         \A x \in S : f[x] \in Int /\ g[x] \in Int /\ h[x] = f[x] + c * g[x]
  PROVE  SumFunctionOnSet(h, S) = SumFunctionOnSet(f, S) + c * SumFunctionOnSet(g, S)
<1> DEFINE B == {T \in SUBSET S : SumFunctionOnSet(h, T)
                                    = SumFunctionOnSet(f, T) + c * SumFunctionOnSet(g, T)}
<1>1. {} \in B
  BY SumOfNone
<1>2. ASSUME NEW T \in SUBSET S, NEW x \in S \ T, T \in B PROVE T \cup {x} \in B
  <2>1. IsFiniteSet(T)
    BY FS_Subset
  <2>2. /\ \A y \in T : f[y] \in Int /\ g[y] \in Int
        /\ \A y \in S : h[y] \in Int
    OBVIOUS
  <2>3. SumFunctionOnSet(f, T) \in Int /\ SumFunctionOnSet(g, T) \in Int
    BY <2>1, <2>2, SumType
  <2>4. /\ SumFunctionOnSet(f, T \cup {x}) = SumFunctionOnSet(f, T) + f[x]
        /\ SumFunctionOnSet(g, T \cup {x}) = SumFunctionOnSet(g, T) + g[x]
        /\ SumFunctionOnSet(h, T \cup {x}) = SumFunctionOnSet(h, T) + h[x]
    BY <2>2, SumAdd
  <2>5. SumFunctionOnSet(h, T) = SumFunctionOnSet(f, T) + c * SumFunctionOnSet(g, T)
    BY <1>2
  <2>6. PICK p, q : /\ p = SumFunctionOnSet(f, T) /\ q = SumFunctionOnSet(g, T)
                    /\ p \in Int /\ q \in Int
    BY <2>3
  <2>7. (p + c * q) + (f[x] + c * g[x]) = (p + f[x]) + c * (q + g[x])
    BY <2>6
  <2> QED
    BY <2>4, <2>5, <2>6, <2>7
<1>3. S \in SUBSET S
  OBVIOUS
<1>4. S \in B
  <2> HIDE DEF B
  <2> QED
    BY <1>1, <1>2, <1>3, SetInduction
<1> QED
  BY <1>4

LEMMA SumSame ==
  ASSUME NEW S, IsFiniteSet(S), NEW f, NEW g, \A x \in S : f[x] \in Int /\ f[x] = g[x]
  PROVE  SumFunctionOnSet(f, S) = SumFunctionOnSet(g, S)
<1>1. PICK c \in Int : c = 0
  OBVIOUS
<1>2. \A x \in S : g[x] \in Int /\ g[x] \in Int /\ f[x] = g[x] + c * g[x]
  BY <1>1
<1>3. SumFunctionOnSet(g, S) \in Int
  BY <1>2, SumType
<1>4. SumFunctionOnSet(f, S) = SumFunctionOnSet(g, S) + c * SumFunctionOnSet(g, S)
  BY <1>2, SumLinear
<1> QED
  BY <1>1, <1>3, <1>4

(* A set has as many elements as its classes have together: cls gives the  *)
(* class of an element, K the classes, part[k] what is in class k.         *)
LEMMA SumOfClasses ==
  ASSUME NEW S, IsFiniteSet(S), NEW K, IsFiniteSet(K), NEW cls, NEW part, NEW f,
         \A b \in S : cls[b] \in K,
         \A k \in K : part[k] \subseteq S /\ f[k] = Cardinality(part[k]),
         \A k \in K : \A b \in S : b \in part[k] <=> cls[b] = k
  PROVE  SumFunctionOnSet(f, K) = Cardinality(S)
<1> DEFINE Of(T) == {b \in S : cls[b] \in T}
           B == {T \in SUBSET K : SumFunctionOnSet(f, T) = Cardinality(Of(T))}
<1>1. {} \in B
  <2>1. Of({}) = {}
    OBVIOUS
  <2> QED
    BY <2>1, SumOfNone, FS_EmptySet
<1>2. ASSUME NEW T \in SUBSET K, NEW k \in K \ T, T \in B PROVE T \cup {k} \in B
  <2> DEFINE Own == part[k]
  <2>1. IsFiniteSet(Of(T)) /\ IsFiniteSet(Own)
    <3>1. Of(T) \in SUBSET S /\ Own \in SUBSET S
      OBVIOUS
    <3> QED
      BY <3>1, FS_Subset
  <2>2. Of(T \cup {k}) = Of(T) \cup Own /\ Of(T) \cap Own = {}
    OBVIOUS
  <2> HIDE DEF Of
  <2>3. Cardinality(Of(T)) \in Nat /\ Cardinality(Own) \in Nat
    BY <2>1, FS_CardinalityType
  <2>4. Cardinality(Of(T) \cup Own) = Cardinality(Of(T)) + Cardinality(Own)
    <3>1. Cardinality(Of(T) \cup Own)
            = Cardinality(Of(T)) + Cardinality(Own) - Cardinality(Of(T) \cap Own)
      BY <2>1, FS_Union
    <3>2. Cardinality(Of(T) \cap Own) = 0
      BY <2>2, FS_EmptySet
    <3> HIDE DEF Own
    <3> QED
      BY <2>3, <3>1, <3>2
  <2>5. \A j \in K : f[j] \in Int
    <3> TAKE j \in K
    <3>1. IsFiniteSet(part[j])
      BY FS_Subset
    <3> QED
      BY <3>1, FS_CardinalityType
  <2>6. SumFunctionOnSet(f, T \cup {k}) = SumFunctionOnSet(f, T) + f[k]
    BY <2>5, SumAdd
  <2>7. SumFunctionOnSet(f, T) = Cardinality(Of(T)) /\ f[k] = Cardinality(Own)
    BY <1>2
  <2> QED
    BY <2>2, <2>4, <2>6, <2>7
<1>3. K \in SUBSET K /\ Of(K) = S
  OBVIOUS
<1>4. K \in B
  <2> HIDE DEF B
  <2> QED
    BY <1>1, <1>2, <1>3, SetInduction
<1> QED
  BY <1>3, <1>4
=============================================================================
