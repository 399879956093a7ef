---------------------------- MODULE SumTheorems ----------------------------
(***************************************************************************)
(* Facts about the least and the greatest member of a set of numbers, and  *)
(* about SumFunctionOnSet(f, S), the sum of f[x] over a finite set S.      *)
(*                                                                         *)
(* The sum is defined by a recursive function on the subsets of S that     *)
(* takes out one chosen element after the other.  That such a function     *)
(* exists for each finite set, that those of two sets agree where both are *)
(* defined, and that any element may be taken out first, is shown by       *)
(* induction on cardinality, as the least counterexample.                  *)
(***************************************************************************)
EXTENDS Integers, FiniteSets, FiniteSetsExt, Functions, FiniteSetTheorems,
        WellFoundedInduction, TLAPS

\* The element that is taken out of a set.
One(S) == CHOOSE x \in S : TRUE

\* h is the recursive function that sums f over the subsets of S.
Sums(h, f, S) ==
    h = [s \in SUBSET S |-> IF s = {} THEN 0 ELSE f[One(s)] + h[s \ {One(s)}]]

\* A set of natural numbers has a least member.
LEMMA LeastMember ==
    ASSUME NEW N, N \subseteq Nat, N # {}
    PROVE  \E m \in N : \A n \in N : m <= n
<1> DEFINE R == {mn \in Nat \X Nat : mn[1] < mn[2]}
<1>1. IsWellFoundedOn(R, Nat)
  BY NatLessThanWellFounded DEF OpToRel
<1>2. \A m, n \in Nat : <<m, n>> \in R <=> m < n
  OBVIOUS
<1> HIDE DEF R
<1>3. PICK x \in N : \A y \in N : ~ (<<y, x>> \in R)
  BY <1>1, WFMin
<1>4. \A y \in N : ~ (y < x)
  BY <1>2, <1>3
<1> QED
  BY <1>4

\* A bounded one has a greatest member.
LEMMA GreatestMember ==
    ASSUME NEW S, NEW n \in Nat, S \subseteq 0..n, S # {}
    PROVE  Max(S) \in S /\ \A x \in S : Max(S) >= x
<1> DEFINE N == {n - x : x \in S}
<1>1. \A x \in S : x \in Int /\ n - x \in Nat
  OBVIOUS
<1>2. \A x \in S : n - x \in N
  OBVIOUS
<1>3. \A m \in N : \E x \in S : m = n - x
  OBVIOUS
<1> HIDE DEF N
<1>4. PICK m \in N : \A k \in N : m <= k
  BY <1>1, <1>2, <1>3, LeastMember
<1>5. PICK x \in S : m = n - x
  BY <1>3
<1>6. \A y \in S : x >= y
  BY <1>2, <1>4, <1>5
<1> QED
  BY <1>6 DEF Max

LEMMA MaxOfTwo ==
    ASSUME NEW a \in Int, NEW b \in Int
    PROVE  /\ Max({a, b}) = IF a >= b THEN a ELSE b
           /\ Min({a, b}) = IF a <= b THEN a ELSE b
<1>1. Max({a, b}) = IF a >= b THEN a ELSE b
  BY DEF Max
<1>2. Min({a, b}) = IF a <= b THEN a ELSE b
  BY DEF Min
<1> QED
  BY <1>1, <1>2

\* A set of finite sets that is not empty has a smallest member.
LEMMA SmallestSet ==
    ASSUME NEW C, C # {}, \A S \in C : IsFiniteSet(S)
    PROVE  \E S \in C : \A T \in C : Cardinality(S) <= Cardinality(T)
<1> DEFINE N == {Cardinality(S) : S \in C}
<1>1. N \subseteq Nat /\ N # {}
  BY FS_CardinalityType
<1>2. PICK m \in N : \A n \in N : m <= n
  BY <1>1, LeastMember
<1> QED
  BY <1>2

\* Taking out an element makes a set smaller.
LEMMA Smaller ==
    ASSUME NEW S, IsFiniteSet(S), NEW x \in S
    PROVE  /\ IsFiniteSet(S \ {x})
           /\ Cardinality(S) \in Nat /\ Cardinality(S \ {x}) \in Nat
           /\ Cardinality(S \ {x}) < Cardinality(S)
<1>1. /\ IsFiniteSet(S \ {x})
      /\ Cardinality(S \ {x}) = IF x \in S THEN Cardinality(S) - 1 ELSE Cardinality(S)
  BY FS_RemoveElement
<1>2. Cardinality(S) \in Nat /\ Cardinality(S \ {x}) \in Nat
  BY <1>1, FS_CardinalityType
<1> QED
  BY <1>1, <1>2

LEMMA OneMember ==
    ASSUME NEW S, S # {}
    PROVE  One(S) \in S
BY DEF One

\* Induction on a finite set: a set of subsets that has members, but not the empty
\* set, has one that is not in it any more when an element is taken out.
LEMMA Minimal ==
    ASSUME NEW S, IsFiniteSet(S), NEW C, C \subseteq SUBSET S, C # {}, {} \notin C
    PROVE  \E T \in C : /\ T # {} /\ T \subseteq S /\ IsFiniteSet(T) /\ One(T) \in T
                       /\ \A x \in T : T \ {x} \notin C /\ IsFiniteSet(T \ {x})
<1>1. \A T \in C : IsFiniteSet(T)
  BY FS_Subset
<1>2. PICK T \in C : \A U \in C : Cardinality(T) <= Cardinality(U)
  BY <1>1, SmallestSet
<1>3. T # {} /\ T \subseteq S /\ IsFiniteSet(T) /\ One(T) \in T
  BY <1>1, OneMember
<1>4. \A x \in T : T \ {x} \notin C /\ IsFiniteSet(T \ {x})
  BY <1>2, <1>3, Smaller
<1> QED
  BY <1>3, <1>4

LEMMA Unfold ==
    ASSUME NEW h, NEW f, NEW S, Sums(h, f, S), NEW s \in SUBSET S
    PROVE  h[s] = IF s = {} THEN 0 ELSE f[One(s)] + h[s \ {One(s)}]
BY DEF Sums

\* Two such functions agree.
LEMMA SumsAgree ==
    ASSUME NEW f, NEW S, NEW T, IsFiniteSet(T), T \subseteq S,
           NEW h, Sums(h, f, S), NEW k, Sums(k, f, T)
    PROVE  h[T] = k[T]
<1> DEFINE C == {s \in SUBSET T : h[s] # k[s]}
<1> SUFFICES ASSUME C # {} PROVE FALSE
  OBVIOUS
<1>1. PICK s \in C : \A t \in C : Cardinality(s) <= Cardinality(t)
  BY SmallestSet, FS_Subset
<1>2. s # {}
  BY Unfold
<1>3. /\ One(s) \in s /\ IsFiniteSet(s) /\ s \ {One(s)} \in SUBSET T
  BY <1>2, OneMember, FS_Subset
<1>4. s \ {One(s)} \notin C
  BY <1>1, <1>3, Smaller
<1>5. h[s \ {One(s)}] = k[s \ {One(s)}]
  BY <1>3, <1>4
<1> QED
  BY <1>1, <1>2, <1>5, Unfold

LEMMA SumOfSums ==
    ASSUME NEW f, NEW S
    PROVE  SumFunctionOnSet(f, S) = (CHOOSE h : Sums(h, f, S))[S]
BY DEF SumFunctionOnSet, FoldFunctionOnSet, MapThenFoldSet, Sums, One
\* The sum over a finite set is that of one element and the rest.
LEMMA SumDef ==
    ASSUME NEW f, NEW S, IsFiniteSet(S)
    PROVE  /\ Sums(CHOOSE h : Sums(h, f, S), f, S)
           /\ SumFunctionOnSet(f, S) =
                IF S = {} THEN 0 ELSE f[One(S)] + SumFunctionOnSet(f, S \ {One(S)})
<1> DEFINE H(T) == CHOOSE h : Sums(h, f, T)
           C == {T \in SUBSET S : ~ Sums(H(T), f, T)}
<1>1. ASSUME NEW T \in SUBSET S, T # {},
             \A U \in SUBSET T : U # T => Sums(H(U), f, U)
      PROVE  /\ Sums(H(T), f, T)
  <2> DEFINE Rest(s) == s \ {One(s)}
             g == [s \in SUBSET T |-> IF s = {} THEN 0
                                      ELSE f[One(s)] + H(Rest(s))[Rest(s)]]
  <2>1. ASSUME NEW s \in SUBSET T, s # {}
        PROVE  /\ One(s) \in s
               /\ Rest(s) \in SUBSET T /\ IsFiniteSet(Rest(s))
               /\ Rest(s) # T
    BY <2>1, OneMember, FS_Subset
  <2>2. ASSUME NEW s \in SUBSET T, s # {}
        PROVE  g[Rest(s)] = H(Rest(s))[Rest(s)]
    <3> DEFINE U == Rest(s)
               V == Rest(U)
    <3>1. U \in SUBSET T /\ IsFiniteSet(U) /\ Sums(H(U), f, U)
      BY <2>1, <2>2, <1>1
    <3> SUFFICES g[U] = H(U)[U]
      OBVIOUS
    <3> HIDE DEF U, H
    <3>2. CASE U = {}
      BY <3>1, <3>2, Unfold
    <3>3. CASE U # {}
      <4>1. V \in SUBSET U /\ IsFiniteSet(V) /\ V # T
        BY <3>1, <3>3, <2>1
      <4>2. Sums(H(V), f, V)
        BY <4>1, <3>1, <1>1
      <4>3. H(U)[V] = H(V)[V]
        BY <4>1, <4>2, <3>1, SumsAgree
      <4>4. H(U)[U] = f[One(U)] + H(U)[V]
        BY <3>1, <3>3, Unfold
      <4>5. g[U] = f[One(U)] + H(V)[V]
        BY <3>1, <3>3
      <4> QED
        BY <4>3, <4>4, <4>5
    <3> QED
      BY <3>2, <3>3
  <2>3. Sums(g, f, T)
    <3>1. g = [s \in SUBSET T |-> IF s = {} THEN 0 ELSE f[One(s)] + g[Rest(s)]]
      <4> HIDE DEF H
      <4> SUFFICES ASSUME NEW s \in SUBSET T
                   PROVE g[s] = IF s = {} THEN 0 ELSE f[One(s)] + g[Rest(s)]
        OBVIOUS
      <4> QED
        BY <2>2
    <3> QED
      BY <3>1 DEF Sums
  <2> QED
    BY <2>3
<1>2. ASSUME NEW T \in SUBSET S
      PROVE  Sums(H(T), f, T)
  <2> SUFFICES ASSUME C # {} PROVE FALSE
    OBVIOUS
  <2>1. \A U \in C : IsFiniteSet(U)
    BY FS_Subset
  <2>2. PICK U \in C : \A V \in C : Cardinality(U) <= Cardinality(V)
    <3> HIDE DEF C
    <3> QED
    BY <2>1, SmallestSet
  <2>3. U # {}
    <3>1. Sums([s \in SUBSET {} |-> 0], f, {})
      BY DEF Sums
    <3>2. Sums(H({}), f, {})
      BY <3>1
    <3> QED
      BY <3>2
  <2>4. ASSUME NEW V \in SUBSET U, V # U
        PROVE  Sums(H(V), f, V)
    <3>1. IsFiniteSet(U) /\ Cardinality(V) < Cardinality(U) /\ Cardinality(V) \in Nat /\ Cardinality(U) \in Nat
      BY <2>1, <2>4, FS_Subset, FS_CardinalityType
    <3> QED
      BY <3>1, <2>2
  <2> QED
    BY <1>1, <2>3, <2>4
<1>3. Sums(H(S), f, S)
  BY <1>2
<1>4. SumFunctionOnSet(f, S) = H(S)[S]
  BY SumOfSums
<1>5. CASE S = {}
  BY <1>3, <1>4, <1>5, Unfold
<1>6. CASE S # {}
  <2> DEFINE T == S \ {One(S)}
  <2>1. T \in SUBSET S /\ IsFiniteSet(T)
    BY FS_Subset
  <2>2. Sums(H(T), f, T)
    BY <1>2, <2>1
  <2> HIDE DEF T, H
  <2>3. H(S)[T] = H(T)[T]
    BY <1>3, <2>1, <2>2, SumsAgree
  <2>4. SumFunctionOnSet(f, T) = H(T)[T]
    BY SumOfSums DEF H
  <2>5. H(S)[S] = f[One(S)] + H(S)[T]
    BY <1>3, <1>6, Unfold DEF T
  <2> QED
    BY <1>3, <1>4, <1>6, <2>3, <2>4, <2>5 DEF H, T
<1> QED
  BY <1>3, <1>5, <1>6

LEMMA SumEmpty ==
    ASSUME NEW f
    PROVE  SumFunctionOnSet(f, {}) = 0
BY SumDef, FS_EmptySet

LEMMA SumStep ==
    ASSUME NEW f, NEW S, IsFiniteSet(S), S # {}
    PROVE  /\ One(S) \in S
           /\ SumFunctionOnSet(f, S) = f[One(S)] + SumFunctionOnSet(f, S \ {One(S)})
BY SumDef, OneMember

\* A sum of integers is an integer.
LEMMA SumInt ==
    ASSUME NEW f, NEW S, IsFiniteSet(S), \A x \in S : f[x] \in Int
    PROVE  SumFunctionOnSet(f, S) \in Int
<1> DEFINE C == {T \in SUBSET S : SumFunctionOnSet(f, T) \notin Int}
<1> SUFFICES ASSUME C # {} PROVE FALSE
  OBVIOUS
<1>1. C \subseteq SUBSET S /\ {} \notin C
  BY SumEmpty
<1>2. PICK T \in C : /\ T # {} /\ T \subseteq S /\ IsFiniteSet(T) /\ One(T) \in T
                     /\ \A x \in T : T \ {x} \notin C /\ IsFiniteSet(T \ {x})
  <2> HIDE DEF C
  <2> QED
    BY <1>1, Minimal
<1>3. T \ {One(T)} \notin C
  BY <1>2
<1> QED
  BY <1>2, <1>3, SumStep

\* A sum of natural numbers is one, and at least each of them.
LEMMA SumNat ==
    ASSUME NEW f, NEW S, IsFiniteSet(S), \A x \in S : f[x] \in Nat
    PROVE  SumFunctionOnSet(f, S) \in Nat
<1> DEFINE C == {T \in SUBSET S : SumFunctionOnSet(f, T) \notin Nat}
<1> SUFFICES ASSUME C # {} PROVE FALSE
  OBVIOUS
<1>1. C \subseteq SUBSET S /\ {} \notin C
  BY SumEmpty
<1>2. PICK T \in C : /\ T # {} /\ T \subseteq S /\ IsFiniteSet(T) /\ One(T) \in T
                     /\ \A x \in T : T \ {x} \notin C /\ IsFiniteSet(T \ {x})
  <2> HIDE DEF C
  <2> QED
    BY <1>1, Minimal
<1>3. T \ {One(T)} \notin C
  BY <1>2
<1> QED
  BY <1>2, <1>3, SumStep

\* Only the values on the set matter.
LEMMA SumSame ==
    ASSUME NEW f, NEW g, NEW S, IsFiniteSet(S), \A x \in S : f[x] = g[x]
    PROVE  SumFunctionOnSet(f, S) = SumFunctionOnSet(g, S)
<1> DEFINE C == {T \in SUBSET S : SumFunctionOnSet(f, T) # SumFunctionOnSet(g, T)}
<1> SUFFICES ASSUME C # {} PROVE FALSE
  OBVIOUS
<1>1. C \subseteq SUBSET S /\ {} \notin C
  BY SumEmpty
<1>2. PICK T \in C : /\ T # {} /\ T \subseteq S /\ IsFiniteSet(T) /\ One(T) \in T
                     /\ \A x \in T : T \ {x} \notin C /\ IsFiniteSet(T \ {x})
  <2> HIDE DEF C
  <2> QED
    BY <1>1, Minimal
<1>3. T \ {One(T)} \notin C
  BY <1>2
<1> QED
  BY <1>2, <1>3, SumStep

\* Any element may be taken out first.
LEMMA SumOut ==
    ASSUME NEW f, NEW S, IsFiniteSet(S), \A x \in S : f[x] \in Int, NEW x \in S
    PROVE  SumFunctionOnSet(f, S) = f[x] + SumFunctionOnSet(f, S \ {x})
<1> DEFINE C == {T \in SUBSET S : \E y \in T :
                    SumFunctionOnSet(f, T) # f[y] + SumFunctionOnSet(f, T \ {y})}
<1> SUFFICES ASSUME C # {} PROVE FALSE
  OBVIOUS
<1>1. PICK T \in C : /\ T # {} /\ T \subseteq S /\ IsFiniteSet(T) /\ One(T) \in T
                     /\ \A u \in T : T \ {u} \notin C /\ IsFiniteSet(T \ {u})
  <2>1. C \subseteq SUBSET S /\ {} \notin C
    OBVIOUS
  <2> HIDE DEF C
  <2> QED
    BY <2>1, Minimal
<1>2. PICK y \in T : SumFunctionOnSet(f, T) # f[y] + SumFunctionOnSet(f, T \ {y})
  BY <1>1
<1> DEFINE z == One(T)
           U == T \ {z}
           V == U \ {y}
<1>3. T # {} /\ IsFiniteSet(T) /\ z \in T
  BY <1>1
<1>4. SumFunctionOnSet(f, T) = f[z] + SumFunctionOnSet(f, U)
  BY <1>3, SumStep
<1>5. y # z /\ y \in U
  BY <1>2, <1>4
<1>6. U \notin C /\ U \in SUBSET S
  <2> HIDE DEF C
  <2> QED
    BY <1>1
<1>7. SumFunctionOnSet(f, U) = f[y] + SumFunctionOnSet(f, V)
  BY <1>5, <1>6
<1> DEFINE W == T \ {y}
<1>8. W \notin C /\ W \in SUBSET S /\ z \in W
  <2> HIDE DEF C
  <2> QED
    BY <1>1, <1>2, <1>5
<1>9. W \ {z} = V
  OBVIOUS
<1>10. SumFunctionOnSet(f, W) = f[z] + SumFunctionOnSet(f, W \ {z})
  BY <1>8
<1>11. SumFunctionOnSet(f, W) = f[z] + SumFunctionOnSet(f, V)
  BY <1>9, <1>10
<1>12. SumFunctionOnSet(f, V) \in Int
  <2>1. V \in SUBSET S /\ IsFiniteSet(V)
    BY FS_Subset
  <2> QED
    BY <2>1, SumInt
<1>13. f[y] \in Int /\ f[z] \in Int
  BY <1>3
<1> HIDE DEF C, U, V, W, z
<1>14. SumFunctionOnSet(f, T) # f[y] + SumFunctionOnSet(f, W)
  BY <1>2 DEF W
<1> QED
  BY <1>4, <1>7, <1>11, <1>12, <1>13, <1>14

\* Another element adds its value.
LEMMA SumAdd ==
    ASSUME NEW f, NEW S, IsFiniteSet(S), NEW x, x \notin S,
           \A y \in S \cup {x} : f[y] \in Int
    PROVE  SumFunctionOnSet(f, S \cup {x}) = f[x] + SumFunctionOnSet(f, S)
<1>1. IsFiniteSet(S \cup {x}) /\ (S \cup {x}) \ {x} = S
  BY FS_AddElement
<1> QED
  BY <1>1, SumOut

\* What a change of one value changes.
LEMMA SumBut ==
    ASSUME NEW f, NEW g, NEW S, IsFiniteSet(S), NEW x \in S,
           \A y \in S : f[y] \in Int /\ g[y] \in Int,
           \A y \in S \ {x} : f[y] = g[y]
    PROVE  SumFunctionOnSet(g, S) = SumFunctionOnSet(f, S) + (g[x] - f[x])
<1>1. IsFiniteSet(S \ {x})
  BY FS_Subset
<1>2. SumFunctionOnSet(f, S \ {x}) = SumFunctionOnSet(g, S \ {x})
  BY <1>1, SumSame
<1>3. SumFunctionOnSet(f, S \ {x}) \in Int
  BY <1>1, SumInt
<1>4. /\ SumFunctionOnSet(f, S) = f[x] + SumFunctionOnSet(f, S \ {x})
      /\ SumFunctionOnSet(g, S) = g[x] + SumFunctionOnSet(g, S \ {x})
  BY SumOut
<1> QED
  BY <1>2, <1>3, <1>4

\* The sum over a part of a set and the rest of it.
LEMMA SumSplit ==
    ASSUME NEW f, NEW S, IsFiniteSet(S), \A x \in S : f[x] \in Int, NEW T \in SUBSET S
    PROVE  /\ SumFunctionOnSet(f, T) \in Int /\ SumFunctionOnSet(f, S \ T) \in Int
           /\ SumFunctionOnSet(f, S) = SumFunctionOnSet(f, T) + SumFunctionOnSet(f, S \ T)
<1>1. ASSUME NEW U \in SUBSET S
      PROVE  IsFiniteSet(U) /\ SumFunctionOnSet(f, U) \in Int
  BY FS_Subset, SumInt
<1> DEFINE C == {U \in SUBSET S :
                    SumFunctionOnSet(f, S) # SumFunctionOnSet(f, U) + SumFunctionOnSet(f, S \ U)}
<1> SUFFICES ASSUME C # {} PROVE FALSE
  BY <1>1
<1>2. C \subseteq SUBSET S /\ {} \notin C
  <2>1. S \ {} = S /\ SumFunctionOnSet(f, {}) = 0 /\ SumFunctionOnSet(f, S) \in Int
    BY <1>1, SumEmpty
  <2> QED
    BY <2>1
<1>3. PICK U \in C : /\ U # {} /\ U \subseteq S /\ IsFiniteSet(U) /\ One(U) \in U
                     /\ \A u \in U : U \ {u} \notin C /\ IsFiniteSet(U \ {u})
  <2> HIDE DEF C
  <2> QED
    BY <1>2, Minimal
<1> DEFINE x == One(U)
           V == U \ {x}
<1>4. x \in U /\ IsFiniteSet(U)
  BY <1>3
<1>5. V \notin C /\ V \in SUBSET S
  <2> HIDE DEF C
  <2> QED
    BY <1>3
<1>6. SumFunctionOnSet(f, S) = SumFunctionOnSet(f, V) + SumFunctionOnSet(f, S \ V)
  BY <1>5
<1>7. SumFunctionOnSet(f, U) = f[x] + SumFunctionOnSet(f, V)
  BY <1>1, <1>4, SumOut
<1>8. SumFunctionOnSet(f, S \ V) = f[x] + SumFunctionOnSet(f, S \ U)
  <2>1. (S \ V) \ {x} = S \ U /\ x \in S \ V
    BY <1>4
  <2>2. IsFiniteSet(S \ V) /\ \A y \in S \ V : f[y] \in Int
    BY <1>1
  <2>3. SumFunctionOnSet(f, S \ V) = f[x] + SumFunctionOnSet(f, (S \ V) \ {x})
    BY <2>1, <2>2, SumOut
  <2> QED
    BY <2>1, <2>3
<1>9. /\ SumFunctionOnSet(f, V) \in Int /\ SumFunctionOnSet(f, S \ U) \in Int
      /\ f[x] \in Int
  BY <1>1, <1>4, <1>5
<1>10. SumFunctionOnSet(f, S) # SumFunctionOnSet(f, U) + SumFunctionOnSet(f, S \ U)
  BY <1>3
<1> HIDE DEF C, x, V
<1> QED
  BY <1>6, <1>7, <1>8, <1>9, <1>10

LEMMA SumUnion ==
    ASSUME NEW f, NEW S, IsFiniteSet(S), NEW T, IsFiniteSet(T), S \cap T = {},
           \A x \in S \cup T : f[x] \in Int
    PROVE  /\ SumFunctionOnSet(f, S) \in Int /\ SumFunctionOnSet(f, T) \in Int
           /\ SumFunctionOnSet(f, S \cup T) = SumFunctionOnSet(f, S) + SumFunctionOnSet(f, T)
<1>1. PICK U : U = S \cup T
  OBVIOUS
<1>2. IsFiniteSet(U)
  BY <1>1, FS_Union
<1>3. \A x \in U : f[x] \in Int
  BY <1>1
<1>4. S \in SUBSET U /\ U \ S = T
  BY <1>1
<1>5. /\ SumFunctionOnSet(f, S) \in Int /\ SumFunctionOnSet(f, U \ S) \in Int
      /\ SumFunctionOnSet(f, U) = SumFunctionOnSet(f, S) + SumFunctionOnSet(f, U \ S)
  BY <1>2, <1>3, <1>4, SumSplit
<1> QED
  BY <1>1, <1>4, <1>5

LEMMA SumPart ==
    ASSUME NEW f, NEW S, IsFiniteSet(S), \A x \in S : f[x] \in Nat, NEW T \in SUBSET S
    PROVE  /\ SumFunctionOnSet(f, T) \in Nat /\ SumFunctionOnSet(f, S) \in Nat
           /\ SumFunctionOnSet(f, T) <= SumFunctionOnSet(f, S)
<1>1. SumFunctionOnSet(f, T) \in Nat /\ SumFunctionOnSet(f, S \ T) \in Nat
  BY FS_Subset, SumNat
<1>2. SumFunctionOnSet(f, S) = SumFunctionOnSet(f, T) + SumFunctionOnSet(f, S \ T)
  BY SumSplit
<1> QED
  BY <1>1, <1>2

\* A sum of zeros is zero.
LEMMA SumZero ==
    ASSUME NEW f, NEW S, IsFiniteSet(S), \A x \in S : f[x] = 0
    PROVE  SumFunctionOnSet(f, S) = 0
<1> DEFINE C == {T \in SUBSET S : SumFunctionOnSet(f, T) # 0}
<1> SUFFICES ASSUME C # {} PROVE FALSE
  OBVIOUS
<1>1. C \subseteq SUBSET S /\ {} \notin C
  BY SumEmpty
<1>2. PICK T \in C : /\ T # {} /\ T \subseteq S /\ IsFiniteSet(T) /\ One(T) \in T
                     /\ \A x \in T : T \ {x} \notin C /\ IsFiniteSet(T \ {x})
  <2> HIDE DEF C
  <2> QED
    BY <1>1, Minimal
<1>3. T \ {One(T)} \notin C
  BY <1>2
<1> QED
  BY <1>2, <1>3, SumStep

\* Sums add up value by value.
LEMMA SumPlus ==
    ASSUME NEW f, NEW g, NEW h, NEW S, IsFiniteSet(S),
           \A x \in S : f[x] \in Int /\ g[x] \in Int /\ h[x] = f[x] + g[x]
    PROVE  SumFunctionOnSet(h, S) = SumFunctionOnSet(f, S) + SumFunctionOnSet(g, S)
<1> DEFINE C == {T \in SUBSET S : SumFunctionOnSet(h, T)
                                    # SumFunctionOnSet(f, T) + SumFunctionOnSet(g, T)}
<1> SUFFICES ASSUME C # {} PROVE FALSE
  OBVIOUS
<1>1. C \subseteq SUBSET S /\ {} \notin C
  BY SumEmpty
<1>2. PICK T \in C : /\ T # {} /\ T \subseteq S /\ IsFiniteSet(T) /\ One(T) \in T
                     /\ \A u \in T : T \ {u} \notin C /\ IsFiniteSet(T \ {u})
  <2> HIDE DEF C
  <2> QED
    BY <1>1, Minimal
<1> DEFINE x == One(T)
           U == T \ {x}
<1>3. x \in T /\ IsFiniteSet(U) /\ U \in SUBSET S
  BY <1>2
<1>4. U \notin C
  <2> HIDE DEF C
  <2> QED
    BY <1>2
<1>5. SumFunctionOnSet(h, U) = SumFunctionOnSet(f, U) + SumFunctionOnSet(g, U)
  BY <1>3, <1>4
<1>6. /\ SumFunctionOnSet(h, T) = h[x] + SumFunctionOnSet(h, U)
      /\ SumFunctionOnSet(f, T) = f[x] + SumFunctionOnSet(f, U)
      /\ SumFunctionOnSet(g, T) = g[x] + SumFunctionOnSet(g, U)
  BY <1>2, SumStep
<1>7. /\ SumFunctionOnSet(f, U) \in Int /\ SumFunctionOnSet(g, U) \in Int
  BY <1>3, SumInt
<1>8. f[x] \in Int /\ g[x] \in Int /\ h[x] = f[x] + g[x]
  BY <1>3
<1>9. SumFunctionOnSet(h, T) # SumFunctionOnSet(f, T) + SumFunctionOnSet(g, T)
  BY <1>2
<1> HIDE DEF C, x, U
<1> QED
  BY <1>5, <1>6, <1>7, <1>8, <1>9

\* A sum over S is one over T if each element of S has one of T to itself, and the
\* others of T are worth nothing.
LEMMA SumAlong ==
    ASSUME NEW f, NEW S, IsFiniteSet(S), NEW g, NEW T, IsFiniteSet(T),
           NEW k, \A x \in S : k[x] \in T,
           \A x, y \in S : k[x] = k[y] => x = y,
           \A y \in T : g[y] \in Int,
           \A x \in S : g[k[x]] = f[x],
           \A y \in T : (\A x \in S : k[x] # y) => g[y] = 0
    PROVE  SumFunctionOnSet(f, S) = SumFunctionOnSet(g, T)
<1> DEFINE Part(U) == [y \in T |-> IF \E x \in U : k[x] = y THEN g[y] ELSE 0]
           C == {U \in SUBSET S : SumFunctionOnSet(f, U) # SumFunctionOnSet(Part(U), T)}
<1>1. \A U : \A y \in T : Part(U)[y] \in Int
  OBVIOUS
<1>2. {} \notin C
  <2>1. \A y \in T : Part({})[y] = 0
    OBVIOUS
  <2>2. SumFunctionOnSet(Part({}), T) = 0
    <3> HIDE DEF Part
    <3> QED
      BY <2>1, SumZero
  <2> QED
    BY <2>2, SumEmpty
<1>3. SumFunctionOnSet(Part(S), T) = SumFunctionOnSet(g, T)
  <2>1. \A y \in T : Part(S)[y] = g[y]
    OBVIOUS
  <2> HIDE DEF Part
  <2> QED
    BY <2>1, SumSame
<1>4. C = {}
  <2> SUFFICES ASSUME C # {} PROVE FALSE
    OBVIOUS
  <2>1. C \subseteq SUBSET S
    OBVIOUS
  <2>2. PICK U \in C : /\ U # {} /\ U \subseteq S /\ IsFiniteSet(U) /\ One(U) \in U
                       /\ \A x \in U : U \ {x} \notin C /\ IsFiniteSet(U \ {x})
    <3> HIDE DEF C
    <3> QED
      BY <1>2, <2>1, Minimal
  <2>3. PICK x \in S : x = One(U) /\ x \in U
    BY <2>2
  <2>4. PICK V : V = U \ {x}
    OBVIOUS
  <2>5. V \notin C /\ V \in SUBSET S
    BY <2>2, <2>3, <2>4
  <2>6. SumFunctionOnSet(f, V) = SumFunctionOnSet(Part(V), T)
    BY <2>5
  <2>7. SumFunctionOnSet(f, U) = f[x] + SumFunctionOnSet(f, V)
    BY <2>2, <2>3, <2>4, SumStep
  <2>8. PICK z \in T : z = k[x] /\ g[z] = f[x]
    BY <2>3
  <2>9. Part(V)[z] = 0 /\ Part(U)[z] = f[x]
    BY <2>2, <2>3, <2>4, <2>8
  <2>10. \A y \in T \ {z} : Part(V)[y] = Part(U)[y]
    <3>1. ASSUME NEW y \in T \ {z}
          PROVE  (\E v \in U : k[v] = y) <=> (\E v \in V : k[v] = y)
      BY <2>4, <2>8
    <3> QED
      BY <3>1
  <2>11. SumFunctionOnSet(Part(V), T) \in Int
    <3> HIDE DEF Part
    <3> QED
      BY <1>1, SumInt
  <2>12. SumFunctionOnSet(Part(U), T) = SumFunctionOnSet(Part(V), T) + (Part(U)[z] - Part(V)[z])
    <3> HIDE DEF Part
    <3>1. \A y \in T : Part(V)[y] \in Int /\ Part(U)[y] \in Int
      BY <1>1
    <3> QED
      BY <2>10, <3>1, SumBut
  <2>13. f[x] \in Int
    BY <2>8
  <2>14. SumFunctionOnSet(f, U) # SumFunctionOnSet(Part(U), T)
    BY <2>2
  <2> HIDE DEF Part, C
  <2> QED
    BY <2>6, <2>7, <2>9, <2>11, <2>12, <2>13, <2>14
<1>5. SumFunctionOnSet(f, S) = SumFunctionOnSet(Part(S), T)
  BY <1>4
<1> QED
  BY <1>3, <1>5

\* A sum may be taken group by group.
LEMMA SumByKey ==
    ASSUME NEW f, NEW S, IsFiniteSet(S), \A x \in S : f[x] \in Int,
           NEW T, IsFiniteSet(T), NEW k, \A x \in S : k[x] \in T,
           NEW g, \A y \in T : g[y] = SumFunctionOnSet(f, {x \in S : k[x] = y})
    PROVE  SumFunctionOnSet(f, S) = SumFunctionOnSet(g, T)
<1> DEFINE Part(U) == {x \in S : k[x] \in U}
           C == {U \in SUBSET T : SumFunctionOnSet(f, Part(U))
                                    # SumFunctionOnSet(g, U)}
<1>1. C = {}
  <2> SUFFICES ASSUME C # {} PROVE FALSE
    OBVIOUS
  <2>1. C \subseteq SUBSET T /\ {} \notin C
    <3>1. Part({}) = {}
      OBVIOUS
    <3> QED
      BY <3>1, SumEmpty
  <2>2. PICK U \in C : /\ U # {} /\ U \subseteq T /\ IsFiniteSet(U) /\ One(U) \in U
                       /\ \A x \in U : U \ {x} \notin C /\ IsFiniteSet(U \ {x})
    <3> HIDE DEF C
    <3> QED
      BY <2>1, Minimal
  <2>3. PICK z \in T : z = One(U) /\ z \in U
    BY <2>2
  <2>4. PICK V : V = U \ {z}
    OBVIOUS
  <2>5. V \notin C /\ V \in SUBSET T
    BY <2>2, <2>3, <2>4
  <2>6. SumFunctionOnSet(f, Part(V)) = SumFunctionOnSet(g, V)
    BY <2>5
  <2>7. SumFunctionOnSet(g, U) = g[z] + SumFunctionOnSet(g, V)
    BY <2>2, <2>3, <2>4, SumStep
  <2>8. PICK Z : Z = {x \in S : k[x] = z}
    OBVIOUS
  <2>9. Part(U) = Z \cup Part(V) /\ Z \cap Part(V) = {}
    BY <2>3, <2>4, <2>8
  <2>10. Z \in SUBSET S /\ Part(V) \in SUBSET S
    BY <2>8
  <2>11. SumFunctionOnSet(f, Part(U)) # SumFunctionOnSet(g, U)
    BY <2>2
  <2> HIDE DEF Part, C
  <2>12. /\ IsFiniteSet(Z) /\ IsFiniteSet(Part(V))
         /\ \A x \in Z \cup Part(V) : f[x] \in Int
    BY <2>10, FS_Subset
  <2>13. SumFunctionOnSet(f, Z \cup Part(V))
           = SumFunctionOnSet(f, Z) + SumFunctionOnSet(f, Part(V))
    BY <2>9, <2>12, SumUnion
  <2> QED
    BY <2>3, <2>6, <2>7, <2>8, <2>9, <2>11, <2>13
<1>2. Part(T) = S
  OBVIOUS
<1>3. SumFunctionOnSet(f, Part(T)) = SumFunctionOnSet(g, T)
  BY <1>1
<1> QED
  BY <1>2, <1>3
=============================================================================
