-------------------------------- MODULE Sums --------------------------------
(***************************************************************************)
(* Sums of a function over a finite set: what SumFunctionOnSet of the      *)
(* community modules is, whatever the order in which it takes the          *)
(* elements.  The sums of a cycle's orders (Held, Sellable, Cash, Release) *)
(* are such sums.  Induction is by a least counterexample: the natural     *)
(* numbers are well founded, so a set of them that is not empty has a      *)
(* least element.                                                          *)
(***************************************************************************)
EXTENDS FiniteSetsExt, FiniteSetTheorems, TLAPS

Less == {p \in Nat \X Nat : p[1] < p[2]}

(* A set of natural numbers that is not empty has a least one.             *)
LEMMA LeastNatural ==
  ASSUME NEW T \in SUBSET Nat, T # {} PROVE \E m \in T : \A n \in T : m <= n
<1>1. IsWellFoundedOn(Less, Nat)
  <2>1. Less = OpToRel(<, Nat)
    BY DEF OpToRel, Less
  <2> QED BY <2>1, NatLessThanWellFounded
<1>2. PICK m \in T : \A n \in T : ~(<<n, m>> \in Less)
  BY <1>1, WFMin
<1>3. \A n \in T : m <= n
  <2> TAKE n \in T
  <2>1. ~(n < m)
    BY <1>2 DEF Less
  <2> QED BY <2>1
<1> QED BY <1>3

-----------------------------------------------------------------------------
(* SumFunctionOnSet(g, S) applies to S the function that Folds defines on  *)
(* the subsets of S, which takes one element of a set and goes on with the *)
(* rest.                                                                   *)
Any(s) == CHOOSE x \in s : TRUE
Add(g, it, s) == IF s = {} THEN 0 ELSE g[Any(s)] + it[s \ {Any(s)}]
Iter(g, S) == CHOOSE it : it = [s \in SUBSET S |-> Add(g, it, s)]

(* What the sum is when the definitions of Folds are expanded.             *)
LEMMA SumIsIter == ASSUME NEW g, NEW S PROVE SumFunctionOnSet(g, S) = Iter(g, S)[S]
  BY DEF SumFunctionOnSet, FoldFunctionOnSet, MapThenFoldSet, Iter, Add, Any

(* Taking one element of a finite set leaves one less.                     *)
LEMMA Rest ==
  ASSUME NEW s, IsFiniteSet(s), s # {}
  PROVE  /\ Any(s) \in s /\ IsFiniteSet(s \ {Any(s)}) /\ Cardinality(s) \in Nat
         /\ Cardinality(s \ {Any(s)}) = Cardinality(s) - 1 /\ Cardinality(s \ {Any(s)}) \in Nat
<1>1. Any(s) \in s
  BY DEF Any
<1> QED BY <1>1, FS_RemoveElement, FS_CardinalityType

(* That function exists: it does on the sets of at most n elements, for    *)
(* every n.                                                                *)
Upto(S, n) == {s \in SUBSET S : Cardinality(s) <= n}

LEMMA IterExists ==
  ASSUME NEW g, NEW S, IsFiniteSet(S)
  PROVE  Iter(g, S) = [s \in SUBSET S |-> Add(g, Iter(g, S), s)]
<1> DEFINE Bad == {n \in Nat : ~ \E it : it = [s \in Upto(S, n) |-> Add(g, it, s)]}
<1>0. \A s \in SUBSET S : IsFiniteSet(s) /\ Cardinality(s) \in Nat /\ Cardinality(s) <= Cardinality(S)
  BY FS_Subset, FS_CardinalityType
<1>1. Bad = {}
  <2> SUFFICES ASSUME Bad # {} PROVE FALSE
    OBVIOUS
  <2>1. PICK n \in Bad : \A m \in Bad : n <= m
    <3> HIDE DEF Bad
    <3>1. Bad \in SUBSET Nat
      BY DEF Bad
    <3> QED BY <3>1, LeastNatural
  <2>2. n # 0
    <3> SUFFICES ASSUME n = 0 PROVE FALSE
      OBVIOUS
    <3> DEFINE it == [s \in Upto(S, 0) |-> 0]
    <3>1. \A s \in Upto(S, 0) : s = {}
      BY <1>0, FS_EmptySet DEF Upto
    <3>2. it = [s \in Upto(S, 0) |-> Add(g, it, s)]
      BY <3>1 DEF Add
    <3> QED BY <3>2, <2>1
  <2>3. n - 1 \in Nat /\ n - 1 \notin Bad
    BY <2>1, <2>2
  <2>4. PICK f : f = [s \in Upto(S, n - 1) |-> Add(g, f, s)]
    BY <2>3
  <2> DEFINE h == [s \in Upto(S, n) |-> Add(g, f, s)]
  <2>5. \A s \in Upto(S, n) : s # {} => /\ s \ {Any(s)} \in Upto(S, n - 1)
                                        /\ s \ {Any(s)} \in Upto(S, n)
    BY <1>0, Rest DEF Upto
  <2>6. \A u \in Upto(S, n - 1) \cap Upto(S, n) : h[u] = f[u]
    BY <2>4
  <2>7. \A s \in Upto(S, n) : Add(g, h, s) = Add(g, f, s)
    BY <2>5, <2>6 DEF Add
  <2>8. h = [s \in Upto(S, n) |-> Add(g, h, s)]
    BY <2>7
  <2> QED BY <2>1, <2>8
<1>2. Cardinality(S) \in Nat /\ Upto(S, Cardinality(S)) = SUBSET S
  BY <1>0 DEF Upto
<1>3. \E it : it = [s \in SUBSET S |-> Add(g, it, s)]
  <2>1. Cardinality(S) \notin Bad
    BY <1>1
  <2>2. \E it : it = [s \in Upto(S, Cardinality(S)) |-> Add(g, it, s)]
    BY <1>2, <2>1
  <2> QED BY <1>2, <2>2
<1> QED BY <1>3 DEF Iter

(* One step of the iteration.                                              *)
LEMMA IterAt ==
  ASSUME NEW g, NEW S, IsFiniteSet(S), NEW s \in SUBSET S
  PROVE  Iter(g, S)[s] = IF s = {} THEN 0 ELSE g[Any(s)] + Iter(g, S)[s \ {Any(s)}]
<1> DEFINE it == Iter(g, S)
<1>1. it = [t \in SUBSET S |-> Add(g, it, t)]
  BY IterExists
<1> HIDE DEF it
<1>2. it[s] = Add(g, it, s)
  BY <1>1
<1> QED BY <1>2 DEF Add, it

(* Two functions that agree on a set have the same sum of it, whatever     *)
(* larger set the iteration was made for.                                  *)
LEMMA IterAgrees ==
  ASSUME NEW g, NEW h, NEW S, IsFiniteSet(S), NEW T, IsFiniteSet(T), NEW s \in SUBSET (S \cap T),
         \A i \in s : g[i] = h[i]
  PROVE  Iter(g, S)[s] = Iter(h, T)[s]
<1> DEFINE Bad == {n \in Nat : \E u \in SUBSET s : Cardinality(u) = n /\ Iter(g, S)[u] # Iter(h, T)[u]}
<1>0. \A u \in SUBSET s : IsFiniteSet(u) /\ Cardinality(u) \in Nat
  BY FS_Subset, FS_CardinalityType
<1>1. Bad = {}
  <2> SUFFICES ASSUME Bad # {} PROVE FALSE
    OBVIOUS
  <2>1. PICK n \in Bad : \A m \in Bad : n <= m
    <3> HIDE DEF Bad
    <3>1. Bad \in SUBSET Nat
      BY DEF Bad
    <3> QED BY <3>1, LeastNatural
  <2>2. PICK u \in SUBSET s : Cardinality(u) = n /\ Iter(g, S)[u] # Iter(h, T)[u]
    BY <2>1
  <2>3. /\ Iter(g, S)[u] = IF u = {} THEN 0 ELSE g[Any(u)] + Iter(g, S)[u \ {Any(u)}]
        /\ Iter(h, T)[u] = IF u = {} THEN 0 ELSE h[Any(u)] + Iter(h, T)[u \ {Any(u)}]
    BY IterAt
  <2>4. u # {}
    BY <2>2, <2>3
  <2> DEFINE v == u \ {Any(u)}
  <2>5. Any(u) \in u /\ Cardinality(v) = n - 1 /\ n - 1 \in Nat
    BY <1>0, <2>2, <2>4, Rest
  <2>6. Iter(g, S)[v] = Iter(h, T)[v]
    BY <2>1, <2>5
  <2>7. g[Any(u)] = h[Any(u)]
    BY <2>5
  <2> QED BY <2>2, <2>3, <2>4, <2>6, <2>7
<1> QED BY <1>0, <1>1

(* The sum of a set depends on the function's values in it alone.          *)
LEMMA SumSame ==
  ASSUME NEW g, NEW h, NEW S, IsFiniteSet(S), \A i \in S : g[i] = h[i]
  PROVE  SumFunctionOnSet(g, S) = SumFunctionOnSet(h, S)
  BY IterAgrees, SumIsIter

(* The sum of nothing.                                                     *)
LEMMA SumEmpty == ASSUME NEW g PROVE SumFunctionOnSet(g, {}) = 0
  BY IterAt, SumIsIter, FS_EmptySet

(* The sum takes the chosen element first ...                              *)
LEMMA SumTakesAny ==
  ASSUME NEW g, NEW S, IsFiniteSet(S), S # {}
  PROVE  SumFunctionOnSet(g, S) = g[Any(S)] + SumFunctionOnSet(g, S \ {Any(S)})
<1> DEFINE R == S \ {Any(S)}
<1>1. IsFiniteSet(R)
  BY Rest
<1>2. Iter(g, S)[S] = g[Any(S)] + Iter(g, S)[R]
  BY IterAt
<1>3. Iter(g, S)[R] = Iter(g, R)[R]
  BY <1>1, IterAgrees
<1> QED BY <1>2, <1>3, SumIsIter

(* Of a family of finite sets that is not empty one has no smaller member. *)
LEMMA LeastSet ==
  ASSUME NEW S, IsFiniteSet(S), NEW F \in SUBSET SUBSET S, F # {}
  PROVE  \E s \in F : \A t \in F : t \subseteq s => t = s
<1>1. F \subseteq FiniteSubsetsOf(S)
  BY FS_FiniteSubsetsOfFinite
<1>2. PICK s \in F : \A t \in F : ~(<<t, s>> \in StrictSubsetOrdering(S))
  BY <1>1, FS_StrictSubsetOrderingWellFounded, WFMin
<1> QED BY <1>2 DEF StrictSubsetOrdering

(* A sum of integers is one.                                               *)
LEMMA SumType ==
  ASSUME NEW g, NEW S, IsFiniteSet(S), \A i \in S : g[i] \in Int
  PROVE  SumFunctionOnSet(g, S) \in Int
<1> DEFINE Bad == {s \in SUBSET S : SumFunctionOnSet(g, s) \notin Int}
<1>1. Bad = {}
  <2> SUFFICES ASSUME Bad # {} PROVE FALSE
    OBVIOUS
  <2>1. PICK s \in Bad : \A t \in Bad : t \subseteq s => t = s
    <3> HIDE DEF Bad
    <3>1. Bad \in SUBSET SUBSET S
      BY DEF Bad
    <3> QED BY <3>1, LeastSet
  <2>2. IsFiniteSet(s) /\ s # {}
    <3>1. SumFunctionOnSet(g, {}) = 0
      BY SumEmpty
    <3>2. s \in SUBSET S
      OBVIOUS
    <3>3. s # {}
      BY <3>1
    <3>4. IsFiniteSet(s)
      BY <3>2, FS_Subset
    <3> QED BY <3>2, <3>3, <3>4
  <2>3. SumFunctionOnSet(g, s) = g[Any(s)] + SumFunctionOnSet(g, s \ {Any(s)}) /\ Any(s) \in s
    BY <2>2, SumTakesAny, Rest
  <2>4. s \ {Any(s)} \notin Bad
    BY <2>1, <2>3
  <2> QED BY <2>3, <2>4
<1> QED BY <1>1

(* ... and could have taken any other.                                     *)
LEMMA SumTakes ==
  ASSUME NEW g, NEW S, IsFiniteSet(S), \A i \in S : g[i] \in Int, NEW x \in S
  PROVE  SumFunctionOnSet(g, S) = g[x] + SumFunctionOnSet(g, S \ {x})
<1> DEFINE Takes(s, y) == SumFunctionOnSet(g, s) = g[y] + SumFunctionOnSet(g, s \ {y})
           Bad == {s \in SUBSET S : \E y \in s : ~Takes(s, y)}
<1>1. Bad = {}
  <2> SUFFICES ASSUME Bad # {} PROVE FALSE
    OBVIOUS
  <2>1. PICK s \in Bad : \A t \in Bad : t \subseteq s => t = s
    <3> HIDE DEF Bad
    <3>1. Bad \in SUBSET SUBSET S
      BY DEF Bad
    <3> QED BY <3>1, LeastSet
  <2>2. PICK y \in s : ~Takes(s, y)
    BY <2>1
  <2>3. IsFiniteSet(s) /\ s \in SUBSET S
    BY FS_Subset
  <2> DEFINE a == Any(s)
             r == s \ {a, y}
  <2>4. a \in s /\ Takes(s, a)
    BY <2>2, <2>3, SumTakesAny, Rest
  <2>5. a # y
    BY <2>2, <2>4
  <2>6. Takes(s \ {a}, y) /\ Takes(s \ {y}, a)
    BY <2>1, <2>4, <2>5
  <2>7. /\ SumFunctionOnSet(g, s \ {a}) = g[y] + SumFunctionOnSet(g, r)
        /\ SumFunctionOnSet(g, s \ {y}) = g[a] + SumFunctionOnSet(g, r)
    <3>1. (s \ {a}) \ {y} = r /\ (s \ {y}) \ {a} = r
      OBVIOUS
    <3> HIDE DEF a, r
    <3> QED BY <2>6, <3>1
  <2>9. /\ SumFunctionOnSet(g, s) = g[a] + SumFunctionOnSet(g, s \ {a})
        /\ SumFunctionOnSet(g, s) # g[y] + SumFunctionOnSet(g, s \ {y})
    BY <2>2, <2>4
  <2>8. SumFunctionOnSet(g, r) \in Int /\ g[a] \in Int /\ g[y] \in Int
    <3>1. IsFiniteSet(r) /\ r \subseteq S
      BY <2>3, FS_Subset
    <3> QED BY <3>1, <2>4, SumType
  <2> HIDE DEF a, r
  <2> QED BY <2>7, <2>8, <2>9
<1> QED BY <1>1

(* One more element.                                                       *)
LEMMA SumAdds ==
  ASSUME NEW g, NEW S, IsFiniteSet(S), NEW x, x \notin S, \A i \in S \cup {x} : g[i] \in Int
  PROVE  SumFunctionOnSet(g, S \cup {x}) = g[x] + SumFunctionOnSet(g, S)
<1>1. IsFiniteSet(S \cup {x})
  BY FS_AddElement
<1>2. (S \cup {x}) \ {x} = S
  OBVIOUS
<1>3. SumFunctionOnSet(g, S \cup {x}) = g[x] + SumFunctionOnSet(g, (S \cup {x}) \ {x})
  BY <1>1, SumTakes
<1> QED BY <1>2, <1>3

(* One element of the function changes.                                    *)
LEMMA SumChanges ==
  ASSUME NEW g, NEW h, NEW S, IsFiniteSet(S), NEW x \in S,
         \A i \in S : g[i] \in Int, h[x] \in Int, \A i \in S \ {x} : h[i] = g[i]
  PROVE  SumFunctionOnSet(h, S) = SumFunctionOnSet(g, S) - g[x] + h[x]
<1>1. IsFiniteSet(S \ {x})
  BY FS_RemoveElement
<1>2. SumFunctionOnSet(g, S) = g[x] + SumFunctionOnSet(g, S \ {x})
  BY SumTakes
<1>3. SumFunctionOnSet(h, S) = h[x] + SumFunctionOnSet(h, S \ {x})
  BY SumTakes
<1>4. SumFunctionOnSet(h, S \ {x}) = SumFunctionOnSet(g, S \ {x})
  BY <1>1, SumSame
<1>5. SumFunctionOnSet(g, S \ {x}) \in Int
  BY <1>1, SumType
<1> QED BY <1>2, <1>3, <1>4, <1>5

(* A sum of smaller values is not larger.                                  *)
LEMMA SumAtMost ==
  ASSUME NEW g, NEW h, NEW S, IsFiniteSet(S),
         \A i \in S : g[i] \in Int /\ h[i] \in Int /\ g[i] <= h[i]
  PROVE  SumFunctionOnSet(g, S) <= SumFunctionOnSet(h, S)
<1> DEFINE Bad == {s \in SUBSET S : ~(SumFunctionOnSet(g, s) <= SumFunctionOnSet(h, s))}
<1>1. Bad = {}
  <2> SUFFICES ASSUME Bad # {} PROVE FALSE
    OBVIOUS
  <2>1. PICK s \in Bad : \A t \in Bad : t \subseteq s => t = s
    <3> HIDE DEF Bad
    <3>1. Bad \in SUBSET SUBSET S
      BY DEF Bad
    <3> QED BY <3>1, LeastSet
  <2>2. IsFiniteSet(s) /\ s # {} /\ s \in SUBSET S
    <3>1. SumFunctionOnSet(g, {}) = 0 /\ SumFunctionOnSet(h, {}) = 0
      BY SumEmpty
    <3>2. s \in SUBSET S
      OBVIOUS
    <3>3. s # {}
      BY <3>1
    <3>4. IsFiniteSet(s)
      BY <3>2, FS_Subset
    <3> QED BY <3>2, <3>3, <3>4
  <2>3. PICK x : x \in s
    BY <2>2
  <2>4. /\ SumFunctionOnSet(g, s) = g[x] + SumFunctionOnSet(g, s \ {x})
        /\ SumFunctionOnSet(h, s) = h[x] + SumFunctionOnSet(h, s \ {x})
    <3>1. SumFunctionOnSet(g, s) = g[x] + SumFunctionOnSet(g, s \ {x})
      BY <2>2, <2>3, SumTakes
    <3>2. SumFunctionOnSet(h, s) = h[x] + SumFunctionOnSet(h, s \ {x})
      BY <2>2, <2>3, SumTakes
    <3> QED BY <3>1, <3>2
  <2>5. s \ {x} \notin Bad
    BY <2>1, <2>3
  <2>6. SumFunctionOnSet(g, s \ {x}) \in Int /\ SumFunctionOnSet(h, s \ {x}) \in Int
    <3>1. IsFiniteSet(s \ {x})
      BY <2>2, FS_RemoveElement
    <3>2. SumFunctionOnSet(g, s \ {x}) \in Int
      BY <3>1, <2>2, SumType
    <3>3. SumFunctionOnSet(h, s \ {x}) \in Int
      BY <3>1, <2>2, SumType
    <3> QED BY <3>2, <3>3
  <2>7. g[x] \in Int /\ h[x] \in Int /\ g[x] <= h[x]
    BY <2>2, <2>3
  <2>8. SumFunctionOnSet(g, s \ {x}) <= SumFunctionOnSet(h, s \ {x})
    BY <2>5, <2>2
  <2>9. ~(SumFunctionOnSet(g, s) <= SumFunctionOnSet(h, s))
    BY <2>1
  <2> QED BY <2>4, <2>6, <2>7, <2>8, <2>9
<1> QED BY <1>1



(* A sum of what is not negative is not smaller on a larger set.           *)
LEMMA SumOfMore ==
  ASSUME NEW g, NEW S, IsFiniteSet(S), \A i \in S : g[i] \in Nat, NEW T \in SUBSET S
  PROVE  SumFunctionOnSet(g, T) <= SumFunctionOnSet(g, S)
<1> DEFINE Bad == {s \in SUBSET S : T \subseteq s /\ ~(SumFunctionOnSet(g, T) <= SumFunctionOnSet(g, s))}
<1>1. Bad = {}
  <2> SUFFICES ASSUME Bad # {} PROVE FALSE
    OBVIOUS
  <2>1. PICK s \in Bad : \A t \in Bad : t \subseteq s => t = s
    <3> HIDE DEF Bad
    <3>1. Bad \in SUBSET SUBSET S
      BY DEF Bad
    <3> QED BY <3>1, LeastSet
  <2>2. /\ s \in SUBSET S /\ T \subseteq s
        /\ ~(SumFunctionOnSet(g, T) <= SumFunctionOnSet(g, s))
    BY <2>1
  <2>3. IsFiniteSet(s) /\ IsFiniteSet(T)
    BY <2>2, FS_Subset
  <2>4. SumFunctionOnSet(g, T) \in Int
    BY <2>3, SumType
  <2>5. PICK x : x \in s \ T
    <3>1. s # T
      BY <2>2, <2>4
    <3> QED BY <2>2, <3>1
  <2>6. SumFunctionOnSet(g, s) = g[x] + SumFunctionOnSet(g, s \ {x})
    BY <2>2, <2>3, <2>5, SumTakes
  <2>7. SumFunctionOnSet(g, T) <= SumFunctionOnSet(g, s \ {x})
    BY <2>1, <2>2, <2>5
  <2>8. SumFunctionOnSet(g, s \ {x}) \in Int
    <3>1. IsFiniteSet(s \ {x})
      BY <2>3, FS_RemoveElement
    <3> QED BY <2>2, <3>1, SumType
  <2>9. g[x] \in Nat
    BY <2>2, <2>5
  <2> QED BY <2>2, <2>4, <2>6, <2>7, <2>8, <2>9
<1>2. T \in SUBSET S
  OBVIOUS
<1>3. ~(SumFunctionOnSet(g, T) <= SumFunctionOnSet(g, S)) => S \in Bad
  OBVIOUS
<1> QED BY <1>1, <1>3

(* A sum of natural numbers is one.                                        *)
LEMMA SumNotNegative ==
  ASSUME NEW g, NEW S, IsFiniteSet(S), \A i \in S : g[i] \in Nat
  PROVE  SumFunctionOnSet(g, S) \in Nat
<1>1. SumFunctionOnSet(g, {}) <= SumFunctionOnSet(g, S)
  BY SumOfMore
<1>2. SumFunctionOnSet(g, S) \in Int
  BY SumType
<1> QED BY <1>1, <1>2, SumEmpty

(* The sum of zeros.                                                       *)
LEMMA SumOfZeros ==
  ASSUME NEW g, NEW S, IsFiniteSet(S), \A i \in S : g[i] = 0
  PROVE  SumFunctionOnSet(g, S) = 0
<1> DEFINE Bad == {s \in SUBSET S : SumFunctionOnSet(g, s) # 0}
<1>1. Bad = {}
  <2> SUFFICES ASSUME Bad # {} PROVE FALSE
    OBVIOUS
  <2>1. PICK s \in Bad : \A t \in Bad : t \subseteq s => t = s
    <3> HIDE DEF Bad
    <3>1. Bad \in SUBSET SUBSET S
      BY DEF Bad
    <3> QED BY <3>1, LeastSet
  <2>2. PICK x \in s : TRUE
    BY <2>1, SumEmpty
  <2>3. IsFiniteSet(s) /\ \A i \in s : g[i] = 0
    BY <2>1, FS_Subset
  <2>4. SumFunctionOnSet(g, s) = g[x] + SumFunctionOnSet(g, s \ {x})
    BY <2>3, SumTakes
  <2>5. SumFunctionOnSet(g, s \ {x}) = 0
    BY <2>1, <2>2
  <2> QED BY <2>1, <2>2, <2>3, <2>4, <2>5
<1> QED BY <1>1
=============================================================================
