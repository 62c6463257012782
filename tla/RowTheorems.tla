----------------------------- MODULE RowTheorems -----------------------------
(***************************************************************************)
(* Facts about rows, which the proofs about the components rest on.        *)
(*                                                                         *)
(* SumFunctionOnSet is the sum over a finite set of rows that every figure *)
(* of the books is: what a party owes, what is paid of an invoice, the     *)
(* goods in orders.  The operator is a recursive function that takes the   *)
(* rows in an order of its own, so the facts say that the function exists  *)
(* and that the order does not matter.  KeepOnly takes the entries of a    *)
(* queue one by one.                                                       *)
(*                                                                         *)
(* Induction is over the finite subsets of a set and over the numbers, by  *)
(* taking a smallest one for which a claim fails (SmallestSubset,          *)
(* SmallestNumber).                                                        *)
(***************************************************************************)
EXTENDS Queues, FiniteSets, SequencesExt, FiniteSetTheorems, WellFoundedInduction, TLAPS

-----------------------------------------------------------------------------
(* Sums.                                                                   *)

(* The row a sum takes next, and what makes g the function of partial sums. *)
Taken(s) == CHOOSE x \in s : TRUE
AddsUp(f, S, g) ==
  g = [s \in SUBSET S |-> IF s = {} THEN 0 ELSE f[Taken(s)] + g[s \ {Taken(s)}]]

(* A non-empty set has a row to take. *)
LEMMA TakenIsIn == ASSUME NEW s, s # {} PROVE Taken(s) \in s
  BY DEF Taken

(* A set of subsets of a finite set has a smallest one: induction. *)
LEMMA SmallestSubset ==
  ASSUME NEW S, IsFiniteSet(S), NEW Bad \in SUBSET SUBSET S, Bad # {}
  PROVE  \E T \in Bad : \A U \in SUBSET T : U # T => U \notin Bad
<1>1. Bad \subseteq FiniteSubsetsOf(S)
  BY FS_Subset DEF FiniteSubsetsOf
<1>2. PICK T \in Bad : \A U \in Bad : <<U, T>> \notin StrictSubsetOrdering(S)
  BY <1>1, WFMin, FS_StrictSubsetOrderingWellFounded
<1> QED BY <1>2 DEF StrictSubsetOrdering

(* The sum is the last value of a function of partial sums. *)
LEMMA SumIsChosen ==
  ASSUME NEW f, NEW S
  PROVE  SumFunctionOnSet(f, S) = (CHOOSE g : AddsUp(f, S, g))[S]
  BY DEF SumFunctionOnSet, FoldFunctionOnSet, MapThenFoldSet, AddsUp, Taken

(* Partial sums are what they are, whatever set they were part of. *)
LEMMA PartialSumsAgree ==
  ASSUME NEW f, NEW S, IsFiniteSet(S), NEW T,
         NEW g, AddsUp(f, S, g), NEW h, AddsUp(f, T, h)
  PROVE  \A s \in SUBSET (S \cap T) : g[s] = h[s]
<1> DEFINE Bad == {s \in SUBSET (S \cap T) : g[s] # h[s]}
<1>1. SUFFICES ASSUME Bad # {} PROVE FALSE
  OBVIOUS
<1>2. IsFiniteSet(S \cap T)
  BY FS_Intersection
<1>3. PICK s \in Bad : \A U \in SUBSET s : U # s => U \notin Bad
  <2>1. Bad \in SUBSET SUBSET (S \cap T)
    OBVIOUS
  <2> HIDE DEF Bad
  <2> QED BY <1>1, <1>2, <2>1, SmallestSubset
<1>4. s # {}
  BY <1>3 DEF AddsUp
<1>5. g[s \ {Taken(s)}] = h[s \ {Taken(s)}]
  BY <1>3, <1>4, TakenIsIn
<1>6. g[s] = f[Taken(s)] + g[s \ {Taken(s)}] /\ h[s] = f[Taken(s)] + h[s \ {Taken(s)}]
  BY <1>3, <1>4 DEF AddsUp
<1> QED BY <1>3, <1>5, <1>6

(* There is a function of partial sums.  If a set were a smallest one       *)
(* without, the sums of its strict subsets would make one for it.            *)
LEMMA PartialSumsExist ==
  ASSUME NEW f, NEW S, IsFiniteSet(S)
  PROVE  \E g : AddsUp(f, S, g)
<1> DEFINE Bad == {T \in SUBSET S : \A g : ~ AddsUp(f, T, g)}
<1>1. SUFFICES ASSUME Bad # {} PROVE FALSE
  OBVIOUS
<1>2. PICK T \in Bad : \A U \in SUBSET T : U # T => U \notin Bad
  <2>1. Bad \in SUBSET SUBSET S
    OBVIOUS
  <2> HIDE DEF Bad
  <2> QED BY <1>1, <2>1, SmallestSubset
<1> DEFINE Of(U) == CHOOSE g : AddsUp(f, U, g)
           G == [s \in SUBSET T |-> IF s = {} THEN 0 ELSE f[Taken(s)] + Of(s \ {Taken(s)})[s \ {Taken(s)}]]
<1>3. \A U \in SUBSET T : U # T => AddsUp(f, U, Of(U)) /\ IsFiniteSet(U)
  BY <1>2, FS_Subset
<1> HIDE DEF Of
<1>4. ASSUME NEW U \in SUBSET T, U # T
      PROVE  G[U] = Of(U)[U]
  <2>1. CASE U = {}
    <3>1. Of({})[{}] = 0
      BY <1>3, <1>4, <2>1 DEF AddsUp
    <3> QED BY <2>1, <3>1
  <2>2. CASE U # {}
    <3> DEFINE V == U \ {Taken(U)}
    <3>1. V \in SUBSET T /\ V # T /\ V \subseteq U
      BY <1>4
    <3>2. Of(U)[V] = Of(V)[V]
      <4>1. V \in SUBSET (U \cap V)
        OBVIOUS
      <4> HIDE DEF V
      <4> QED BY <4>1, <3>1, <1>3, <1>4, PartialSumsAgree
    <3>3. Of(U)[U] = f[Taken(U)] + Of(U)[V]
      BY <1>3, <1>4, <2>2 DEF AddsUp
    <3> QED BY <2>2, <3>2, <3>3
  <2> QED BY <2>1, <2>2
<1>5. \A s \in SUBSET T : s # {} => G[s \ {Taken(s)}] = Of(s \ {Taken(s)})[s \ {Taken(s)}]
  BY <1>4, TakenIsIn
<1>6. AddsUp(f, T, G)
  BY <1>5 DEF AddsUp
<1> QED BY <1>2, <1>6

(* The sum of nothing. *)
THEOREM SumEmpty == ASSUME NEW f PROVE SumFunctionOnSet(f, {}) = 0
<1>1. PICK g : AddsUp(f, {}, g)
  BY PartialSumsExist, FS_EmptySet
<1>2. AddsUp(f, {}, CHOOSE h : AddsUp(f, {}, h))
  BY <1>1
<1> QED BY <1>2, SumIsChosen DEF AddsUp

(* The sum of something is the row it takes and the sum of the others. *)
LEMMA SumTakesOne ==
  ASSUME NEW f, NEW S, IsFiniteSet(S), S # {}
  PROVE  SumFunctionOnSet(f, S) = f[Taken(S)] + SumFunctionOnSet(f, S \ {Taken(S)})
<1> DEFINE Of(U) == CHOOSE g : AddsUp(f, U, g)
           V == S \ {Taken(S)}
<1>1. IsFiniteSet(V)
  BY FS_RemoveElement
<1>2. AddsUp(f, S, Of(S)) /\ AddsUp(f, V, Of(V))
  BY <1>1, PartialSumsExist
<1>3. SumFunctionOnSet(f, S) = Of(S)[S] /\ SumFunctionOnSet(f, V) = Of(V)[V]
  BY SumIsChosen
<1>4. V \in SUBSET (S \cap V)
  OBVIOUS
<1> HIDE DEF Of
<1>5. Of(S)[S] = f[Taken(S)] + Of(S)[V]
  BY <1>2 DEF AddsUp
<1> HIDE DEF V
<1>6. Of(S)[V] = Of(V)[V]
  BY <1>2, <1>4, PartialSumsAgree
<1> QED BY <1>3, <1>5, <1>6 DEF V

(* A sum of integers is one. *)
THEOREM SumIsInteger ==
  ASSUME NEW S, IsFiniteSet(S), NEW f, \A x \in S : f[x] \in Int
  PROVE  SumFunctionOnSet(f, S) \in Int
<1> DEFINE Bad == {T \in SUBSET S : SumFunctionOnSet(f, T) \notin Int}
<1>1. SUFFICES ASSUME Bad # {} PROVE FALSE
  OBVIOUS
<1>2. PICK T \in Bad : \A U \in SUBSET T : U # T => U \notin Bad
  <2>1. Bad \in SUBSET SUBSET S
    OBVIOUS
  <2> HIDE DEF Bad
  <2> QED BY <1>1, <2>1, SmallestSubset
<1>3. T # {}
  BY <1>2, SumEmpty
<1>4. SumFunctionOnSet(f, T \ {Taken(T)}) \in Int /\ f[Taken(T)] \in Int
  BY <1>2, <1>3, TakenIsIn
<1>5. IsFiniteSet(T)
  BY <1>2, FS_Subset
<1> QED BY <1>2, <1>3, <1>4, <1>5, SumTakesOne

(* The order does not matter: any row can be taken out of a sum.  A smallest *)
(* set where one could not takes another row first, and then that one.      *)
THEOREM SumWithout ==
  ASSUME NEW S, IsFiniteSet(S), NEW f, \A x \in S : f[x] \in Int, NEW x \in S
  PROVE  SumFunctionOnSet(f, S) = f[x] + SumFunctionOnSet(f, S \ {x})
<1> DEFINE Sum(T) == SumFunctionOnSet(f, T)
           Bad == {T \in SUBSET S : \E y \in T : Sum(T) # f[y] + Sum(T \ {y})}
<1>1. SUFFICES ASSUME Bad # {} PROVE FALSE
  OBVIOUS
<1>2. PICK T \in Bad : \A U \in SUBSET T : U # T => U \notin Bad
  <2>1. Bad \in SUBSET SUBSET S
    OBVIOUS
  <2> HIDE DEF Bad
  <2> QED BY <1>1, <2>1, SmallestSubset
<1>3. PICK y \in T : Sum(T) # f[y] + Sum(T \ {y})
  BY <1>2
<1> DEFINE z == Taken(T)
           W == T \ {y, z}
<1>4. z \in T /\ \A U \in SUBSET T : IsFiniteSet(U)
  BY <1>2, <1>3, TakenIsIn, FS_Subset
<1>5. Sum(T) = f[z] + Sum(T \ {z})
  BY <1>3, <1>4, SumTakesOne
<1>6. y # z
  BY <1>3, <1>5
<1>7. Sum(T \ {z}) = f[y] + Sum(W)
  <2>1. (T \ {z}) \ {y} = W /\ y \in T \ {z} /\ T \ {z} # T /\ T \ {z} \in SUBSET S
    BY <1>2, <1>4, <1>6
  <2> QED BY <1>2, <2>1
<1>8. Sum(T \ {y}) = f[z] + Sum(W)
  <2>1. (T \ {y}) \ {z} = W /\ z \in T \ {y} /\ T \ {y} # T /\ T \ {y} \in SUBSET S
    BY <1>2, <1>3, <1>4, <1>6
  <2> QED BY <1>2, <2>1
<1>9. Sum(W) \in Int /\ f[y] \in Int /\ f[z] \in Int
  BY <1>2, <1>4, SumIsInteger
<1> HIDE DEF Sum, W, z
<1> QED BY <1>3, <1>5, <1>7, <1>8, <1>9

(* Rows that say the same add up to the same. *)
THEOREM SumsAreEqual ==
  ASSUME NEW S, IsFiniteSet(S), NEW f, NEW g, \A x \in S : f[x] = g[x]
  PROVE  SumFunctionOnSet(f, S) = SumFunctionOnSet(g, S)
<1> DEFINE Bad == {T \in SUBSET S : SumFunctionOnSet(f, T) # SumFunctionOnSet(g, T)}
<1>1. SUFFICES ASSUME Bad # {} PROVE FALSE
  OBVIOUS
<1>2. PICK T \in Bad : \A U \in SUBSET T : U # T => U \notin Bad
  <2>1. Bad \in SUBSET SUBSET S
    OBVIOUS
  <2> HIDE DEF Bad
  <2> QED BY <1>1, <2>1, SmallestSubset
<1>3. T # {} /\ IsFiniteSet(T)
  BY <1>2, SumEmpty, FS_Subset
<1>4. f[Taken(T)] = g[Taken(T)] /\ T \ {Taken(T)} \notin Bad
  BY <1>2, <1>3, TakenIsIn
<1> QED BY <1>2, <1>3, <1>4, SumTakesOne

(* Natural numbers add up to one, and to no less than some of them. *)
THEOREM SumOfSome ==
  ASSUME NEW S, IsFiniteSet(S), NEW f, \A x \in S : f[x] \in Nat, NEW R \in SUBSET S
  PROVE  /\ SumFunctionOnSet(f, S) \in Nat
         /\ SumFunctionOnSet(f, R) \in Nat
         /\ SumFunctionOnSet(f, R) <= SumFunctionOnSet(f, S)
<1> DEFINE Sum(T) == SumFunctionOnSet(f, T)
           Bad == {T \in SUBSET S : \E U \in SUBSET T :
                     ~ (Sum(T) \in Nat /\ Sum(U) \in Nat /\ Sum(U) <= Sum(T))}
<1>1. SUFFICES ASSUME Bad # {} PROVE FALSE
  BY <1>1
<1>2. PICK T \in Bad : \A U \in SUBSET T : U # T => U \notin Bad
  <2>1. Bad \in SUBSET SUBSET S
    OBVIOUS
  <2> HIDE DEF Bad
  <2> QED BY <1>1, <2>1, SmallestSubset
<1>3. PICK U \in SUBSET T : ~ (Sum(T) \in Nat /\ Sum(U) \in Nat /\ Sum(U) <= Sum(T))
  BY <1>2
<1>4. T # {}
  BY <1>2, <1>3, SumEmpty
<1>5. PICK z \in T : U # T => z \notin U
  BY <1>3, <1>4
<1>6. Sum(T) = f[z] + Sum(T \ {z}) /\ f[z] \in Nat
  <2>1. IsFiniteSet(T) /\ \A x \in T : f[x] \in Int
    BY <1>2, FS_Subset
  <2>2. z \in S
    BY <1>2
  <2> QED BY <2>1, <2>2, SumWithout
<1>7. T \ {z} \notin Bad /\ T \ {z} \in SUBSET S
  BY <1>2
<1>8. Sum(T \ {z}) \in Nat
  BY <1>7
<1>9. U # T => Sum(U) \in Nat /\ Sum(U) <= Sum(T \ {z})
  BY <1>5, <1>7
<1> HIDE DEF Sum
<1> QED BY <1>3, <1>6, <1>8, <1>9

(* Two sums of different rows are one sum. *)
THEOREM SumOfBoth ==
  ASSUME NEW S, IsFiniteSet(S), NEW f, \A x \in S : f[x] \in Int, NEW R \in SUBSET S
  PROVE  SumFunctionOnSet(f, S) = SumFunctionOnSet(f, R) + SumFunctionOnSet(f, S \ R)
<1> DEFINE Sum(T) == SumFunctionOnSet(f, T)
           Bad == {T \in SUBSET R : Sum(T \cup (S \ R)) # Sum(T) + Sum(S \ R)}
<1>1. SUFFICES ASSUME Bad # {} PROVE FALSE
  <2>1. R \cup (S \ R) = S
    OBVIOUS
  <2> QED BY <1>1, <2>1
<1>2. PICK T \in Bad : \A U \in SUBSET T : U # T => U \notin Bad
  <2>1. Bad \in SUBSET SUBSET R /\ IsFiniteSet(R)
    BY FS_Subset
  <2> HIDE DEF Bad
  <2> QED BY <1>1, <2>1, SmallestSubset
<1>3. \A U \in SUBSET S : IsFiniteSet(U) /\ Sum(U) \in Int
  BY FS_Subset, SumIsInteger
<1>4. T # {}
  <2>1. T = {} => T \cup (S \ R) = S \ R
    OBVIOUS
  <2>2. Sum({}) = 0 /\ Sum(S \ R) \in Int
    BY <1>3, SumEmpty
  <2>3. Sum(T \cup (S \ R)) # Sum(T) + Sum(S \ R)
    BY <1>2
  <2> HIDE DEF Sum
  <2> QED BY <2>1, <2>2, <2>3
<1>5. PICK z \in T : TRUE
  BY <1>4
<1>6. Sum(T) = f[z] + Sum(T \ {z}) /\ f[z] \in Int
  BY <1>2, <1>3, SumWithout
<1>7. Sum(T \cup (S \ R)) = f[z] + Sum((T \ {z}) \cup (S \ R))
  <2>1. /\ (T \cup (S \ R)) \ {z} = (T \ {z}) \cup (S \ R)
        /\ z \in T \cup (S \ R) /\ T \cup (S \ R) \in SUBSET S
    BY <1>2
  <2> QED BY <1>3, <2>1, SumWithout
<1>8. Sum((T \ {z}) \cup (S \ R)) = Sum(T \ {z}) + Sum(S \ R)
  BY <1>2
<1>9. Sum(T \ {z}) \in Int /\ Sum(S \ R) \in Int
  BY <1>2, <1>3
<1> HIDE DEF Sum
<1> QED BY <1>2, <1>6, <1>7, <1>8, <1>9

(* Nothing adds up to nothing.                                              *)
THEOREM SumOfNothing ==
  ASSUME NEW S, IsFiniteSet(S), NEW f, \A x \in S : f[x] = 0
  PROVE  SumFunctionOnSet(f, S) = 0
<1> DEFINE Bad == {T \in SUBSET S : SumFunctionOnSet(f, T) # 0}
<1>1. SUFFICES ASSUME Bad # {} PROVE FALSE
  OBVIOUS
<1>2. PICK T \in Bad : \A U \in SUBSET T : U # T => U \notin Bad
  <2>1. Bad \in SUBSET SUBSET S
    OBVIOUS
  <2> HIDE DEF Bad
  <2> QED BY <1>1, <2>1, SmallestSubset
<1>3. T # {}
  BY SumEmpty
<1>4. PICK x \in T : TRUE
  BY <1>3
<1>5. IsFiniteSet(T) /\ \A y \in T : f[y] \in Int
  BY FS_Subset
<1>6. SumFunctionOnSet(f, T) = f[x] + SumFunctionOnSet(f, T \ {x})
  BY <1>5, SumWithout
<1>7. SumFunctionOnSet(f, T \ {x}) = 0
  BY <1>2, <1>4
<1>8. f[x] = 0
  BY <1>4
<1> QED BY <1>6, <1>7, <1>8

(* Sums of the same rows add up, and take off, row by row. *)
THEOREM SumsAddUp ==
  ASSUME NEW S, IsFiniteSet(S), NEW f, NEW g, NEW h,
         \A x \in S : f[x] \in Int /\ g[x] \in Int /\ h[x] = f[x] + g[x]
  PROVE  SumFunctionOnSet(h, S) = SumFunctionOnSet(f, S) + SumFunctionOnSet(g, S)
<1> DEFINE Sum(e, T) == SumFunctionOnSet(e, T)
           Bad == {T \in SUBSET S : Sum(h, T) # Sum(f, T) + Sum(g, T)}
<1> HIDE DEF Sum
<1>1. SUFFICES Bad = {}
  BY DEF Sum
<1>2. SUFFICES ASSUME NEW T \in Bad, \A U \in SUBSET T : U # T => U \notin Bad PROVE FALSE
  <2> SUFFICES ASSUME Bad # {} PROVE \E A \in Bad : \A B \in SUBSET A : B # A => B \notin Bad
    OBVIOUS
  <2>1. Bad \in SUBSET SUBSET S
    OBVIOUS
  <2> HIDE DEF Bad
  <2> QED
    BY <2>1, SmallestSubset
<1>3. IsFiniteSet(T) /\ T \in SUBSET S
  BY <1>2, FS_Subset
<1>4. T # {}
  BY <1>2, SumEmpty DEF Sum
<1>5. PICK x \in T : TRUE
  BY <1>4
<1>6. /\ Sum(f, T) = f[x] + Sum(f, T \ {x}) /\ Sum(g, T) = g[x] + Sum(g, T \ {x})
      /\ Sum(h, T) = h[x] + Sum(h, T \ {x})
  BY <1>3, SumWithout DEF Sum
<1>7. Sum(f, T \ {x}) \in Int /\ Sum(g, T \ {x}) \in Int
  BY <1>3, FS_Subset, SumIsInteger DEF Sum
<1>8. Sum(h, T \ {x}) = Sum(f, T \ {x}) + Sum(g, T \ {x})
  BY <1>2, <1>3
<1> QED
  BY <1>2, <1>3, <1>6, <1>7, <1>8

(* Sums of the same rows take off row by row. *)
THEOREM SumsTakeOff ==
  ASSUME NEW S, IsFiniteSet(S), NEW f, NEW g, NEW h,
         \A x \in S : f[x] \in Int /\ g[x] \in Int /\ h[x] = f[x] - g[x]
  PROVE  SumFunctionOnSet(h, S) = SumFunctionOnSet(f, S) - SumFunctionOnSet(g, S)
<1>1. \A x \in S : h[x] \in Int /\ f[x] = h[x] + g[x]
  OBVIOUS
<1>2. SumFunctionOnSet(f, S) = SumFunctionOnSet(h, S) + SumFunctionOnSet(g, S)
  BY <1>1, SumsAddUp
<1>3. SumFunctionOnSet(h, S) \in Int /\ SumFunctionOnSet(g, S) \in Int
  BY <1>1, SumIsInteger
<1> QED
  BY <1>2, <1>3

(* Rows that are nothing can be left out. *)
THEOREM SumOfTheRest ==
  ASSUME NEW S, IsFiniteSet(S), NEW R \in SUBSET S, NEW f, NEW g,
         \A x \in R : g[x] \in Int /\ f[x] = g[x],
         \A x \in S \ R : f[x] = 0
  PROVE  SumFunctionOnSet(f, S) = SumFunctionOnSet(g, R)
<1>1. \A x \in S : f[x] \in Int
  OBVIOUS
<1>2. IsFiniteSet(R) /\ IsFiniteSet(S \ R)
  BY FS_Subset
<1>3. SumFunctionOnSet(f, S) = SumFunctionOnSet(f, R) + SumFunctionOnSet(f, S \ R)
  BY <1>1, SumOfBoth
<1>4. SumFunctionOnSet(f, S \ R) = 0
  BY <1>2, SumOfNothing
<1>5. SumFunctionOnSet(f, R) = SumFunctionOnSet(g, R) /\ SumFunctionOnSet(f, R) \in Int
  BY <1>1, <1>2, SumsAreEqual, SumIsInteger
<1> QED
  BY <1>3, <1>4, <1>5

(* The rows of a key. *)
WithKey(S, key, y) == {x \in S : key[x] = y}

(* Rows can be added up key by key: the sums of the rows of each key add up *)
(* to the sum of all rows.                                                  *)
THEOREM SumByKey ==
  ASSUME NEW S, IsFiniteSet(S), NEW T, IsFiniteSet(T), NEW f, \A x \in S : f[x] \in Int,
         NEW key, \A x \in S : key[x] \in T,
         NEW g, \A y \in T : g[y] = SumFunctionOnSet(f, WithKey(S, key, y))
  PROVE  SumFunctionOnSet(g, T) = SumFunctionOnSet(f, S)
<1> DEFINE Sum(e, U) == SumFunctionOnSet(e, U)
           Of(U) == {x \in S : key[x] \in U}
           Bad == {U \in SUBSET T : Sum(g, U) # Sum(f, Of(U))}
<1>1. \A y \in T : g[y] \in Int
  <2> TAKE y \in T
  <2>1. IsFiniteSet(WithKey(S, key, y)) /\ \A x \in WithKey(S, key, y) : f[x] \in Int
    BY FS_Subset DEF WithKey
  <2> QED
    BY <2>1, SumIsInteger
<1>2. Of(T) = S
  OBVIOUS
<1>3. SUFFICES Bad = {}
  BY <1>2
<1>4. SUFFICES ASSUME NEW U \in Bad, \A V \in SUBSET U : V # U => V \notin Bad PROVE FALSE
  <2> SUFFICES ASSUME Bad # {} PROVE \E A \in Bad : \A B \in SUBSET A : B # A => B \notin Bad
    OBVIOUS
  <2>1. Bad \in SUBSET SUBSET T
    OBVIOUS
  <2> HIDE DEF Bad
  <2> QED
    BY <2>1, SmallestSubset
<1>5. IsFiniteSet(U) /\ U \in SUBSET T
  BY <1>4, FS_Subset
<1>6. U # {}
  <2>1. Of({}) = {}
    OBVIOUS
  <2> QED
    BY <1>4, <2>1, SumEmpty
<1>7. PICK y \in U : TRUE
  BY <1>6
<1> DEFINE V == U \ {y}
           W == WithKey(S, key, y)
<1>8. Sum(g, U) = g[y] + Sum(g, V)
  BY <1>1, <1>5, SumWithout
<1>9. W \in SUBSET Of(U) /\ Of(U) \ W = Of(V)
  BY <1>7 DEF WithKey
<1>10. IsFiniteSet(Of(U)) /\ \A x \in Of(U) : f[x] \in Int
  BY FS_Subset
<1>11. Sum(f, Of(U)) = Sum(f, W) + Sum(f, Of(V))
  <2>1. PICK all, w, rest : all = Of(U) /\ w = W /\ rest = Of(V)
    OBVIOUS
  <2>2. /\ IsFiniteSet(all) /\ (\A x \in all : f[x] \in Int) /\ w \in SUBSET all /\ all \ w = rest
    BY <1>9, <1>10, <2>1
  <2>3. SumFunctionOnSet(f, all) = SumFunctionOnSet(f, w) + SumFunctionOnSet(f, rest)
    BY <2>2, SumOfBoth
  <2> QED
    BY <2>1, <2>3
<1>12. g[y] = Sum(f, W) /\ Sum(g, V) = Sum(f, Of(V))
  BY <1>4, <1>5
<1> QED
  BY <1>4, <1>8, <1>11, <1>12

-----------------------------------------------------------------------------
(* Queues.                                                                 *)

(* Of numbers that have something in common one is the smallest. *)
LEMMA SmallestNumber ==
  ASSUME NEW T, T \subseteq Nat, T # {}
  PROVE  \E n \in T : \A m \in T : n <= m
<1>1. PICK n \in T : \A m \in T : ~ (<<m, n>> \in OpToRel(<, Nat))
  BY WFMin, NatLessThanWellFounded
<1>2. ASSUME NEW m \in T PROVE n <= m
  <2>1. <<m, n>> \in Nat \X Nat /\ ~ (<<m, n>> \in {ss \in Nat \X Nat : ss[1] < ss[2]})
    BY <1>1 DEF OpToRel
  <2>2. ~ (m < n)
    BY <2>1
  <2> QED
    BY <2>2
<1> QED
  BY <1>2

(* A finite set of rows makes a queue of them, each once. *)
LEMMA QueueOfRows ==
  ASSUME NEW S, IsFiniteSet(S)
  PROVE  SetToSeq(S) \in Seq(S) /\ IsInjective(SetToSeq(S))
<1>1. Cardinality(S) \in Nat /\ ExistsBijection(1 .. Cardinality(S), S)
  BY FS_CardinalityType
<1>2. \E f \in [1 .. Cardinality(S) -> S] : IsInjective(f)
  BY <1>1 DEF ExistsBijection, Bijection, Injection, Surjection, IsInjective
<1>3. SetToSeq(S) \in [1 .. Cardinality(S) -> S] /\ IsInjective(SetToSeq(S))
  BY <1>2 DEF SetToSeq
<1> QED
  BY <1>1, <1>3

(* kept holds what is kept of each beginning of the queue. *)
Keeps(kept, queue, R, N) ==
  kept = [n \in 0 .. N |-> IF n = 0 THEN <<>>
                           ELSE IF queue[n] \in R THEN Append(kept[n - 1], queue[n]) ELSE kept[n - 1]]

(* There is such a function: the shortest beginning without one would get it *)
(* from that of the beginning before.                                        *)
LEMMA KeepsExists ==
  ASSUME NEW queue, NEW R, NEW N \in Nat
  PROVE  \E kept : Keeps(kept, queue, R, N)
<1> DEFINE Bad == {n \in Nat : \A kept : ~ Keeps(kept, queue, R, n)}
<1>1. SUFFICES ASSUME Bad # {} PROVE FALSE
  OBVIOUS
<1>2. PICK n \in Bad : \A m \in Bad : n <= m
  <2>1. Bad \subseteq Nat
    OBVIOUS
  <2> HIDE DEF Bad
  <2> QED
    BY <1>1, <2>1, SmallestNumber
<1>3. n # 0
  <2>1. Keeps([m \in 0 .. 0 |-> <<>>], queue, R, 0)
    BY DEF Keeps
  <2> QED
    BY <1>2, <2>1
<1>4. n - 1 \in Nat /\ n - 1 \notin Bad
  BY <1>2, <1>3
<1>5. PICK before : Keeps(before, queue, R, n - 1)
  BY <1>4
<1> DEFINE last == IF queue[n] \in R THEN Append(before[n - 1], queue[n]) ELSE before[n - 1]
           kept == [m \in 0 .. n |-> IF m = n THEN last ELSE before[m]]
<1>6. \A m \in 0 .. n : m # 0 => m - 1 \in 0 .. n /\ m - 1 # n /\ kept[m - 1] = before[m - 1]
  BY <1>4
<1>7. \A m \in 0 .. n : m # n => m \in 0 .. n - 1
  BY <1>4
<1>8. \A m \in 0 .. n - 1 : before[m] = IF m = 0 THEN <<>>
                                        ELSE IF queue[m] \in R THEN Append(before[m - 1], queue[m])
                                        ELSE before[m - 1]
  BY <1>5 DEF Keeps
<1>9. \A m \in 0 .. n : kept[m] = IF m = 0 THEN <<>>
                                  ELSE IF queue[m] \in R THEN Append(kept[m - 1], queue[m])
                                  ELSE kept[m - 1]
  BY <1>3, <1>6, <1>7, <1>8
<1>10. kept = [m \in 0 .. n |-> kept[m]]
  OBVIOUS
<1> HIDE DEF kept
<1>11. Keeps(kept, queue, R, n)
  BY <1>9, <1>10 DEF Keeps
<1> QED
  BY <1>2, <1>11

(* What is kept of a queue of rows is one, of the rows that are in R; and if *)
(* the queue holds none twice, neither does what is kept.                    *)
LEMMA KeptIsQueue ==
  ASSUME NEW S, NEW queue \in Seq(S), IsInjective(queue), NEW R
  PROVE  /\ KeepOnly(queue, R) \in Seq(S)
         /\ IsInjective(KeepOnly(queue, R))
         /\ ToSet(KeepOnly(queue, R)) = ToSet(queue) \cap R
<1> DEFINE N == Len(queue)
           kept == CHOOSE f : Keeps(f, queue, R, N)
           Fine(n) == /\ kept[n] \in Seq(S) /\ IsInjective(kept[n])
                      /\ ToSet(kept[n]) = {queue[i] : i \in 1 .. n} \cap R
           Bad == {n \in 0 .. N : ~ Fine(n)}
<1>1. N \in Nat /\ queue \in [1 .. N -> S]
  OBVIOUS
<1>2. Keeps(kept, queue, R, N)
  BY <1>1, KeepsExists
<1>3. KeepOnly(queue, R) = kept[N]
  BY DEF KeepOnly, Keeps
<1> HIDE DEF N, kept
<1>4. \A n \in 0 .. N : kept[n] = IF n = 0 THEN <<>>
                                  ELSE IF queue[n] \in R THEN Append(kept[n - 1], queue[n])
                                  ELSE kept[n - 1]
  BY <1>1, <1>2 DEF Keeps
<1>5. Bad \subseteq 0 .. N /\ \A n \in 0 .. N : (n \in Bad) = ~ Fine(n)
  OBVIOUS
<1> HIDE DEF Bad
<1>8. Bad = {}
  <2>1. SUFFICES ASSUME Bad # {} PROVE FALSE
    OBVIOUS
  <2>2. PICK n \in Bad : \A m \in Bad : n <= m
    <3>1. Bad \subseteq Nat
      BY <1>1, <1>5
    <3> QED
      BY <2>1, <3>1, SmallestNumber
  <2>3. n # 0
    <3>1. kept[0] = <<>>
      BY <1>1, <1>4
    <3>2. IsInjective(<<>>) /\ ToSet(<<>>) = {} /\ {queue[i] : i \in 1 .. 0} = {}
      BY DEF IsInjective, ToSet
    <3>3. Fine(0)
      BY <3>1, <3>2
    <3> HIDE DEF Fine
    <3> QED
      BY <1>1, <1>5, <2>2, <3>3
  <2>4. n \in 1 .. N /\ n - 1 \in 0 .. N /\ n - 1 \notin Bad
    <3> HIDE DEF Fine
    <3> QED
      BY <1>1, <1>5, <2>2, <2>3
  <2>5. Fine(n - 1)
    <3> HIDE DEF Fine
    <3> QED
      BY <1>5, <2>4
  <2>6. {queue[i] : i \in 1 .. n} = {queue[i] : i \in 1 .. n - 1} \cup {queue[n]}
    <3>1. 1 .. n = (1 .. n - 1) \cup {n}
      BY <1>1, <2>4
    <3> QED
      BY <3>1
  <2>7. CASE queue[n] \notin R
    <3>1. kept[n] = kept[n - 1]
      BY <1>4, <2>4, <2>7
    <3>2. {queue[i] : i \in 1 .. n} \cap R = {queue[i] : i \in 1 .. n - 1} \cap R
      BY <2>6, <2>7
    <3>3. Fine(n)
      BY <2>5, <3>1, <3>2
    <3> HIDE DEF Fine
    <3> QED
      BY <1>5, <2>2, <3>3
  <2>8. CASE queue[n] \in R
    <3> DEFINE k == kept[n - 1]
    <3>1. kept[n] = Append(k, queue[n])
      <4>1. n \in 0 .. N /\ n # 0
        BY <1>1, <2>4
      <4> QED
        BY <1>4, <2>8, <4>1
    <3>2. k \in Seq(S) /\ IsInjective(k) /\ ToSet(k) = {queue[i] : i \in 1 .. n - 1} \cap R
      BY <2>5
    <3>3. queue[n] \in S /\ queue[n] \notin {queue[i] : i \in 1 .. n - 1}
      BY <1>1, <2>4 DEF IsInjective
    <3> HIDE DEF k
    <3>4. /\ Append(k, queue[n]) \in Seq(S) /\ Len(k) \in Nat
          /\ DOMAIN Append(k, queue[n]) = 1 .. Len(k) + 1 /\ DOMAIN k = 1 .. Len(k)
          /\ \A i \in 1 .. Len(k) : Append(k, queue[n])[i] = k[i]
          /\ Append(k, queue[n])[Len(k) + 1] = queue[n]
      BY <3>2, <3>3
    <3>5. \A i \in 1 .. Len(k) : k[i] \in {queue[j] : j \in 1 .. n - 1} \cap R
      BY <3>2, <3>4 DEF ToSet
    <3>6. \A i \in 1 .. Len(k) + 1 : i = Len(k) + 1 \/ i \in 1 .. Len(k)
      BY <3>4
    <3>7. IsInjective(Append(k, queue[n]))
      BY <3>2, <3>3, <3>4, <3>5, <3>6 DEF IsInjective
    <3>8. ToSet(Append(k, queue[n])) = {queue[i] : i \in 1 .. n} \cap R
      <4>1. ToSet(Append(k, queue[n])) = ToSet(k) \cup {queue[n]}
        BY <3>4, <3>6 DEF ToSet
      <4> QED
        BY <2>6, <2>8, <3>2, <4>1
    <3>9. Fine(n)
      BY <3>1, <3>4, <3>7, <3>8
    <3> HIDE DEF Fine
    <3> QED
      BY <1>5, <2>2, <3>9
  <2> QED
    BY <2>7, <2>8
<1>6. Fine(N)
  <2> HIDE DEF Fine
  <2> QED
    BY <1>1, <1>5, <1>8
<1>7. {queue[i] : i \in 1 .. N} = ToSet(queue)
  BY <1>1 DEF ToSet
<1> QED
  BY <1>3, <1>6, <1>7

(* Two queues of the same rows, each once, are as long as one another. *)
LEMMA SameRowsSameLength ==
  ASSUME NEW S, NEW queue \in Seq(S), NEW other \in Seq(S), IsInjective(queue), IsInjective(other),
         ToSet(queue) = ToSet(other)
  PROVE  Len(queue) = Len(other)
<1>1. ASSUME NEW q \in Seq(S), IsInjective(q) PROVE Cardinality(ToSet(q)) = Len(q)
  <2>1. q \in [1 .. Len(q) -> ToSet(q)] /\ Len(q) \in Nat
    BY DEF ToSet
  <2>2. q \in Bijection(1 .. Len(q), ToSet(q))
    <3>1. \A a, b \in 1 .. Len(q) : q[a] = q[b] => a = b
      BY <1>1, <2>1 DEF IsInjective
    <3>2. \A t \in ToSet(q) : \E a \in 1 .. Len(q) : q[a] = t
      BY <2>1 DEF ToSet
    <3>3. q \in Injection(1 .. Len(q), ToSet(q))
      BY <2>1, <3>1 DEF Injection, IsInjective
    <3>4. q \in Surjection(1 .. Len(q), ToSet(q))
      BY <2>1, <3>2 DEF Surjection
    <3> QED
      BY <3>3, <3>4 DEF Bijection
  <2> QED
    BY <2>1, <2>2, FS_CountingElements DEF ExistsBijection
<1> QED
  BY <1>1

-----------------------------------------------------------------------------
(* Rows in order.                                                          *)

(* R puts any two rows of S in order.                                       *)
Orders(R, S) ==
  /\ \A x, y \in S : x # y => <<x, y>> \in R \/ <<y, x>> \in R
  /\ \A x, y, z \in S : <<x, y>> \in R /\ <<y, z>> \in R => <<x, z>> \in R

(* e has the rows of S in a queue, each once. *)
Lists(e, N, S) == e \in [1 .. N -> S] /\ \A m, n \in 1 .. N : m # n => e[m] # e[n]

(* Of rows in order one is the last. *)
LEMMA LastRow ==
  ASSUME NEW S, IsFiniteSet(S), S # {}, NEW R, Orders(R, S)
  PROVE  \E x \in S : \A y \in S : y # x => <<y, x>> \in R
<1> DEFINE Ending(T, x) == x \in T /\ \A y \in T : y # x => <<y, x>> \in R
           Bad == {T \in SUBSET S : T # {} /\ \A x \in T : ~ Ending(T, x)}
<1>1. SUFFICES Bad = {}
  <2>1. S \notin Bad => \E x \in S : Ending(S, x)
    OBVIOUS
  <2> QED
    BY <2>1
<1>2. SUFFICES ASSUME NEW T \in Bad, \A U \in SUBSET T : U # T => U \notin Bad PROVE FALSE
  <2> SUFFICES ASSUME Bad # {} PROVE \E A \in Bad : \A B \in SUBSET A : B # A => B \notin Bad
    OBVIOUS
  <2>1. Bad \in SUBSET SUBSET S
    OBVIOUS
  <2> HIDE DEF Bad
  <2> QED
    BY <2>1, SmallestSubset
<1>3. T \in SUBSET S /\ T # {} /\ \A x \in T : ~ Ending(T, x)
  BY <1>2
<1>4. PICK a \in T : TRUE
  BY <1>3
<1>5. T \ {a} \in SUBSET T /\ T \ {a} # T
  BY <1>4
<1>6. T \ {a} \notin Bad /\ T \ {a} \in SUBSET S
  BY <1>2, <1>3, <1>5
<1>7. CASE T \ {a} = {}
  <2>1. Ending(T, a)
    BY <1>4, <1>7
  <2> QED
    BY <1>3, <2>1
<1>8. CASE T \ {a} # {}
  <2>1. PICK b \in T \ {a} : Ending(T \ {a}, b)
    BY <1>6, <1>8
  <2>2. a \in S /\ b \in S /\ a # b /\ \A y \in T : y \in S
    BY <1>3, <1>4, <2>1
  <2>3. CASE <<a, b>> \in R
    <3>1. Ending(T, b)
      BY <2>1, <2>3
    <3> QED
      BY <1>3, <3>1
  <2>4. CASE <<b, a>> \in R
    <3>1. \A y \in T : y # a => <<y, a>> \in R
      <4> SUFFICES ASSUME NEW y \in T, y # a, y # b PROVE <<y, a>> \in R
        BY <2>4
      <4>1. <<y, b>> \in R
        BY <2>1
      <4> QED
        BY <2>2, <2>4, <4>1 DEF Orders
    <3>2. Ending(T, a)
      BY <1>4, <3>1
    <3> QED
      BY <1>3, <1>4, <3>2
  <2> QED
    BY <2>2, <2>3, <2>4 DEF Orders
<1> QED
  BY <1>7, <1>8

(* Rows can be put in order: the last one goes behind the others. *)
LEMMA SortedRows ==
  ASSUME NEW S, IsFiniteSet(S), NEW R, Orders(R, S)
  PROVE  \E e : /\ Lists(e, Cardinality(S), S)
                /\ \A m, n \in 1 .. Cardinality(S) : m < n => <<e[m], e[n]>> \in R
<1> DEFINE Sorted(T, e, N) == Lists(e, N, T) /\ \A m, n \in 1 .. N : m < n => <<e[m], e[n]>> \in R
           Bad == {T \in SUBSET S : \A e : ~ Sorted(T, e, Cardinality(T))}
<1>1. SUFFICES Bad = {}
  <2>1. S \notin Bad => \E e : Sorted(S, e, Cardinality(S))
    OBVIOUS
  <2> QED
    BY <2>1
<1>2. SUFFICES ASSUME NEW T \in Bad, \A U \in SUBSET T : U # T => U \notin Bad PROVE FALSE
  <2> SUFFICES ASSUME Bad # {} PROVE \E A \in Bad : \A B \in SUBSET A : B # A => B \notin Bad
    OBVIOUS
  <2>1. Bad \in SUBSET SUBSET S
    OBVIOUS
  <2> HIDE DEF Bad
  <2> QED
    BY <2>1, SmallestSubset
<1>3. T \in SUBSET S /\ IsFiniteSet(T) /\ (\A e : ~ Sorted(T, e, Cardinality(T))) /\ Orders(R, T)
  BY <1>2, FS_Subset DEF Orders
<1>4. T # {}
  <2>1. Cardinality({}) = 0
    BY FS_EmptySet
  <2>2. Sorted({}, [n \in 1 .. 0 |-> n], 0)
    BY DEF Lists
  <2> QED
    BY <1>3, <2>1, <2>2
<1>5. PICK x \in T : \A y \in T : y # x => <<y, x>> \in R
  BY <1>3, <1>4, LastRow
<1>6. PICK U, N : U = T \ {x} /\ N = Cardinality(T \ {x})
  OBVIOUS
<1>7. U \in SUBSET T /\ U # T /\ U \in SUBSET S /\ U \notin Bad
  BY <1>2, <1>3, <1>5, <1>6
<1>8. N \in Nat /\ Cardinality(T) = N + 1
  <2>1. /\ IsFiniteSet(T \ {x})
        /\ Cardinality(T \ {x}) = IF x \in T THEN Cardinality(T) - 1 ELSE Cardinality(T)
    BY <1>3, FS_RemoveElement
  <2>2. Cardinality(T) \in Nat /\ Cardinality(T \ {x}) \in Nat
    BY <1>3, <2>1, FS_CardinalityType
  <2> QED
    BY <1>6, <2>1, <2>2
<1>9. PICK e : Sorted(U, e, N)
  BY <1>6, <1>7
<1> DEFINE f == [n \in 1 .. N + 1 |-> IF n = N + 1 THEN x ELSE e[n]]
<1>10. \A n \in 1 .. N + 1 : \/ n = N + 1 /\ f[n] = x
                             \/ n \in 1 .. N /\ n # N + 1 /\ f[n] = e[n] /\ e[n] \in T /\ e[n] # x
  <2>1. \A n \in 1 .. N : e[n] \in U
    BY <1>9 DEF Lists
  <2>2. \A n \in 1 .. N + 1 : n = N + 1 \/ (n \in 1 .. N /\ n # N + 1)
    <3>1. N \in Nat
      BY <1>8
    <3> HIDE DEF f
    <3> TAKE n \in 1 .. N + 1
    <3> QED
      BY <3>1
  <2> QED
    BY <1>6, <1>7, <2>1, <2>2
<1>11. f \in [1 .. N + 1 -> T]
  BY <1>5, <1>10
<1>12. \A m, n \in 1 .. N + 1 : m # n => f[m] # f[n]
  BY <1>9, <1>10 DEF Lists
<1>13. \A m, n \in 1 .. N + 1 : m < n => <<f[m], f[n]>> \in R
  <2> SUFFICES ASSUME NEW m \in 1 .. N + 1, NEW n \in 1 .. N + 1, m < n PROVE <<f[m], f[n]>> \in R
    OBVIOUS
  <2>1. m \in 1 .. N /\ m # N + 1
    BY <1>8
  <2>2. f[m] = e[m] /\ e[m] \in T /\ e[m] # x
    BY <1>10, <2>1
  <2>3. CASE n = N + 1
    BY <1>5, <1>10, <2>2, <2>3
  <2>4. CASE n \in 1 .. N
    <3>1. f[n] = e[n]
      BY <1>8, <1>10, <2>4
    <3> QED
      BY <1>9, <2>1, <2>2, <2>4, <3>1
  <2> QED
    BY <1>8, <2>3, <2>4
<1> HIDE DEF f
<1>14. Sorted(T, f, N + 1)
  BY <1>11, <1>12, <1>13 DEF Lists
<1> QED
  BY <1>3, <1>8, <1>14

(* A queue of as many rows as there are has them all. *)
LEMMA ListsAll ==
  ASSUME NEW S, IsFiniteSet(S), NEW e, Lists(e, Cardinality(S), S)
  PROVE  {e[n] : n \in 1 .. Cardinality(S)} = S
<1>1. PICK N, T : N = Cardinality(S) /\ T = {e[n] : n \in 1 .. Cardinality(S)}
  OBVIOUS
<1>2. N \in Nat
  BY <1>1, FS_CardinalityType
<1>3. e \in [1 .. N -> T] /\ T \in SUBSET S
  BY <1>1 DEF Lists
<1>4. e \in Bijection(1 .. N, T)
  <2>1. e \in Injection(1 .. N, T)
    BY <1>1, <1>3 DEF Injection, IsInjective, Lists
  <2>2. e \in Surjection(1 .. N, T)
    BY <1>1, <1>3 DEF Surjection
  <2> QED
    BY <2>1, <2>2 DEF Bijection
<1>5. IsFiniteSet(T) /\ Cardinality(T) = N
  <2>1. IsFiniteSet(T)
    BY <1>3, FS_Subset
  <2>2. ExistsBijection(1 .. N, T)
    BY <1>4 DEF ExistsBijection
  <2> QED
    BY <1>2, <2>1, <2>2, FS_CountingElements
<1> QED
  BY <1>1, <1>3, <1>5, FS_Subset

(* The first rows of a queue. *)
First(e, n) == {e[m] : m \in 1 .. n}

(* f is a balance that runs along the queue. *)
RunsAlong(f, base, delta, e, N) ==
  f = [n \in 0 .. N |-> IF n = 0 THEN base ELSE f[n - 1] + delta[e[n]]]
Balances(base, delta, e, N) == [n \in 0 .. N |-> base + SumFunctionOnSet(delta, First(e, n))]

(* A balance that runs along a queue has at each row added up the first ones. *)
LEMMA RunningBalance ==
  ASSUME NEW S, IsFiniteSet(S), NEW delta, \A x \in S : delta[x] \in Int, NEW base \in Int,
         NEW N \in Nat, NEW e, Lists(e, N, S)
  PROVE  /\ \A n \in 0 .. N : First(e, n) \in SUBSET S /\ SumFunctionOnSet(delta, First(e, n)) \in Int
         /\ RunsAlong(Balances(base, delta, e, N), base, delta, e, N)
         /\ \A f : RunsAlong(f, base, delta, e, N)
              => \A n \in 0 .. N : f[n] = base + SumFunctionOnSet(delta, First(e, n))
<1> DEFINE Sum(n) == SumFunctionOnSet(delta, First(e, n))
<1>1. \A n \in 0 .. N : First(e, n) \in SUBSET S /\ Sum(n) \in Int
  <2> SUFFICES ASSUME NEW n \in 0 .. N PROVE First(e, n) \in SUBSET S /\ Sum(n) \in Int
    OBVIOUS
  <2>1. First(e, n) \in SUBSET S
    BY DEF First, Lists
  <2>2. PICK T : T = First(e, n)
    OBVIOUS
  <2>3. IsFiniteSet(T) /\ \A x \in T : delta[x] \in Int
    BY <2>1, <2>2, FS_Subset
  <2>4. SumFunctionOnSet(delta, T) \in Int
    BY <2>3, SumIsInteger
  <2> QED
    BY <2>1, <2>2, <2>4
<1>2. Sum(0) = 0
  <2>1. First(e, 0) = {}
    BY DEF First
  <2> QED
    BY <2>1, SumEmpty
<1>3. \A n \in 1 .. N : Sum(n) = Sum(n - 1) + delta[e[n]] /\ delta[e[n]] \in Int
  <2> SUFFICES ASSUME NEW n \in 1 .. N PROVE Sum(n) = Sum(n - 1) + delta[e[n]] /\ delta[e[n]] \in Int
    OBVIOUS
  <2>1. PICK T, V : T = First(e, n) /\ V = First(e, n - 1)
    OBVIOUS
  <2>2. e[n] \in T /\ V = T \ {e[n]} /\ e[n] \in S
    <3>1. \A m \in 1 .. n : m \in 1 .. N
      OBVIOUS
    <3>2. \A m \in 1 .. n : m = n \/ m \in 1 .. n - 1
      OBVIOUS
    <3>3. \A m \in 1 .. n - 1 : m \in 1 .. n /\ m # n
      OBVIOUS
    <3>4. n \in 1 .. n
      OBVIOUS
    <3> QED
      BY <2>1, <3>1, <3>2, <3>3, <3>4 DEF First, Lists
  <2>3. IsFiniteSet(T) /\ \A x \in T : delta[x] \in Int
    BY <1>1, <2>1, FS_Subset
  <2>4. SumFunctionOnSet(delta, T) = delta[e[n]] + SumFunctionOnSet(delta, V)
    BY <2>2, <2>3, SumWithout
  <2>5. Sum(n) \in Int /\ Sum(n - 1) \in Int /\ delta[e[n]] \in Int
    BY <1>1, <2>2
  <2> QED
    BY <2>1, <2>4, <2>5
<1>4. RunsAlong(Balances(base, delta, e, N), base, delta, e, N)
  <2> DEFINE f == [n \in 0 .. N |-> base + Sum(n)]
  <2> HIDE DEF Sum
  <2>1. \A n \in 0 .. N : base + Sum(n) = IF n = 0 THEN base ELSE f[n - 1] + delta[e[n]]
    <3> SUFFICES ASSUME NEW n \in 0 .. N PROVE base + Sum(n) = IF n = 0 THEN base ELSE f[n - 1] + delta[e[n]]
      OBVIOUS
    <3>1. CASE n = 0
      BY <1>2, <3>1
    <3>2. CASE n # 0
      <4>1. n \in 1 .. N /\ n - 1 \in 0 .. N
        BY <3>2
      <4>2. f[n - 1] = base + Sum(n - 1)
        BY <4>1
      <4>3. Sum(n - 1) \in Int /\ Sum(n) = Sum(n - 1) + delta[e[n]] /\ delta[e[n]] \in Int
        BY <1>1, <1>3, <4>1
      <4> QED
        BY <3>2, <4>2, <4>3
    <3> QED
      BY <3>1, <3>2
  <2>2. f = [n \in 0 .. N |-> IF n = 0 THEN base ELSE f[n - 1] + delta[e[n]]]
    BY <2>1
  <2>3. f = Balances(base, delta, e, N)
    BY DEF Balances, Sum
  <2> HIDE DEF f
  <2> QED
    BY <2>2, <2>3 DEF RunsAlong
<1>5. ASSUME NEW f, RunsAlong(f, base, delta, e, N)
      PROVE  \A n \in 0 .. N : f[n] = base + Sum(n)
  <2> DEFINE Wrong == {n \in 0 .. N : f[n] # base + Sum(n)}
  <2>1. SUFFICES Wrong = {}
    OBVIOUS
  <2>2. SUFFICES ASSUME Wrong # {} PROVE FALSE
    OBVIOUS
  <2>3. PICK n \in Wrong : \A m \in Wrong : n <= m
    <3>1. Wrong \subseteq Nat
      OBVIOUS
    <3> HIDE DEF Wrong
    <3> QED
      BY <2>2, <3>1, SmallestNumber
  <2>4. \A m \in 0 .. N : f[m] = IF m = 0 THEN base ELSE f[m - 1] + delta[e[m]]
    BY <1>5 DEF RunsAlong
  <2>5. n # 0
    <3>1. f[0] = base
      BY <2>4
    <3> QED
      BY <1>2, <2>3, <3>1
  <2>6. n \in 1 .. N /\ n - 1 \in 0 .. N /\ n - 1 \notin Wrong
    BY <2>3, <2>5
  <2>7. f[n - 1] = base + Sum(n - 1) /\ f[n] = f[n - 1] + delta[e[n]]
    BY <2>4, <2>5, <2>6
  <2>8. Sum(n - 1) \in Int /\ Sum(n) = Sum(n - 1) + delta[e[n]] /\ delta[e[n]] \in Int
    BY <1>1, <1>3, <2>6
  <2>9. f[n] # base + Sum(n)
    BY <2>3
  <2> HIDE DEF Sum, Wrong
  <2> QED
    BY <2>7, <2>8, <2>9
<1> QED
  BY <1>1, <1>4, <1>5

=============================================================================
