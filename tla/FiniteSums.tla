----------------------------- MODULE FiniteSums -----------------------------
(***************************************************************************)
(* What the sum of a function's values over a finite set is, for the       *)
(* operator SumFunctionOnSet the models count bytes, coins, experience and *)
(* requests with.                                                          *)
(*                                                                         *)
(* Instead of an induction principle over a predicate, each induction here *)
(* looks at a smallest set for which the claim would fail.                 *)
(***************************************************************************)
EXTENDS Functions, FiniteSetTheorems, TLAPS

Chosen(s) == CHOOSE x \in s : TRUE

(* g is the table of partial sums of f over the subsets of S. *)
IsSumTable(f, g, S) ==
  g = [s \in SUBSET S |->
         IF s = {} THEN 0
         ELSE f[CHOOSE x \in s : TRUE] + g[s \ {CHOOSE x \in s : TRUE}]]

(* Any family of subsets of a finite set has a smallest member. *)
LEMMA SmallestSet ==
  ASSUME NEW S, IsFiniteSet(S), NEW U, U \subseteq SUBSET S, U # {}
  PROVE  \E s \in U : \A t \in U : t \subseteq s => t = s
<1>1. U \subseteq FiniteSubsetsOf(S)
  BY FS_FiniteSubsetsOfFinite
<1>2. PICK s \in U : \A t \in U : <<t, s>> \notin StrictSubsetOrdering(S)
  BY <1>1, FS_StrictSubsetOrderingWellFounded, WFMin
<1> QED
  BY <1>1, <1>2 DEF StrictSubsetOrdering

(* The operator takes the last entry of such a table. *)
LEMMA SumIsEntry ==
  ASSUME NEW f, NEW S
  PROVE  SumFunctionOnSet(f, S) = (CHOOSE g : IsSumTable(f, g, S))[S]
  BY DEF SumFunctionOnSet, FoldFunctionOnSet, MapThenFoldSet, IsSumTable

(* What a table says of one set. *)
LEMMA TableEntry ==
  ASSUME NEW f, NEW g, NEW S, IsSumTable(f, g, S), NEW s \in SUBSET S
  PROVE  /\ s = {} => g[s] = 0
         /\ s # {} => /\ Chosen(s) \in s
                      /\ g[s] = f[Chosen(s)] + g[s \ {Chosen(s)}]
  BY DEF IsSumTable, Chosen

(* Two tables of a function agree where both have an entry. *)
LEMMA TablesAgree ==
  ASSUME NEW f, NEW S, NEW T, IsFiniteSet(S), NEW g, NEW h,
         IsSumTable(f, g, S), IsSumTable(f, h, T),
         NEW s \in SUBSET S, s \in SUBSET T
  PROVE  g[s] = h[s]
<1> DEFINE U == {t \in SUBSET S : t \in SUBSET T /\ g[t] # h[t]}
<1> SUFFICES ASSUME U # {} PROVE FALSE
  OBVIOUS
<1>1. PICK t \in U : \A r \in U : r \subseteq t => r = t
  <2>1. U \subseteq SUBSET S
    OBVIOUS
  <2> HIDE DEF U
  <2> QED
    BY <2>1, SmallestSet
<1>2. t # {} /\ Chosen(t) \in t
  BY TableEntry
<1>3. t \ {Chosen(t)} \notin U
  BY <1>1, <1>2
<1>4. g[t \ {Chosen(t)}] = h[t \ {Chosen(t)}]
  BY <1>3
<1> QED
  BY <1>2, <1>4, TableEntry

(* Every function has a table over every finite set. *)
LEMMA TableExists ==
  ASSUME NEW f, NEW S, IsFiniteSet(S)
  PROVE  \E g : IsSumTable(f, g, S)
<1> DEFINE U == {s \in SUBSET S : ~\E g : IsSumTable(f, g, s)}
<1> SUFFICES ASSUME U # {} PROVE FALSE
  OBVIOUS
<1>1. PICK s \in U : \A t \in U : t \subseteq s => t = s
  <2>1. U \subseteq SUBSET S
    OBVIOUS
  <2> HIDE DEF U
  <2> QED
    BY <2>1, SmallestSet
<1>f. \A t \in SUBSET s : IsFiniteSet(t)
  BY FS_Subset
<1> DEFINE tab(t) == CHOOSE g : IsSumTable(f, g, t)
<1>2. \A t \in SUBSET s : t # s => IsSumTable(f, tab(t), t)
  BY <1>1
<1> DEFINE c == Chosen(s)
<1> DEFINE h == [t \in SUBSET s |->
                   IF t # s THEN tab(t)[t]
                   ELSE IF s = {} THEN 0 ELSE f[c] + tab(s \ {c})[s \ {c}]]
<1>3. ASSUME NEW t \in SUBSET s, t # {}
      PROVE  h[t] = f[Chosen(t)] + h[t \ {Chosen(t)}]
  <2>1. Chosen(t) \in t
    BY <1>3 DEF Chosen
  <2>2. t \ {Chosen(t)} \in SUBSET s /\ t \ {Chosen(t)} # s
    BY <2>1
  <2>3. h[t \ {Chosen(t)}] = tab(t \ {Chosen(t)})[t \ {Chosen(t)}]
    BY <2>2
  <2>4. CASE t = s
    BY <2>3, <2>4, <1>3
  <2>5. CASE t # s
    <3>1. IsSumTable(f, tab(t), t) /\ IsSumTable(f, tab(t \ {Chosen(t)}), t \ {Chosen(t)})
      BY <1>2, <2>2, <2>5
    <3>2. tab(t)[t] = f[Chosen(t)] + tab(t)[t \ {Chosen(t)}]
      BY <3>1, <1>3, TableEntry
    <3>3. tab(t)[t \ {Chosen(t)}] = tab(t \ {Chosen(t)})[t \ {Chosen(t)}]
      BY <3>1, <1>f, TablesAgree
    <3> QED
      BY <2>3, <2>5, <3>2, <3>3
  <2> QED
    BY <2>4, <2>5
<1>4. h[{}] = 0
  <2>1. CASE s = {}
    BY <2>1
  <2>2. CASE s # {}
    BY <2>2, <1>2, TableEntry
  <2> QED
    BY <2>1, <2>2
<1>5. h = [t \in SUBSET s |-> h[t]]
  OBVIOUS
<1> HIDE DEF h, c, tab
<1>6. \A t \in SUBSET s :
        h[t] = IF t = {} THEN 0
               ELSE f[CHOOSE x \in t : TRUE] + h[t \ {CHOOSE x \in t : TRUE}]
  BY <1>3, <1>4 DEF Chosen
<1>7. IsSumTable(f, h, s)
  BY <1>5, <1>6 DEF IsSumTable
<1> QED
  BY <1>1, <1>7

(* The recursion of the operator, whatever element it chooses. *)
LEMMA SumRecursion ==
  ASSUME NEW f, NEW S, IsFiniteSet(S)
  PROVE  /\ S = {} => SumFunctionOnSet(f, S) = 0
         /\ S # {} => /\ Chosen(S) \in S
                      /\ SumFunctionOnSet(f, S) =
                           f[Chosen(S)] + SumFunctionOnSet(f, S \ {Chosen(S)})
<1> DEFINE tab(t) == CHOOSE g : IsSumTable(f, g, t)
<1>1. \A t \in SUBSET S : IsSumTable(f, tab(t), t) /\ SumFunctionOnSet(f, t) = tab(t)[t]
  <2> TAKE t \in SUBSET S
  <2>1. \E g : IsSumTable(f, g, t)
    BY FS_Subset, TableExists
  <2>2. SumFunctionOnSet(f, t) = tab(t)[t]
    BY SumIsEntry
  <2> QED
    BY <2>1, <2>2
<1> HIDE DEF tab
<1>2. ASSUME S # {}
      PROVE  /\ Chosen(S) \in S
             /\ tab(S)[S] = f[Chosen(S)] + tab(S)[S \ {Chosen(S)}]
  BY <1>1, <1>2, TableEntry
<1>3. ASSUME S # {}
      PROVE  tab(S)[S \ {Chosen(S)}] = tab(S \ {Chosen(S)})[S \ {Chosen(S)}]
  <2> DEFINE T == S \ {Chosen(S)}
  <2>1. T \in SUBSET S
    OBVIOUS
  <2> HIDE DEF T
  <2>2. tab(S)[T] = tab(T)[T]
    BY <1>1, <2>1, TablesAgree
  <2> QED
    BY <2>2 DEF T
<1>4. S = {} => tab(S)[S] = 0
  BY <1>1, TableEntry
<1> QED
  BY <1>1, <1>2, <1>3, <1>4

(* Nothing adds up to 0. *)
LEMMA SumEmpty ==
  ASSUME NEW f
  PROVE  SumFunctionOnSet(f, {}) = 0
  BY SumRecursion, FS_EmptySet

-----------------------------------------------------------------------------
(* Sums of whole numbers.                                                  *)

(* A sum is a whole number, and not negative if no summand is. *)
LEMMA SumType ==
  ASSUME NEW f, NEW S, IsFiniteSet(S)
  PROVE  /\ (\A x \in S : f[x] \in Int) => SumFunctionOnSet(f, S) \in Int
         /\ (\A x \in S : f[x] \in Nat) => SumFunctionOnSet(f, S) \in Nat
<1>1. ASSUME NEW D \in {Int, Nat}, \A x \in S : f[x] \in D
      PROVE  SumFunctionOnSet(f, S) \in D
  <2> DEFINE U == {t \in SUBSET S : SumFunctionOnSet(f, t) \notin D}
  <2> SUFFICES ASSUME U # {} PROVE FALSE
    OBVIOUS
  <2>1. PICK t \in U : \A r \in U : r \subseteq t => r = t
    <3>1. U \subseteq SUBSET S
      OBVIOUS
    <3> HIDE DEF U
    <3> QED
      BY <3>1, SmallestSet
  <2>2. IsFiniteSet(t) /\ t \in SUBSET S
    BY FS_Subset
  <2>3. CASE t = {}
    BY <2>3, SumEmpty
  <2>4. CASE t # {}
    <3>1. Chosen(t) \in t /\ SumFunctionOnSet(f, t) =
            f[Chosen(t)] + SumFunctionOnSet(f, t \ {Chosen(t)})
      BY <2>2, <2>4, SumRecursion
    <3>2. SumFunctionOnSet(f, t \ {Chosen(t)}) \in D
      BY <2>1, <2>2, <3>1
    <3>3. f[Chosen(t)] \in D
      BY <1>1, <2>2, <3>1
    <3> QED
      BY <3>1, <3>2, <3>3
  <2> QED
    BY <2>3, <2>4
<1> QED
  BY <1>1

(* Any summand may be taken out first. *)
LEMMA SumRemove ==
  ASSUME NEW f, NEW S, IsFiniteSet(S), \A y \in S : f[y] \in Int, NEW x \in S
  PROVE  SumFunctionOnSet(f, S) = f[x] + SumFunctionOnSet(f, S \ {x})
<1> DEFINE Sum(t) == SumFunctionOnSet(f, t)
<1> DEFINE U == {t \in SUBSET S : \E y \in t : Sum(t) # f[y] + Sum(t \ {y})}
<1> SUFFICES ASSUME U # {} PROVE FALSE
  OBVIOUS
<1>1. PICK t \in U : \A r \in U : r \subseteq t => r = t
  <2>1. U \subseteq SUBSET S
    OBVIOUS
  <2> HIDE DEF U
  <2> QED
    BY <2>1, SmallestSet
<1>2. PICK y \in t : Sum(t) # f[y] + Sum(t \ {y})
  OBVIOUS
<1>3. t \in SUBSET S /\ \A r \in SUBSET S : IsFiniteSet(r) /\ Sum(r) \in Int
  BY FS_Subset, SumType
<1>4. PICK c \in t : Sum(t) = f[c] + Sum(t \ {c})
  BY <1>2, <1>3, SumRecursion
<1>5. c # y
  BY <1>2, <1>4
<1>6. t \ {c} \notin U /\ y \in t \ {c} /\ t \ {c} \in SUBSET S
  BY <1>1, <1>3, <1>4, <1>5
<1>7. Sum(t \ {c}) = f[y] + Sum((t \ {c}) \ {y})
  BY <1>6
<1>8. t \ {y} \notin U /\ c \in t \ {y} /\ t \ {y} \in SUBSET S
  BY <1>1, <1>2, <1>3, <1>5
<1>9. Sum(t \ {y}) = f[c] + Sum((t \ {y}) \ {c})
  BY <1>8
<1>10. (t \ {c}) \ {y} = (t \ {y}) \ {c} /\ (t \ {c}) \ {y} \in SUBSET S
  BY <1>3
<1>11. f[c] \in Int /\ f[y] \in Int
  BY <1>3
<1>12. Sum((t \ {c}) \ {y}) \in Int
  BY <1>3, <1>10
<1> HIDE DEF U, Sum
<1>13. Sum(t) = f[c] + (f[y] + Sum((t \ {c}) \ {y}))
  BY <1>4, <1>7
<1>14. Sum(t \ {y}) = f[c] + Sum((t \ {c}) \ {y})
  BY <1>9, <1>10
<1> QED
  BY <1>2, <1>11, <1>12, <1>13, <1>14

(* Functions that agree on a set have the same sum over it. *)
LEMMA SumSame ==
  ASSUME NEW f, NEW g, NEW S, IsFiniteSet(S), \A x \in S : f[x] = g[x]
  PROVE  SumFunctionOnSet(f, S) = SumFunctionOnSet(g, S)
<1> DEFINE U == {t \in SUBSET S : SumFunctionOnSet(f, t) # SumFunctionOnSet(g, t)}
<1> SUFFICES ASSUME U # {} PROVE FALSE
  OBVIOUS
<1>1. PICK t \in U : \A r \in U : r \subseteq t => r = t
  <2>1. U \subseteq SUBSET S
    OBVIOUS
  <2> HIDE DEF U
  <2> QED
    BY <2>1, SmallestSet
<1>2. IsFiniteSet(t) /\ t \in SUBSET S
  BY FS_Subset
<1>3. t # {}
  BY SumEmpty
<1>4. /\ Chosen(t) \in t
      /\ SumFunctionOnSet(f, t) = f[Chosen(t)] + SumFunctionOnSet(f, t \ {Chosen(t)})
      /\ SumFunctionOnSet(g, t) = g[Chosen(t)] + SumFunctionOnSet(g, t \ {Chosen(t)})
  BY <1>2, <1>3, SumRecursion
<1>5. SumFunctionOnSet(f, t \ {Chosen(t)}) = SumFunctionOnSet(g, t \ {Chosen(t)})
  BY <1>1, <1>2, <1>4
<1> QED
  BY <1>2, <1>4, <1>5

(* Summands that are 0 may be left out. *)
LEMMA SumPadded ==
  ASSUME NEW f, NEW g, NEW S, NEW T, IsFiniteSet(S), T \subseteq S,
         \A x \in T : f[x] \in Int /\ g[x] = f[x], \A x \in S \ T : g[x] = 0
  PROVE  SumFunctionOnSet(f, T) = SumFunctionOnSet(g, S)
<1> DEFINE U == {t \in SUBSET S : T \subseteq t /\ SumFunctionOnSet(f, T) # SumFunctionOnSet(g, t)}
<1> SUFFICES ASSUME U # {} PROVE FALSE
  OBVIOUS
<1>1. PICK t \in U : \A r \in U : r \subseteq t => r = t
  <2>1. U \subseteq SUBSET S
    OBVIOUS
  <2> HIDE DEF U
  <2> QED
    BY <2>1, SmallestSet
<1>2. IsFiniteSet(t) /\ t \in SUBSET S /\ IsFiniteSet(T)
  BY FS_Subset
<1>3. t # T
  BY <1>2, SumSame
<1>4. PICK c \in t : c \notin T
  BY <1>3
<1>5. SumFunctionOnSet(g, t) = g[c] + SumFunctionOnSet(g, t \ {c})
  <2>1. \A x \in t : g[x] \in Int
    BY <1>2
  <2> QED
    BY <1>2, <2>1, SumRemove
<1>6. t \ {c} \notin U /\ T \subseteq t \ {c} /\ t \ {c} \in SUBSET S
  BY <1>1, <1>2, <1>4
<1>7. SumFunctionOnSet(f, T) = SumFunctionOnSet(g, t \ {c})
  BY <1>6
<1>8. SumFunctionOnSet(f, T) \in Int /\ g[c] = 0
  BY <1>2, <1>4, SumType
<1> QED
  BY <1>5, <1>7, <1>8

(* Changing one summand changes the sum by as much. *)
LEMMA SumChanged ==
  ASSUME NEW f, NEW g, NEW S, IsFiniteSet(S), NEW x \in S,
         \A y \in S : f[y] \in Int, g[x] \in Int, \A y \in S \ {x} : g[y] = f[y]
  PROVE  SumFunctionOnSet(g, S) = SumFunctionOnSet(f, S) - f[x] + g[x]
<1>1. IsFiniteSet(S \ {x})
  BY FS_Subset
<1>2. /\ SumFunctionOnSet(f, S) = f[x] + SumFunctionOnSet(f, S \ {x})
      /\ SumFunctionOnSet(g, S) = g[x] + SumFunctionOnSet(g, S \ {x})
  BY SumRemove
<1>3. SumFunctionOnSet(g, S \ {x}) = SumFunctionOnSet(f, S \ {x})
  BY <1>1, SumSame
<1>4. SumFunctionOnSet(f, S \ {x}) \in Int
  BY <1>1, SumType
<1> QED
  BY <1>2, <1>3, <1>4

(* One summand grows: the sum grows by as much. *)
LEMMA SumMoved ==
  ASSUME NEW S, IsFiniteSet(S), NEW f, \A y \in S : f[y] \in Int, NEW x \in S, NEW d \in Int,
         NEW g, g[x] = f[x] + d, \A y \in S \ {x} : g[y] = f[y]
  PROVE  SumFunctionOnSet(g, S) = SumFunctionOnSet(f, S) + d
<1>1. SumFunctionOnSet(g, S) = SumFunctionOnSet(f, S) - f[x] + g[x]
  <2>1. g[x] \in Int
    OBVIOUS
  <2> QED
    BY <2>1, SumChanged
<1>2. SumFunctionOnSet(f, S) \in Int
  BY SumType
<1>3. g[x] = f[x] + d /\ f[x] \in Int
  OBVIOUS
<1> QED
  BY <1>1, <1>2, <1>3

(* Nothing but zeros adds up to 0. *)
LEMMA SumZero ==
  ASSUME NEW S, IsFiniteSet(S), NEW f, \A x \in S : f[x] = 0
  PROVE  SumFunctionOnSet(f, S) = 0
<1>1. SumFunctionOnSet(f, {}) = SumFunctionOnSet(f, S)
  BY SumPadded
<1> QED
  BY <1>1, SumEmpty

(* Larger summands make a larger sum. *)
LEMMA SumMonotonic ==
  ASSUME NEW f, NEW g, NEW S, IsFiniteSet(S),
         \A x \in S : f[x] \in Int /\ g[x] \in Int /\ f[x] <= g[x]
  PROVE  SumFunctionOnSet(f, S) <= SumFunctionOnSet(g, S)
<1> DEFINE U == {t \in SUBSET S : ~(SumFunctionOnSet(f, t) <= SumFunctionOnSet(g, t))}
<1> SUFFICES ASSUME U # {} PROVE FALSE
  OBVIOUS
<1>1. PICK t \in U : \A r \in U : r \subseteq t => r = t
  <2>1. U \subseteq SUBSET S
    OBVIOUS
  <2> HIDE DEF U
  <2> QED
    BY <2>1, SmallestSet
<1>2. IsFiniteSet(t) /\ t \in SUBSET S
  BY FS_Subset
<1>3. t # {}
  BY SumEmpty
<1>4. PICK c \in t : TRUE
  BY <1>3
<1>5. t \ {c} \in SUBSET S /\ IsFiniteSet(t \ {c})
  BY <1>2, FS_Subset
<1>6. /\ SumFunctionOnSet(f, t) = f[c] + SumFunctionOnSet(f, t \ {c})
      /\ SumFunctionOnSet(g, t) = g[c] + SumFunctionOnSet(g, t \ {c})
  BY <1>2, SumRemove
<1>7. SumFunctionOnSet(f, t \ {c}) <= SumFunctionOnSet(g, t \ {c})
  BY <1>1, <1>4, <1>5
<1>8. SumFunctionOnSet(f, t \ {c}) \in Int /\ SumFunctionOnSet(g, t \ {c}) \in Int
  BY <1>5, SumType
<1>9. f[c] \in Int /\ g[c] \in Int /\ f[c] <= g[c]
  BY <1>2
<1>10. SumFunctionOnSet(f, t) <= SumFunctionOnSet(g, t)
  BY <1>6, <1>7, <1>8, <1>9
<1> QED
  BY <1>10

(* A set may be summed up in two parts. *)
LEMMA SumParts ==
  ASSUME NEW f, NEW S, IsFiniteSet(S), \A x \in S : f[x] \in Int, NEW T, T \subseteq S
  PROVE  SumFunctionOnSet(f, S) = SumFunctionOnSet(f, T) + SumFunctionOnSet(f, S \ T)
<1> DEFINE Sum(t) == SumFunctionOnSet(f, t)
<1> DEFINE U == {t \in SUBSET S : Sum(t) # Sum(t \cap T) + Sum(t \ T)}
<1>1. U = {}
  <2> SUFFICES ASSUME U # {} PROVE FALSE
    OBVIOUS
  <2>1. PICK t \in U : \A r \in U : r \subseteq t => r = t
    <3>1. U \subseteq SUBSET S
      OBVIOUS
    <3> HIDE DEF U
    <3> QED
      BY <3>1, SmallestSet
  <2>2. \A r \in SUBSET S : IsFiniteSet(r) /\ Sum(r) \in Int
    BY FS_Subset, SumType
  <2>3. t \in SUBSET S /\ t # {}
    <3>1. Sum({}) = 0
      BY SumEmpty
    <3>2. t = {} => t \cap T = {} /\ t \ T = {}
      OBVIOUS
    <3> QED
      BY <3>1, <3>2
  <2>4. PICK c \in t : TRUE
    BY <2>3
  <2> DEFINE r == t \ {c}
  <2>5. r \in SUBSET S /\ r \notin U
    BY <2>1, <2>3, <2>4
  <2>6. Sum(r) = Sum(r \cap T) + Sum(r \ T)
    BY <2>5
  <2>7. Sum(t) = f[c] + Sum(r)
    <3>1. IsFiniteSet(t) /\ \A x \in t : f[x] \in Int
      BY <2>2, <2>3
    <3> QED
      BY <3>1, SumRemove
  <2>8. f[c] \in Int
    BY <2>3
  <2>9. Sum(t \cap T) + Sum(t \ T) = f[c] + (Sum(r \cap T) + Sum(r \ T))
    <3>1. /\ t \cap T \in SUBSET S /\ t \ T \in SUBSET S
          /\ r \cap T \in SUBSET S /\ r \ T \in SUBSET S
      BY <2>3
    <3>2. /\ Sum(t \cap T) \in Int /\ Sum(t \ T) \in Int
          /\ Sum(r \cap T) \in Int /\ Sum(r \ T) \in Int
      BY <2>2, <3>1
    <3>3. CASE c \in T
      <4>1. r \cap T = (t \cap T) \ {c} /\ r \ T = t \ T /\ c \in t \cap T
        BY <3>3
      <4>2. IsFiniteSet(t \cap T) /\ \A x \in t \cap T : f[x] \in Int
        BY <2>2, <3>1
      <4>3. Sum(t \cap T) = f[c] + Sum((t \cap T) \ {c})
        BY <4>1, <4>2, SumRemove
      <4>4. Sum((t \cap T) \ {c}) = Sum(r \cap T) /\ Sum(t \ T) = Sum(r \ T)
        BY <4>1
      <4> HIDE DEF r, Sum
      <4> QED
        BY <4>3, <4>4, <3>2, <2>8
    <3>4. CASE c \notin T
      <4>1. r \ T = (t \ T) \ {c} /\ r \cap T = t \cap T /\ c \in t \ T
        BY <3>4
      <4>2. IsFiniteSet(t \ T) /\ \A x \in t \ T : f[x] \in Int
        BY <2>2, <3>1
      <4>3. Sum(t \ T) = f[c] + Sum((t \ T) \ {c})
        BY <4>1, <4>2, SumRemove
      <4>4. Sum((t \ T) \ {c}) = Sum(r \ T) /\ Sum(t \cap T) = Sum(r \cap T)
        BY <4>1
      <4> HIDE DEF r, Sum
      <4> QED
        BY <4>3, <4>4, <3>2, <2>8
    <3> QED
      BY <3>3, <3>4
  <2>10. Sum(t) = Sum(t \cap T) + Sum(t \ T)
    BY <2>6, <2>7, <2>9
  <2> QED
    BY <2>10
<1>2. S \notin U /\ S \cap T = T
  BY <1>1
<1> QED
  BY <1>2

(* Part of a set adds up to no more than all of it, if no summand is negative. *)
LEMMA SumOfPart ==
  ASSUME NEW f, NEW S, IsFiniteSet(S), \A x \in S : f[x] \in Nat, NEW T, T \subseteq S
  PROVE  SumFunctionOnSet(f, T) <= SumFunctionOnSet(f, S)
<1>1. SumFunctionOnSet(f, S) = SumFunctionOnSet(f, T) + SumFunctionOnSet(f, S \ T)
  BY SumParts
<1>2. IsFiniteSet(T) /\ IsFiniteSet(S \ T)
  BY FS_Subset
<1>3. SumFunctionOnSet(f, T) \in Nat /\ SumFunctionOnSet(f, S \ T) \in Nat
  BY <1>2, SumType
<1> QED
  BY <1>1, <1>3

(* Renaming the summands, each to a name of its own, keeps the sum. *)
LEMMA SumRenamed ==
  ASSUME NEW S, IsFiniteSet(S), NEW f, \A x \in S : f[x] \in Int, NEW h,
         \A x, y \in S : h[x] = h[y] => x = y,
         NEW g, \A x \in S : g[h[x]] = f[x]
  PROVE  SumFunctionOnSet(g, {h[x] : x \in S}) = SumFunctionOnSet(f, S)
<1> DEFINE image(t) == {h[x] : x \in t}
<1> DEFINE U == {t \in SUBSET S : SumFunctionOnSet(g, image(t)) # SumFunctionOnSet(f, t)}
<1>1. U = {}
  <2> SUFFICES ASSUME U # {} PROVE FALSE
    OBVIOUS
  <2>1. PICK t \in U : \A r \in U : r \subseteq t => r = t
    <3>1. U \subseteq SUBSET S
      OBVIOUS
    <3> HIDE DEF U
    <3> QED
      BY <3>1, SmallestSet
  <2>2. IsFiniteSet(t) /\ t \in SUBSET S
    BY FS_Subset
  <2>3. t # {}
    <3>1. t = {} => image(t) = {}
      OBVIOUS
    <3> QED
      BY <3>1, SumEmpty
  <2>4. PICK c \in t : TRUE
    BY <2>3
  <2>5. t \ {c} \in SUBSET S /\ t \ {c} \notin U
    BY <2>1, <2>2, <2>4
  <2>6. SumFunctionOnSet(g, image(t \ {c})) = SumFunctionOnSet(f, t \ {c})
    BY <2>5
  <2>7. image(t \ {c}) = image(t) \ {h[c]} /\ h[c] \in image(t)
    BY <2>2
  <2>8. IsFiniteSet(image(t)) /\ \A y \in image(t) : g[y] \in Int
    <3>1. IsFiniteSet(image(t))
      <4>1. [x \in t |-> h[x]] \in Surjection(t, image(t))
        BY DEF Surjection
      <4> HIDE DEF image
      <4> QED
        BY <2>2, <4>1, FS_Surjection
    <3> QED
      BY <2>2, <3>1
  <2>9. SumFunctionOnSet(g, image(t)) =
          g[h[c]] + SumFunctionOnSet(g, image(t) \ {h[c]})
    <3> HIDE DEF image
    <3> QED
      BY <2>7, <2>8, SumRemove
  <2>10. SumFunctionOnSet(f, t) = f[c] + SumFunctionOnSet(f, t \ {c})
    BY <2>2, SumRemove
  <2>11. g[h[c]] = f[c]
    BY <2>2
  <2>12. SumFunctionOnSet(g, image(t)) = SumFunctionOnSet(f, t)
    BY <2>6, <2>7, <2>9, <2>10, <2>11
  <2> QED
    BY <2>12
<1>2. S \notin U
  BY <1>1
<1> QED
  BY <1>2
=============================================================================
