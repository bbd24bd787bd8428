-------------------------------- MODULE Sums --------------------------------
(***************************************************************************)
(* Lemmas about SumFunctionOnSet, in which the totals of this project are  *)
(* written: quantities of counters, discounts, commissions.                *)
(*                                                                         *)
(* A sum is a fold, that is, a recursive function on the subsets of a set. *)
(* What it computes is proved by induction on those subsets, in a form     *)
(* that is of first order: the subsets of which a fact holds are a set     *)
(* (Good), and SetInduction, from the strict inclusion of finite sets      *)
(* being well founded, says that every subset is in it.                    *)
(***************************************************************************)
EXTENDS Integers, FiniteSets, Functions, FiniteSetTheorems, TLAPS

\* The element that a fold takes next.
Picked(s) == CHOOSE x \in s : TRUE

\* g gives each subset of S its sum.
Adds(g, fun, S) ==
  g = [s \in SUBSET S |-> IF s = {} THEN 0 ELSE fun[Picked(s)] + g[s \ {Picked(s)}]]

\* A sum is the value on the whole set of a function that adds up.
LEMMA SumIs ==
  ASSUME NEW fun, NEW S
  PROVE  SumFunctionOnSet(fun, S) = (CHOOSE g : Adds(g, fun, S))[S]
  BY Zenon DEF SumFunctionOnSet, FoldFunctionOnSet, MapThenFoldSet, Adds, Picked

\* What is picked from a set is in it.
LEMMA PickedIn ==
  ASSUME NEW s, s # {}
  PROVE  Picked(s) \in s
  BY Zenon DEF Picked

\* Of some subsets of a finite set one is least: none of them is strictly
\* within it.
LEMMA LeastSet ==
  ASSUME NEW S, IsFiniteSet(S), NEW Bad \in SUBSET SUBSET S, Bad # {}
  PROVE  \E s \in Bad : \A r \in Bad : r \subseteq s => r = s
<1>1. FiniteSubsetsOf(S) = SUBSET S
  BY FS_FiniteSubsetsOfFinite, Zenon
<1>2. IsWellFoundedOn(StrictSubsetOrdering(S), SUBSET S)
  BY <1>1, FS_StrictSubsetOrderingWellFounded, Zenon
<1>3. PICK s \in Bad : \A r \in Bad : <<r, s>> \notin StrictSubsetOrdering(S)
  BY <1>2, WFMin, Zenon
<1>4. ASSUME NEW r \in Bad, r \subseteq s
      PROVE  r = s
  BY <1>3, <1>4 DEF StrictSubsetOrdering
<1> QED BY <1>4

\* What a function that adds up says of one set.
LEMMA AddsAt ==
  ASSUME NEW g, NEW fun, NEW S, Adds(g, fun, S), NEW s \in SUBSET S
  PROVE  /\ s = {} => g[s] = 0
         /\ s # {} => g[s] = fun[Picked(s)] + g[s \ {Picked(s)}]
<1> DEFINE body == [r \in SUBSET S |-> IF r = {} THEN 0 ELSE fun[Picked(r)] + g[r \ {Picked(r)}]]
<1>1. g = body
  BY Zenon DEF Adds
<1>2. body[s] = IF s = {} THEN 0 ELSE fun[Picked(s)] + g[s \ {Picked(s)}]
  OBVIOUS
<1>3. g[s] = body[s]
  BY <1>1, Zenon
<1> HIDE DEF body
<1> QED BY <1>2, <1>3

\* What holds of a set whenever it holds of those strictly within it holds
\* of every subset of a finite set.
LEMMA SetInduction ==
  ASSUME NEW S, IsFiniteSet(S), NEW Good,
         \A T \in SUBSET S : (\A R \in SUBSET T : R # T => R \in Good) => T \in Good
  PROVE  \A T \in SUBSET S : T \in Good
<1> DEFINE Bad == (SUBSET S) \ Good
<1>1. Bad \in SUBSET SUBSET S
  OBVIOUS
<1>2. ASSUME Bad # {}
      PROVE  \E s \in Bad : \A r \in Bad : r \subseteq s => r = s
  <2> HIDE DEF Bad
  <2> QED BY <1>1, <1>2, LeastSet
<1>3. ASSUME NEW s \in Bad, \A r \in Bad : r \subseteq s => r = s
      PROVE  FALSE
  BY <1>3
<1>4. Bad = {}
  <2> HIDE DEF Bad
  <2> QED BY <1>2, <1>3, Zenon
<1> QED BY <1>4

\* Functions that add up agree, whatever set they were made for.
LEMMA OneWay ==
  ASSUME NEW fun, NEW S, IsFiniteSet(S), NEW R \in SUBSET S,
         NEW g, NEW h, Adds(g, fun, S), Adds(h, fun, R)
  PROVE  g[R] = h[R]
<1> DEFINE Good == {s \in SUBSET R : g[s] = h[s]}
<1>1. ASSUME NEW s \in SUBSET R, \A r \in SUBSET s : r # s => r \in Good
      PROVE  g[s] = h[s]
  <2>1. CASE s = {}
    BY <2>1, AddsAt
  <2>2. CASE s # {}
    <3>1. Picked(s) \in s
      BY <2>2, PickedIn
    <3>2. s \ {Picked(s)} \in Good
      BY <1>1, <3>1
    <3>3. g[s] = fun[Picked(s)] + g[s \ {Picked(s)}]
      BY <2>2, AddsAt
    <3>4. h[s] = fun[Picked(s)] + h[s \ {Picked(s)}]
      BY <2>2, AddsAt
    <3> QED BY <3>2, <3>3, <3>4
  <2> QED BY <2>1, <2>2
<1>2. \A s \in SUBSET R : (\A r \in SUBSET s : r # s => r \in Good) => s \in Good
  BY <1>1
<1>3. IsFiniteSet(R)
  BY FS_Subset
<1>4. R \in Good
  <2> HIDE DEF Good
  <2>1. \A T \in SUBSET R : T \in Good
    BY <1>2, <1>3, SetInduction, Zenon
  <2> QED BY <2>1
<1> QED BY <1>4

\* There is a function that adds up.
LEMMA SomeAdds ==
  ASSUME NEW fun, NEW S, IsFiniteSet(S)
  PROVE  \E g : Adds(g, fun, S)
<1> DEFINE Good == {s \in SUBSET S : \E g : Adds(g, fun, s)}
<1>1. ASSUME NEW s \in SUBSET S, \A r \in SUBSET s : r # s => r \in Good
      PROVE  \E g : Adds(g, fun, s)
  <2> DEFINE part(r) == CHOOSE g : Adds(g, fun, r)
             total == [r \in SUBSET s |->
               IF r = {} THEN 0 ELSE fun[Picked(r)] + part(r \ {Picked(r)})[r \ {Picked(r)}]]
  <2>1. \A r \in SUBSET s : r # s => \E g : Adds(g, fun, r)
    BY <1>1
  <2>2. \A r \in SUBSET s : r # s => Adds(part(r), fun, r)
    BY <2>1, Zenon
  <2> HIDE DEF part
  <2>3. ASSUME NEW r \in SUBSET s, r # {}
        PROVE  total[r \ {Picked(r)}] = part(r \ {Picked(r)})[r \ {Picked(r)}]
    <3>1. Picked(r) \in r
      BY <2>3, PickedIn
    <3> DEFINE q == r \ {Picked(r)}
    <3>2. q \in SUBSET s /\ q # s
      BY <3>1
    <3> HIDE DEF q
    <3>3. ASSUME q = {}
          PROVE  total[q] = part(q)[q]
      <4>1. total[q] = 0
        BY <3>2, <3>3
      <4>2. Adds(part(q), fun, q)
        BY <3>2, <2>2
      <4>3. part(q)[q] = 0
        BY <4>2, <3>3, AddsAt
      <4> QED BY <4>1, <4>3
    <3>4. ASSUME q # {}
          PROVE  total[q] = part(q)[q]
      <4> DEFINE p == q \ {Picked(q)}
      <4>1. Picked(q) \in q /\ p \in SUBSET q /\ p # s /\ p \in SUBSET s
        BY <3>2, <3>4, PickedIn
      <4>2. total[q] = fun[Picked(q)] + part(p)[p]
        BY <3>2, <3>4
      <4>3. Adds(part(q), fun, q) /\ Adds(part(p), fun, p)
        BY <2>2, <3>2, <4>1
      <4>4. part(q)[q] = fun[Picked(q)] + part(q)[p]
        BY <3>4, <4>3, AddsAt
      <4>5. IsFiniteSet(q)
        BY <3>2, FS_Subset
      <4> HIDE DEF p
      <4>6. part(q)[p] = part(p)[p]
        BY <4>1, <4>3, <4>5, OneWay
      <4> QED BY <4>2, <4>4, <4>6 DEF p
    <3> QED BY <3>3, <3>4 DEF q
  <2>4. Adds(total, fun, s)
    BY <2>3 DEF Adds
  <2> QED BY <2>4, Zenon
<1>2. \A s \in SUBSET S : (\A r \in SUBSET s : r # s => r \in Good) => s \in Good
  BY <1>1
<1>3. S \in Good
  <2> HIDE DEF Good
  <2>1. \A T \in SUBSET S : T \in Good
    BY <1>2, SetInduction, Zenon
  <2> QED BY <2>1
<1> QED BY <1>3

\* A sum is of none, or one element more than the sum of the rest.
LEMMA SumPicks ==
  ASSUME NEW fun, NEW S, IsFiniteSet(S)
  PROVE  /\ S = {} => SumFunctionOnSet(fun, S) = 0
         /\ S # {} => SumFunctionOnSet(fun, S) =
              fun[Picked(S)] + SumFunctionOnSet(fun, S \ {Picked(S)})
<1> DEFINE G(s) == CHOOSE g : Adds(g, fun, s)
           T == S \ {Picked(S)}
<1>1. IsFiniteSet(T) /\ T \in SUBSET S
  BY FS_Subset
<1>2. Adds(G(S), fun, S) /\ Adds(G(T), fun, T)
  <2> HIDE DEF T
  <2> QED BY <1>1, SomeAdds, Zenon
<1>3. SumFunctionOnSet(fun, S) = G(S)[S]
  BY SumIs
<1>4. SumFunctionOnSet(fun, T) = G(T)[T]
  BY SumIs
<1> HIDE DEF G
<1>5. G(S)[T] = G(T)[T]
  <2> HIDE DEF T
  <2> QED BY <1>1, <1>2, OneWay
<1>6. /\ S = {} => G(S)[S] = 0
      /\ S # {} => G(S)[S] = fun[Picked(S)] + G(S)[T]
  BY <1>2, AddsAt
<1> QED BY <1>3, <1>4, <1>5, <1>6

\* The sum over no elements.
LEMMA SumOfNone ==
  ASSUME NEW fun
  PROVE  SumFunctionOnSet(fun, {}) = 0
  BY SumPicks, FS_EmptySet, Zenon

\* A sum of integers is an integer.
LEMMA SumInt ==
  ASSUME NEW fun, NEW S, IsFiniteSet(S), \A x \in S : fun[x] \in Int
  PROVE  SumFunctionOnSet(fun, S) \in Int
<1> DEFINE Good == {s \in SUBSET S : SumFunctionOnSet(fun, s) \in Int}
<1>1. ASSUME NEW s \in SUBSET S, \A r \in SUBSET s : r # s => r \in Good
      PROVE  SumFunctionOnSet(fun, s) \in Int
  <2>1. IsFiniteSet(s)
    BY FS_Subset
  <2>2. CASE s = {}
    BY <2>2, SumOfNone
  <2>3. CASE s # {}
    <3>1. Picked(s) \in s
      BY <2>3, PickedIn
    <3>2. s \ {Picked(s)} \in Good
      BY <1>1, <3>1
    <3>3. SumFunctionOnSet(fun, s) = fun[Picked(s)] + SumFunctionOnSet(fun, s \ {Picked(s)})
      BY <2>1, <2>3, SumPicks, Zenon
    <3> QED BY <3>1, <3>2, <3>3
  <2> QED BY <2>2, <2>3
<1>2. \A s \in SUBSET S : (\A r \in SUBSET s : r # s => r \in Good) => s \in Good
  BY <1>1
<1>3. S \in Good
  <2> HIDE DEF Good
  <2>1. \A T \in SUBSET S : T \in Good
    BY <1>2, SetInduction, Zenon
  <2> QED BY <2>1
<1> QED BY <1>3

\* Any element may be the first.
LEMMA SumStep ==
  ASSUME NEW fun, NEW S, IsFiniteSet(S), \A x \in S : fun[x] \in Int, NEW y \in S
  PROVE  SumFunctionOnSet(fun, S) = fun[y] + SumFunctionOnSet(fun, S \ {y})
<1> DEFINE Good == {s \in SUBSET S : \A x \in s :
              SumFunctionOnSet(fun, s) = fun[x] + SumFunctionOnSet(fun, s \ {x})}
<1>1. ASSUME NEW s \in SUBSET S, \A r \in SUBSET s : r # s => r \in Good, NEW x \in s
      PROVE  SumFunctionOnSet(fun, s) = fun[x] + SumFunctionOnSet(fun, s \ {x})
  <2>1. IsFiniteSet(s)
    BY FS_Subset
  <2>2. Picked(s) \in s
    BY PickedIn
  <2>3. SumFunctionOnSet(fun, s) = fun[Picked(s)] + SumFunctionOnSet(fun, s \ {Picked(s)})
    BY <2>1, SumPicks, Zenon
  <2>4. CASE x = Picked(s)
    BY <2>3, <2>4
  <2>5. CASE x # Picked(s)
    <3> DEFINE r == (s \ {Picked(s)}) \ {x}
    <3>1. s \ {Picked(s)} \in Good /\ x \in s \ {Picked(s)}
      BY <1>1, <2>2, <2>5
    <3>2. SumFunctionOnSet(fun, s \ {Picked(s)}) = fun[x] + SumFunctionOnSet(fun, r)
      BY <3>1
    <3>3. s \ {x} \in Good /\ Picked(s) \in s \ {x} /\ (s \ {x}) \ {Picked(s)} = r
      BY <1>1, <2>2, <2>5
    <3>4. SumFunctionOnSet(fun, s \ {x}) = fun[Picked(s)] + SumFunctionOnSet(fun, r)
      BY <3>3
    <3>5. IsFiniteSet(r) /\ r \in SUBSET S
      BY FS_Subset
    <3>6. SumFunctionOnSet(fun, r) \in Int
      <4> HIDE DEF r
      <4> QED BY <3>5, SumInt
    <3> QED BY <2>2, <2>3, <3>2, <3>4, <3>6
  <2> QED BY <2>4, <2>5
<1>2. \A s \in SUBSET S : (\A r \in SUBSET s : r # s => r \in Good) => s \in Good
  BY <1>1
<1>3. S \in Good
  <2> HIDE DEF Good
  <2>1. \A T \in SUBSET S : T \in Good
    BY <1>2, SetInduction, Zenon
  <2> QED BY <2>1
<1> QED BY <1>3

\* The sum over a set with one element more.
LEMMA SumWith ==
  ASSUME NEW fun, NEW S, IsFiniteSet(S), \A x \in S : fun[x] \in Int,
         NEW y, y \notin S, fun[y] \in Int
  PROVE  SumFunctionOnSet(fun, S \cup {y}) = SumFunctionOnSet(fun, S) + fun[y]
<1> DEFINE T == S \cup {y}
<1>1. IsFiniteSet(T) /\ y \in T /\ (\A x \in T : fun[x] \in Int) /\ T \ {y} = S
  BY FS_AddElement
<1> HIDE DEF T
<1>2. SumFunctionOnSet(fun, T) = fun[y] + SumFunctionOnSet(fun, T \ {y})
  BY <1>1, SumStep
<1>3. SumFunctionOnSet(fun, S) \in Int
  BY SumInt
<1>4. SumFunctionOnSet(fun, T) = fun[y] + SumFunctionOnSet(fun, S)
  BY <1>1, <1>2
<1>5. SumFunctionOnSet(fun, T) = SumFunctionOnSet(fun, S) + fun[y]
  BY <1>3, <1>4
<1> QED BY <1>5 DEF T

\* A sum of natural numbers is one.
LEMMA SumNat ==
  ASSUME NEW fun, NEW S, IsFiniteSet(S), \A x \in S : fun[x] \in Nat
  PROVE  SumFunctionOnSet(fun, S) \in Nat
<1> DEFINE Good == {s \in SUBSET S : SumFunctionOnSet(fun, s) \in Nat}
<1>1. ASSUME NEW s \in SUBSET S, \A r \in SUBSET s : r # s => r \in Good
      PROVE  SumFunctionOnSet(fun, s) \in Nat
  <2>1. IsFiniteSet(s)
    BY FS_Subset
  <2>2. CASE s = {}
    BY <2>2, SumOfNone
  <2>3. CASE s # {}
    <3>1. Picked(s) \in s
      BY <2>3, PickedIn
    <3>2. s \ {Picked(s)} \in Good
      BY <1>1, <3>1
    <3>3. SumFunctionOnSet(fun, s) = fun[Picked(s)] + SumFunctionOnSet(fun, s \ {Picked(s)})
      BY <2>1, <2>3, SumPicks, Zenon
    <3> QED BY <3>1, <3>2, <3>3
  <2> QED BY <2>2, <2>3
<1>2. \A s \in SUBSET S : (\A r \in SUBSET s : r # s => r \in Good) => s \in Good
  BY <1>1
<1>3. S \in Good
  <2> HIDE DEF Good
  <2>1. \A T \in SUBSET S : T \in Good
    BY <1>2, SetInduction, Zenon
  <2> QED BY <2>1
<1> QED BY <1>3

\* A sum depends only on the values that are summed.
LEMMA SumSame ==
  ASSUME NEW fun, NEW gun, NEW S, IsFiniteSet(S), \A x \in S : fun[x] = gun[x]
  PROVE  SumFunctionOnSet(fun, S) = SumFunctionOnSet(gun, S)
<1> DEFINE Good == {s \in SUBSET S : SumFunctionOnSet(fun, s) = SumFunctionOnSet(gun, s)}
<1>1. ASSUME NEW s \in SUBSET S, \A r \in SUBSET s : r # s => r \in Good
      PROVE  SumFunctionOnSet(fun, s) = SumFunctionOnSet(gun, s)
  <2>1. IsFiniteSet(s)
    BY FS_Subset
  <2>2. CASE s = {}
    BY <2>2, SumOfNone
  <2>3. CASE s # {}
    <3>1. Picked(s) \in s
      BY <2>3, PickedIn
    <3>2. s \ {Picked(s)} \in Good
      BY <1>1, <3>1
    <3>3. SumFunctionOnSet(fun, s) = fun[Picked(s)] + SumFunctionOnSet(fun, s \ {Picked(s)})
      BY <2>1, <2>3, SumPicks, Zenon
    <3>4. SumFunctionOnSet(gun, s) = gun[Picked(s)] + SumFunctionOnSet(gun, s \ {Picked(s)})
      BY <2>1, <2>3, SumPicks, Zenon
    <3> QED BY <3>1, <3>2, <3>3, <3>4
  <2> QED BY <2>2, <2>3
<1>2. \A s \in SUBSET S : (\A r \in SUBSET s : r # s => r \in Good) => s \in Good
  BY <1>1
<1>3. S \in Good
  <2> HIDE DEF Good
  <2>1. \A T \in SUBSET S : T \in Good
    BY <1>2, SetInduction, Zenon
  <2> QED BY <2>1
<1> QED BY <1>3

\* Smaller values have a smaller sum.
LEMMA SumAtMost ==
  ASSUME NEW fun, NEW gun, NEW S, IsFiniteSet(S),
         \A x \in S : fun[x] \in Int /\ gun[x] \in Int /\ fun[x] <= gun[x]
  PROVE  SumFunctionOnSet(fun, S) <= SumFunctionOnSet(gun, S)
<1> DEFINE Good == {s \in SUBSET S : SumFunctionOnSet(fun, s) <= SumFunctionOnSet(gun, s)}
<1>1. ASSUME NEW s \in SUBSET S, \A r \in SUBSET s : r # s => r \in Good
      PROVE  SumFunctionOnSet(fun, s) <= SumFunctionOnSet(gun, s)
  <2>1. IsFiniteSet(s)
    BY FS_Subset
  <2>2. CASE s = {}
    BY <2>2, SumOfNone
  <2>3. CASE s # {}
    <3>1. Picked(s) \in s
      BY <2>3, PickedIn
    <3> DEFINE r == s \ {Picked(s)}
    <3>2. r \in Good
      BY <1>1, <3>1
    <3>3. SumFunctionOnSet(fun, s) = fun[Picked(s)] + SumFunctionOnSet(fun, r)
      BY <2>1, <2>3, SumPicks, Zenon
    <3>4. SumFunctionOnSet(gun, s) = gun[Picked(s)] + SumFunctionOnSet(gun, r)
      BY <2>1, <2>3, SumPicks, Zenon
    <3>5. IsFiniteSet(r) /\ \A x \in r : fun[x] \in Int /\ gun[x] \in Int
      BY <2>1, FS_Subset
    <3>6. SumFunctionOnSet(fun, r) \in Int /\ SumFunctionOnSet(gun, r) \in Int
      <4> HIDE DEF r
      <4> QED BY <3>5, SumInt
    <3>7. fun[Picked(s)] \in Int /\ gun[Picked(s)] \in Int /\ fun[Picked(s)] <= gun[Picked(s)]
      BY <3>1
    <3>8. SumFunctionOnSet(fun, r) <= SumFunctionOnSet(gun, r)
      BY <3>2
    <3> HIDE DEF r
    <3> QED BY <3>3, <3>4, <3>6, <3>7, <3>8
  <2> QED BY <2>2, <2>3
<1>2. \A s \in SUBSET S : (\A r \in SUBSET s : r # s => r \in Good) => s \in Good
  BY <1>1
<1>3. S \in Good
  <2> HIDE DEF Good
  <2>1. \A T \in SUBSET S : T \in Good
    BY <1>2, SetInduction, Zenon
  <2> QED BY <2>1
<1> QED BY <1>3

\* The sum of sums.
LEMMA SumPlus ==
  ASSUME NEW fun, NEW gun, NEW hun, NEW S, IsFiniteSet(S),
         \A x \in S : fun[x] \in Int /\ gun[x] \in Int /\ hun[x] = fun[x] + gun[x]
  PROVE  SumFunctionOnSet(hun, S) = SumFunctionOnSet(fun, S) + SumFunctionOnSet(gun, S)
<1> DEFINE Good == {s \in SUBSET S : SumFunctionOnSet(hun, s) =
    SumFunctionOnSet(fun, s) + SumFunctionOnSet(gun, s)}
<1>1. ASSUME NEW s \in SUBSET S, \A r \in SUBSET s : r # s => r \in Good
      PROVE  SumFunctionOnSet(hun, s) = SumFunctionOnSet(fun, s) + SumFunctionOnSet(gun, s)
  <2>1. IsFiniteSet(s)
    BY FS_Subset
  <2>2. CASE s = {}
    BY <2>2, SumOfNone
  <2>3. CASE s # {}
    <3>1. Picked(s) \in s
      BY <2>3, PickedIn
    <3> DEFINE r == s \ {Picked(s)}
    <3>2. SumFunctionOnSet(hun, r) = SumFunctionOnSet(fun, r) + SumFunctionOnSet(gun, r)
      BY <1>1, <3>1
    <3>3. SumFunctionOnSet(hun, s) = hun[Picked(s)] + SumFunctionOnSet(hun, r)
      BY <2>1, <2>3, SumPicks, Zenon
    <3>4. SumFunctionOnSet(fun, s) = fun[Picked(s)] + SumFunctionOnSet(fun, r)
      BY <2>1, <2>3, SumPicks, Zenon
    <3>5. SumFunctionOnSet(gun, s) = gun[Picked(s)] + SumFunctionOnSet(gun, r)
      BY <2>1, <2>3, SumPicks, Zenon
    <3>6. IsFiniteSet(r) /\ \A x \in r : fun[x] \in Int /\ gun[x] \in Int
      BY <2>1, FS_Subset
    <3>7. SumFunctionOnSet(fun, r) \in Int /\ SumFunctionOnSet(gun, r) \in Int
      <4> HIDE DEF r
      <4> QED BY <3>6, SumInt
    <3>8. /\ fun[Picked(s)] \in Int /\ gun[Picked(s)] \in Int
          /\ hun[Picked(s)] = fun[Picked(s)] + gun[Picked(s)]
      BY <3>1
    <3> HIDE DEF r
    <3> QED BY <3>2, <3>3, <3>4, <3>5, <3>7, <3>8
  <2> QED BY <2>2, <2>3
<1>2. \A s \in SUBSET S : (\A r \in SUBSET s : r # s => r \in Good) => s \in Good
  BY <1>1
<1>3. S \in Good
  <2> HIDE DEF Good
  <2>1. \A T \in SUBSET S : T \in Good
    BY <1>2, SetInduction, Zenon
  <2> QED BY <2>1
<1> QED BY <1>3

\* The sum over two sets that have no element in common.
LEMMA SumOfBoth ==
  ASSUME NEW fun, NEW S, IsFiniteSet(S), NEW T, IsFiniteSet(T), S \cap T = {},
         \A x \in S \cup T : fun[x] \in Int
  PROVE  SumFunctionOnSet(fun, S \cup T) =
    SumFunctionOnSet(fun, S) + SumFunctionOnSet(fun, T)
<1> DEFINE Good == {s \in SUBSET S : SumFunctionOnSet(fun, s \cup T) =
    SumFunctionOnSet(fun, s) + SumFunctionOnSet(fun, T)}
<1>1. ASSUME NEW s \in SUBSET S, \A r \in SUBSET s : r # s => r \in Good
      PROVE  SumFunctionOnSet(fun, s \cup T) =
    SumFunctionOnSet(fun, s) + SumFunctionOnSet(fun, T)
  <2>1. IsFiniteSet(s) /\ \A x \in s : fun[x] \in Int
    BY FS_Subset
  <2>0. SumFunctionOnSet(fun, T) \in Int
    BY SumInt
  <2>2. CASE s = {}
    <3>1. s \cup T = T
      BY <2>2
    <3> QED BY <2>0, <2>2, <3>1, SumOfNone
  <2>3. CASE s # {}
    <3>1. Picked(s) \in s
      BY <2>3, PickedIn
    <3> DEFINE r == s \ {Picked(s)}
    <3>2. r \in Good
      BY <1>1, <3>1
    <3>3. SumFunctionOnSet(fun, s) = fun[Picked(s)] + SumFunctionOnSet(fun, r)
      BY <2>1, <2>3, SumPicks, Zenon
    <3>4. IsFiniteSet(s \cup T) /\ Picked(s) \in s \cup T /\ (s \cup T) \ {Picked(s)} = r \cup T
      BY <2>1, <3>1, FS_Union
    <3>5. \A x \in s \cup T : fun[x] \in Int
      BY <2>1
    <3>6. SumFunctionOnSet(fun, s \cup T) = fun[Picked(s)] + SumFunctionOnSet(fun, r \cup T)
      BY <3>4, <3>5, SumStep
    <3>7. SumFunctionOnSet(fun, r \cup T) = SumFunctionOnSet(fun, r) + SumFunctionOnSet(fun, T)
      BY <3>2
    <3>8. IsFiniteSet(r) /\ \A x \in r : fun[x] \in Int
      BY <2>1, FS_Subset
    <3>9. SumFunctionOnSet(fun, r) \in Int /\ fun[Picked(s)] \in Int
      <4>1. fun[Picked(s)] \in Int
        BY <3>1, <2>1
      <4> HIDE DEF r
      <4> QED BY <4>1, <3>8, SumInt
    <3> HIDE DEF r
    <3> QED BY <3>3, <3>6, <3>7, <3>9, <2>0
  <2> QED BY <2>2, <2>3
<1>2. \A s \in SUBSET S : (\A r \in SUBSET s : r # s => r \in Good) => s \in Good
  BY <1>1
<1>3. S \in Good
  <2> HIDE DEF Good
  <2>1. \A q \in SUBSET S : q \in Good
    BY <1>2, SetInduction, Zenon
  <2> QED BY <2>1
<1> QED BY <1>3

\* When one value changes, so does the sum.
LEMMA SumChange ==
  ASSUME NEW fun, NEW gun, NEW S, IsFiniteSet(S), NEW y \in S,
         \A x \in S : fun[x] \in Int /\ gun[x] \in Int,
         \A x \in S \ {y} : gun[x] = fun[x]
  PROVE  SumFunctionOnSet(gun, S) = SumFunctionOnSet(fun, S) - fun[y] + gun[y]
<1> DEFINE T == S \ {y}
<1>1. IsFiniteSet(T) /\ \A x \in T : gun[x] = fun[x] /\ fun[x] \in Int
  BY FS_RemoveElement
<1>2. SumFunctionOnSet(fun, S) = fun[y] + SumFunctionOnSet(fun, T)
  BY SumStep
<1>3. SumFunctionOnSet(gun, S) = gun[y] + SumFunctionOnSet(gun, T)
  BY SumStep
<1> HIDE DEF T
<1>4. SumFunctionOnSet(gun, T) = SumFunctionOnSet(fun, T)
  BY <1>1, SumSame
<1>5. SumFunctionOnSet(fun, T) \in Int
  BY <1>1, SumInt
<1> QED BY <1>2, <1>3, <1>4, <1>5

\* Values that count for nothing may be left out.
LEMMA SumOfSome ==
  ASSUME NEW fun, NEW gun, NEW S, IsFiniteSet(S), NEW T \in SUBSET S,
         \A x \in S : fun[x] \in Int,
         \A x \in S : gun[x] = IF x \in T THEN fun[x] ELSE 0
  PROVE  SumFunctionOnSet(gun, S) = SumFunctionOnSet(fun, T)
<1> DEFINE Good == {s \in SUBSET S : SumFunctionOnSet(gun, s) = SumFunctionOnSet(fun, s \cap T)}
<1>1. ASSUME NEW s \in SUBSET S, \A r \in SUBSET s : r # s => r \in Good
      PROVE  SumFunctionOnSet(gun, s) = SumFunctionOnSet(fun, s \cap T)
  <2>1. IsFiniteSet(s) /\ IsFiniteSet(s \cap T)
    BY FS_Subset
  <2>2. CASE s = {}
    <3>1. s \cap T = {}
      BY <2>2
    <3> QED BY <2>2, <3>1, SumOfNone
  <2>3. CASE s # {}
    <3>1. Picked(s) \in s
      BY <2>3, PickedIn
    <3> DEFINE r == s \ {Picked(s)}
    <3>2. SumFunctionOnSet(gun, r) = SumFunctionOnSet(fun, r \cap T)
      BY <1>1, <3>1
    <3>3. SumFunctionOnSet(gun, s) = gun[Picked(s)] + SumFunctionOnSet(gun, r)
      BY <2>1, <2>3, SumPicks, Zenon
    <3>4. SumFunctionOnSet(fun, r \cap T) \in Int
      <4>1. IsFiniteSet(r \cap T) /\ \A x \in r \cap T : fun[x] \in Int
        BY <2>1, FS_Subset
      <4> QED BY <4>1, SumInt
    <3>5. CASE Picked(s) \in T
      <4>1. (s \cap T) \ {Picked(s)} = r \cap T /\ Picked(s) \in s \cap T
        BY <3>1, <3>5
      <4>2. \A x \in s \cap T : fun[x] \in Int
        OBVIOUS
      <4>3. SumFunctionOnSet(fun, s \cap T) = fun[Picked(s)] + SumFunctionOnSet(fun, (s \cap T) \ {Picked(s)})
        BY <2>1, <4>1, <4>2, SumStep
      <4>4. gun[Picked(s)] = fun[Picked(s)]
        BY <3>1, <3>5
      <4> HIDE DEF r
      <4> QED BY <3>2, <3>3, <4>1, <4>3, <4>4
    <3>6. CASE Picked(s) \notin T
      <4>1. s \cap T = r \cap T
        BY <3>6
      <4>2. gun[Picked(s)] = 0
        BY <3>1, <3>6
      <4> HIDE DEF r
      <4>3. SumFunctionOnSet(fun, s \cap T) = SumFunctionOnSet(fun, r \cap T)
        BY <4>1, Zenon
      <4> QED BY <3>2, <3>3, <3>4, <4>2, <4>3
    <3> QED BY <3>5, <3>6
  <2> QED BY <2>2, <2>3
<1>2. \A s \in SUBSET S : (\A r \in SUBSET s : r # s => r \in Good) => s \in Good
  BY <1>1
<1>3. S \in Good
  <2> HIDE DEF Good
  <2>1. \A R \in SUBSET S : R \in Good
    BY <1>2, SetInduction, Zenon
  <2> QED BY <2>1
<1>4. S \cap T = T
  OBVIOUS
<1> QED BY <1>3, <1>4

\* To count is to sum ones.
LEMMA SumOfOnes ==
  ASSUME NEW gun, NEW S, IsFiniteSet(S), NEW T \in SUBSET S,
         \A x \in S : gun[x] = IF x \in T THEN 1 ELSE 0
  PROVE  SumFunctionOnSet(gun, S) = Cardinality(T)
<1> DEFINE Good == {s \in SUBSET S : SumFunctionOnSet(gun, s) = Cardinality(s \cap T)}
<1>1. ASSUME NEW s \in SUBSET S, \A r \in SUBSET s : r # s => r \in Good
      PROVE  SumFunctionOnSet(gun, s) = Cardinality(s \cap T)
  <2>1. IsFiniteSet(s) /\ IsFiniteSet(s \cap T)
    BY FS_Subset
  <2>2. CASE s = {}
    <3>1. s \cap T = {}
      BY <2>2
    <3> QED BY <2>2, <3>1, SumOfNone, FS_EmptySet
  <2>3. CASE s # {}
    <3>1. Picked(s) \in s
      BY <2>3, PickedIn
    <3> DEFINE r == s \ {Picked(s)}
    <3>2. SumFunctionOnSet(gun, r) = Cardinality(r \cap T)
      BY <1>1, <3>1
    <3>3. SumFunctionOnSet(gun, s) = gun[Picked(s)] + SumFunctionOnSet(gun, r)
      BY <2>1, <2>3, SumPicks, Zenon
    <3>4. IsFiniteSet(r \cap T) /\ Cardinality(r \cap T) \in Nat
      BY <2>1, FS_Subset, FS_CardinalityType
    <3>5. CASE Picked(s) \in T
      <4>1. s \cap T = (r \cap T) \cup {Picked(s)} /\ Picked(s) \notin r \cap T
        BY <3>1, <3>5
      <4>2. gun[Picked(s)] = 1
        BY <3>1, <3>5
      <4> HIDE DEF r
      <4>3. Cardinality((r \cap T) \cup {Picked(s)}) = Cardinality(r \cap T) + 1
        BY <3>4, <4>1, FS_AddElement
      <4>4. Cardinality(s \cap T) = Cardinality((r \cap T) \cup {Picked(s)})
        BY <4>1, Zenon
      <4> QED BY <3>2, <3>3, <3>4, <4>2, <4>3, <4>4
    <3>6. CASE Picked(s) \notin T
      <4>1. s \cap T = r \cap T
        BY <3>6
      <4>2. gun[Picked(s)] = 0
        BY <3>1, <3>6
      <4> HIDE DEF r
      <4>3. Cardinality(s \cap T) = Cardinality(r \cap T)
        BY <4>1, Zenon
      <4> QED BY <3>2, <3>3, <3>4, <4>2, <4>3
    <3> QED BY <3>5, <3>6
  <2> QED BY <2>2, <2>3
<1>2. \A s \in SUBSET S : (\A r \in SUBSET s : r # s => r \in Good) => s \in Good
  BY <1>1
<1>3. S \in Good
  <2> HIDE DEF Good
  <2>1. \A R \in SUBSET S : R \in Good
    BY <1>2, SetInduction, Zenon
  <2> QED BY <2>1
<1>4. S \cap T = T
  OBVIOUS
<1> QED BY <1>3, <1>4

\* The sum of zeros.
LEMMA SumOfZeros ==
  ASSUME NEW fun, NEW S, IsFiniteSet(S), \A x \in S : fun[x] = 0
  PROVE  SumFunctionOnSet(fun, S) = 0
<1>1. \A x \in S : fun[x] = IF x \in {} THEN 1 ELSE 0
  OBVIOUS
<1>2. SumFunctionOnSet(fun, S) = Cardinality({})
  BY <1>1, SumOfOnes
<1> QED BY <1>2, FS_EmptySet
=============================================================================
