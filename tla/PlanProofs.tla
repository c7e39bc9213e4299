----------------------------- MODULE PlanProofs -----------------------------
(***************************************************************************)
(* Facts about a converted plan for every list of weights: which errors    *)
(* the table of an outcome holds and what a draw finds in it.  Induction   *)
(* over finite sets is carried out as the search for a smallest            *)
(* counterexample.                                                         *)
(***************************************************************************)
EXTENDS Plan, FiniteSetTheorems, WellFoundedInduction, TLAPS

-----------------------------------------------------------------------------
(* Finite sets of integers.                                                 *)

\* A nonempty set of natural numbers has a least element.
LEMMA LeastNatural ==
    ASSUME NEW T \in SUBSET Nat, T # {}
    PROVE  \E n \in T : \A m \in T : n <= m
  <1>1. PICK n \in T : \A m \in T : ~(<<m, n>> \in OpToRel(<, Nat))
    BY NatLessThanWellFounded, WFMin
  <1>2. \A m \in T : ~(m < n)
    BY <1>1 DEF OpToRel
  <1> QED
    BY <1>2

\* Among subsets of a finite set there is one no element of which can be
\* removed without leaving the family.
LEMMA SmallestSet ==
    ASSUME NEW S, IsFiniteSet(S), NEW Bad \in SUBSET (SUBSET S), Bad # {}
    PROVE  \E s \in Bad : IsFiniteSet(s) /\ \A x \in s : s \ {x} \notin Bad
  <1> DEFINE Sizes == {Cardinality(s) : s \in Bad}
  <1>1. \A s \in Bad : IsFiniteSet(s) /\ Cardinality(s) \in Nat
    BY FS_Subset, FS_CardinalityType
  <1>2. PICK n \in Sizes : \A m \in Sizes : n <= m
    <2>1. Sizes \in SUBSET Nat /\ Sizes # {}
      BY <1>1
    <2> HIDE DEF Sizes
    <2> QED
      BY <2>1, LeastNatural
  <1>3. PICK s \in Bad : Cardinality(s) = n
    OBVIOUS
  <1>4. IsFiniteSet(s) /\ Cardinality(s) \in Nat
    BY <1>1
  <1>5. ASSUME NEW x \in s, s \ {x} \in Bad PROVE FALSE
    <2>1. Cardinality(s \ {x}) = Cardinality(s) - 1
      BY <1>4, FS_RemoveElement
    <2>2. n <= Cardinality(s \ {x})
      BY <1>2, <1>5
    <2> QED
      BY <1>3, <1>4, <2>1, <2>2
  <1> QED
    BY <1>4, <1>5

\* A finite nonempty set of integers has a greatest and a least element.
LEMMA Extremes ==
    ASSUME NEW S \in SUBSET Int, IsFiniteSet(S), S # {}
    PROVE  /\ Max(S) \in S /\ \A y \in S : Max(S) >= y
           /\ Min(S) \in S /\ \A y \in S : Min(S) <= y
  <1> DEFINE Good(s) == (\E x \in s : \A y \in s : x >= y) /\ (\E x \in s : \A y \in s : x <= y)
             Bad == {s \in SUBSET S : s # {} /\ ~Good(s)}
  <1>1. Bad = {}
    <2> SUFFICES ASSUME Bad # {} PROVE FALSE
      OBVIOUS
    <2>1. PICK s \in Bad : \A x \in s : s \ {x} \notin Bad
      <3> HIDE DEF Bad
      <3>1. Bad \in SUBSET (SUBSET S)
        BY DEF Bad
      <3> QED
        BY <3>1, SmallestSet
    <2>2. PICK x \in s : TRUE
      OBVIOUS
    <2> DEFINE r == s \ {x}
    <2>3. r = {} \/ Good(r)
      BY <2>1, <2>2
    <2>4. CASE r = {}
      <3>1. \A y \in s : y = x
        BY <2>4
      <3> QED
        BY <2>1, <2>2, <3>1
    <2>5. CASE Good(r)
      <3>1. PICK hi \in r : \A y \in r : hi >= y
        BY <2>5
      <3>2. PICK lo \in r : \A y \in r : lo <= y
        BY <2>5
      <3>3. \A y \in s : y = x \/ y \in r
        OBVIOUS
      <3>4. \E z \in s : \A y \in s : z >= y
        <4>1. CASE x >= hi
          BY <2>2, <3>1, <3>3, <4>1
        <4>2. CASE ~(x >= hi)
          BY <2>2, <3>1, <3>3, <4>2
        <4> QED
          BY <4>1, <4>2
      <3>5. \E z \in s : \A y \in s : z <= y
        <4>1. CASE x <= lo
          BY <2>2, <3>2, <3>3, <4>1
        <4>2. CASE ~(x <= lo)
          BY <2>2, <3>2, <3>3, <4>2
        <4> QED
          BY <4>1, <4>2
      <3> QED
        BY <2>1, <3>4, <3>5
    <2> QED
      BY <2>3, <2>4, <2>5
  <1>2. Good(S)
    BY <1>1
  <1> QED
    BY <1>2 DEF Max, Min

\* What a list of finitely many entries says of one field is a finite set.
LEMMA ImageFinite ==
    ASSUME NEW S, IsFiniteSet(S), NEW f, DOMAIN f = S
    PROVE  IsFiniteSet({f[x] : x \in S})
  <1> DEFINE T == {f[x] : x \in S}
  <1> DEFINE g == [x \in S |-> f[x]]
  <1>1. g \in Surjection(S, T)
    BY DEF Surjection
  <1> HIDE DEF g, T
  <1>2. IsFiniteSet(T)
    BY <1>1, FS_Surjection
  <1> QED
    BY <1>2 DEF T
-----------------------------------------------------------------------------
(* Sums.                                                                    *)

Some(s) == CHOOSE x \in s : TRUE

\* What g says of s follows from what it says of s without one element.
SumAt(fun, s, g) == IF s = {} THEN 0 ELSE fun[Some(s)] + g[s \ {Some(s)}]

\* g tells the sum over every subset of S.
Sums(fun, S, g) == g = [s \in SUBSET S |-> SumAt(fun, s, g)]

\* The sum as the community modules define it.
LEMMA SumUnfolded ==
    ASSUME NEW fun, NEW S
    PROVE  SumFunctionOnSet(fun, S) = (CHOOSE g : Sums(fun, S, g))[S]
  BY DEF SumFunctionOnSet, FoldFunctionOnSet, MapThenFoldSet, Sums, SumAt, Some

\* The recursive definition of the sum defines a function.
LEMMA SumsExist ==
    ASSUME NEW fun, NEW S, IsFiniteSet(S)
    PROVE  \E g : Sums(fun, S, g)
  <1> DEFINE D(n) == {s \in SUBSET S : Cardinality(s) <= n}
             Defined(n) == \E g : g = [s \in D(n) |-> SumAt(fun, s, g)]
             Bad == {n \in Nat : ~Defined(n)}
  <1>1. \A s \in SUBSET S : IsFiniteSet(s) /\ Cardinality(s) \in Nat
    BY FS_Subset, FS_CardinalityType
  <1>2. \A s \in SUBSET S : s # {} =>
            /\ Some(s) \in s /\ s \ {Some(s)} \in SUBSET S
            /\ Cardinality(s \ {Some(s)}) = Cardinality(s) - 1
    BY <1>1, FS_RemoveElement DEF Some
  <1>3. Defined(0)
    <2> DEFINE g == [s \in D(0) |-> 0]
    <2>1. \A s \in D(0) : s = {}
      BY <1>1, FS_EmptySet
    <2>2. g = [s \in D(0) |-> SumAt(fun, s, g)]
      BY <2>1 DEF SumAt
    <2> QED
      BY <2>2
  <1>4. ASSUME NEW n \in Nat, Defined(n) PROVE Defined(n + 1)
    <2>1. PICK h : h = [s \in D(n) |-> SumAt(fun, s, h)]
      BY <1>4
    <2> DEFINE g == [s \in D(n + 1) |-> SumAt(fun, s, h)]
    <2>2. \A s \in D(n) : s \in D(n + 1) /\ h[s] = g[s]
      BY <1>1, <2>1
    <2>3. ASSUME NEW s \in D(n + 1) PROVE SumAt(fun, s, h) = SumAt(fun, s, g)
      <3>1. CASE s = {}
        BY <3>1 DEF SumAt
      <3>2. CASE s # {}
        <4>1. s \ {Some(s)} \in D(n)
          BY <1>1, <1>2, <2>3, <3>2
        <4> QED
          BY <2>2, <3>2, <4>1 DEF SumAt
      <3> QED
        BY <3>1, <3>2
    <2>4. g = [s \in D(n + 1) |-> SumAt(fun, s, g)]
      BY <2>3
    <2> QED
      BY <2>4
  <1>5. Bad = {}
    <2> SUFFICES ASSUME Bad # {} PROVE FALSE
      OBVIOUS
    <2> HIDE DEF Defined
    <2>1. PICK n \in Bad : \A m \in Bad : n <= m
      <3>1. Bad \in SUBSET Nat
        OBVIOUS
      <3> HIDE DEF Bad
      <3> QED
        BY <3>1, LeastNatural
    <2>2. n # 0 /\ n \in Nat
      BY <1>3
    <2>3. n - 1 \in Nat /\ n - 1 \notin Bad
      BY <2>1, <2>2
    <2>4. Defined(n - 1 + 1)
      BY <1>4, <2>3
    <2>5. n - 1 + 1 = n
      BY <2>2
    <2> QED
      BY <2>1, <2>4, <2>5
  <1>6. Cardinality(S) \in Nat /\ D(Cardinality(S)) = SUBSET S
    BY <1>1, FS_Subset
  <1>7. Defined(Cardinality(S))
    BY <1>5, <1>6
  <1> QED
    BY <1>6, <1>7 DEF Sums

\* Two such functions agree where both are defined.
LEMMA SumsAgree ==
    ASSUME NEW fun, NEW S, IsFiniteSet(S), NEW g, Sums(fun, S, g),
           NEW T \in SUBSET S, NEW h, Sums(fun, T, h)
    PROVE  g[T] = h[T]
  <1> DEFINE Bad == {s \in SUBSET T : g[s] # h[s]}
  <1> SUFFICES ASSUME Bad # {} PROVE FALSE
    OBVIOUS
  <1>1. IsFiniteSet(T)
    BY FS_Subset
  <1>2. PICK s \in Bad : \A x \in s : s \ {x} \notin Bad
    <2>1. Bad \in SUBSET (SUBSET T)
      OBVIOUS
    <2> HIDE DEF Bad
    <2> QED
      BY <1>1, <2>1, SmallestSet
  <1>3. g[s] = SumAt(fun, s, g) /\ h[s] = SumAt(fun, s, h)
    BY DEF Sums
  <1>4. CASE s = {}
    BY <1>3, <1>4 DEF SumAt
  <1>5. CASE s # {}
    <2>1. Some(s) \in s
      BY <1>5 DEF Some
    <2>2. g[s \ {Some(s)}] = h[s \ {Some(s)}]
      BY <1>2, <2>1
    <2> QED
      BY <1>3, <1>5, <2>2 DEF SumAt
  <1> QED
    BY <1>4, <1>5

\* The sum over a finite set, by one element of it.
LEMMA SumStep ==
    ASSUME NEW fun, NEW S, IsFiniteSet(S)
    PROVE  SumFunctionOnSet(fun, S) =
             IF S = {} THEN 0 ELSE fun[Some(S)] + SumFunctionOnSet(fun, S \ {Some(S)})
  <1> DEFINE G(T) == CHOOSE g : Sums(fun, T, g)
             R == S \ {Some(S)}
  <1>1. IsFiniteSet(R) /\ R \in SUBSET S
    BY FS_Subset
  <1>2. Sums(fun, S, G(S)) /\ Sums(fun, R, G(R))
    BY <1>1, SumsExist
  <1>3. G(S)[R] = G(R)[R]
    BY <1>1, <1>2, SumsAgree
  <1>4. G(S)[S] = SumAt(fun, S, G(S))
    BY <1>2 DEF Sums
  <1>5. SumFunctionOnSet(fun, S) = G(S)[S] /\ SumFunctionOnSet(fun, R) = G(R)[R]
    BY SumUnfolded
  <1> QED
    BY <1>3, <1>4, <1>5 DEF SumAt

\* A sum of integers is an integer.
LEMMA SumInt ==
    ASSUME NEW fun, NEW S, IsFiniteSet(S), \A x \in S : fun[x] \in Int
    PROVE  SumFunctionOnSet(fun, S) \in Int
  <1> DEFINE Bad == {s \in SUBSET S : SumFunctionOnSet(fun, s) \notin Int}
  <1> SUFFICES ASSUME Bad # {} PROVE FALSE
    OBVIOUS
  <1>1. PICK s \in Bad : IsFiniteSet(s) /\ \A x \in s : s \ {x} \notin Bad
    <2>1. Bad \in SUBSET (SUBSET S)
      OBVIOUS
    <2> HIDE DEF Bad
    <2> QED
      BY <2>1, SmallestSet
  <1>2. SumFunctionOnSet(fun, s) =
          IF s = {} THEN 0 ELSE fun[Some(s)] + SumFunctionOnSet(fun, s \ {Some(s)})
    BY <1>1, SumStep
  <1>3. s # {}
    BY <1>2
  <1>4. Some(s) \in s
    BY <1>3 DEF Some
  <1>5. fun[Some(s)] \in Int /\ SumFunctionOnSet(fun, s \ {Some(s)}) \in Int
    BY <1>1, <1>4
  <1> QED
    BY <1>2, <1>3, <1>5

\* A sum of integers does not depend on the order of the elements.
LEMMA SumRemove ==
    ASSUME NEW fun, NEW S, IsFiniteSet(S), \A x \in S : fun[x] \in Int
    PROVE  \A x \in S : SumFunctionOnSet(fun, S) = fun[x] + SumFunctionOnSet(fun, S \ {x})
  <1> DEFINE sum(s) == SumFunctionOnSet(fun, s)
             Bad == {s \in SUBSET S : ~ \A x \in s : sum(s) = fun[x] + sum(s \ {x})}
  <1> SUFFICES ASSUME Bad # {} PROVE FALSE
    OBVIOUS
  <1>0. \A s \in SUBSET S : sum(s) \in Int
    BY SumInt, FS_Subset
  <1>1. PICK s \in Bad : IsFiniteSet(s) /\ \A x \in s : s \ {x} \notin Bad
    <2>1. Bad \in SUBSET (SUBSET S)
      OBVIOUS
    <2> HIDE DEF Bad
    <2> QED
      BY <2>1, SmallestSet
  <1> DEFINE y == Some(s)
  <1>2. s # {} /\ y \in s
    BY DEF Some
  <1>3. sum(s) = fun[y] + sum(s \ {y})
    BY <1>1, <1>2, SumStep
  <1> HIDE DEF sum, y
  <1>4. ASSUME NEW x \in s, x # y PROVE sum(s) = fun[x] + sum(s \ {x})
    <2>1. sum(s \ {y}) = fun[x] + sum((s \ {y}) \ {x})
      BY <1>1, <1>2, <1>4
    <2>2. sum(s \ {x}) = fun[y] + sum((s \ {x}) \ {y})
      BY <1>1, <1>2, <1>4
    <2>3. (s \ {y}) \ {x} = (s \ {x}) \ {y}
      OBVIOUS
    <2>4. sum((s \ {x}) \ {y}) \in Int /\ fun[x] \in Int /\ fun[y] \in Int
      BY <1>0, <1>2
    <2> DEFINE z == sum((s \ {x}) \ {y})
    <2>5. /\ sum(s \ {x}) = fun[y] + z /\ sum(s \ {y}) = fun[x] + z
          /\ z \in Int /\ fun[x] \in Int /\ fun[y] \in Int
      BY <2>1, <2>2, <2>3, <2>4
    <2> HIDE DEF z
    <2> QED
      BY <1>3, <2>5
  <1> QED
    BY <1>3, <1>4
-----------------------------------------------------------------------------
(* The table of an outcome.                                                 *)

\* The first element of a list for a value is one of its elements.
LEMMA FirstFound ==
    ASSUME NEW list, NEW n \in Nat, DOMAIN list = 1 .. n,
           NEW field, NEW v \in Values(list, field)
    PROVE  \E i \in 1 .. n : FirstOf(list, field, v) = list[i] /\ list[i][field] = v
  <1> DEFINE I == {i \in DOMAIN list : list[i][field] = v}
  <1>1. I \in SUBSET Int /\ I \in SUBSET (1 .. n) /\ I # {}
    BY DEF Values
  <1>2. IsFiniteSet(I)
    BY <1>1, FS_Interval, FS_Subset
  <1>3. Min(I) \in I
    <2> HIDE DEF I
    <2> QED
      BY <1>1, <1>2, Extremes
  <1> QED
    BY <1>3 DEF FirstOf

\* The weights of an outcome's errors.
LEMMA Weights ==
    ASSUME NEW wts \in Seq(sysfail_error_wt_t)
    PROVE  /\ DOMAIN error_weights(wts) = Values(wts, "nerror")
           /\ IsFiniteSet(Values(wts, "nerror"))
           /\ Values(wts, "nerror") \in SUBSET (Nat \ {0})
           /\ \A e \in Values(wts, "nerror") : error_weights(wts)[e] \in Int
  <1>1. Len(wts) \in Nat /\ DOMAIN wts = 1 .. Len(wts)
    OBVIOUS
  <1>2. \A i \in 1 .. Len(wts) : wts[i]["nerror"] \in Nat \ {0} /\ wts[i].weight \in Int
    <2> SUFFICES ASSUME NEW i \in 1 .. Len(wts)
                 PROVE  wts[i]["nerror"] \in Nat \ {0} /\ wts[i].weight \in Int
      OBVIOUS
    <2>0. wts[i] \in sysfail_error_wt_t
      OBVIOUS
    <2>1. wts[i] \in [nerror : Nat \ {0}, weight : Int]
      BY <2>0 DEF sysfail_error_wt_t
    <2>2. wts[i].nerror \in Nat \ {0} /\ wts[i].weight \in Int
      BY <2>1
    <2>3. wts[i]["nerror"] = wts[i].nerror
      BY <2>1, Zenon
    <2> QED
      BY <2>2, <2>3
  <1>3. IsFiniteSet(Values(wts, "nerror"))
    <2> DEFINE f == [i \in 1 .. Len(wts) |-> wts[i]["nerror"]]
    <2>1. IsFiniteSet(1 .. Len(wts))
      BY <1>1, FS_Interval
    <2>2. IsFiniteSet({f[i] : i \in 1 .. Len(wts)})
      <3>1. DOMAIN f = 1 .. Len(wts)
        OBVIOUS
      <3> HIDE DEF f
      <3> QED
        BY <2>1, <3>1, ImageFinite
    <2> QED
      BY <1>1, <2>2 DEF Values
  <1>4. ASSUME NEW e \in Values(wts, "nerror")
        PROVE  FirstOf(wts, "nerror", e).weight \in Int
    BY <1>1, <1>2, FirstFound
  <1> QED
    BY <1>1, <1>2, <1>3, <1>4 DEF error_weights, Values

\* What the weights of an outcome are to the table made of them.
WeightTable(wt) ==
    IsFiniteSet(DOMAIN wt) /\ DOMAIN wt \in SUBSET Int /\ \A e \in DOMAIN wt : wt[e] \in Int

\* The keys of the table are finitely many sums, and it holds errors of the plan.
LEMMA Table ==
    ASSUME NEW wt, WeightTable(wt)
    PROVE  /\ \A e \in DOMAIN wt : Cumulative(wt, e) \in Int
           /\ IsFiniteSet(DOMAIN error_by_cumulative_p(wt))
           /\ DOMAIN error_by_cumulative_p(wt) = {Cumulative(wt, e) : e \in DOMAIN wt}
           /\ \A c \in DOMAIN error_by_cumulative_p(wt) :
                /\ error_by_cumulative_p(wt)[c] \in DOMAIN wt
                /\ Cumulative(wt, error_by_cumulative_p(wt)[c]) = c
                /\ \A e \in DOMAIN wt : Cumulative(wt, e) = c => e <= error_by_cumulative_p(wt)[c]
  <1> DEFINE T == error_by_cumulative_p(wt)
             K == {Cumulative(wt, e) : e \in DOMAIN wt}
             At(c) == {e \in DOMAIN wt : Cumulative(wt, e) = c}
  <1>1. ASSUME NEW e \in DOMAIN wt PROVE Cumulative(wt, e) \in Int
    <2> DEFINE D == {d \in DOMAIN wt : d <= e}
    <2>1. IsFiniteSet(D) /\ \A d \in D : wt[d] \in Int
      BY FS_Subset DEF WeightTable
    <2> HIDE DEF D
    <2>2. SumFunctionOnSet(wt, D) \in Int
      BY <2>1, SumInt
    <2> QED
      BY <2>2 DEF Cumulative, D
  <1>2. IsFiniteSet(K)
    <2> DEFINE f == [e \in DOMAIN wt |-> Cumulative(wt, e)]
    <2>1. IsFiniteSet({f[e] : e \in DOMAIN wt})
      <3>1. DOMAIN f = DOMAIN wt
        OBVIOUS
      <3> HIDE DEF f
      <3> QED
        BY <3>1, ImageFinite DEF WeightTable
    <2> QED
      BY <2>1
  <1>3. DOMAIN T = K /\ \A c \in K : T[c] = Max(At(c))
    BY DEF error_by_cumulative_p
  <1>4. ASSUME NEW c \in K PROVE Max(At(c)) \in At(c) /\ \A e \in At(c) : Max(At(c)) >= e
    <2>1. At(c) \in SUBSET Int /\ At(c) \in SUBSET DOMAIN wt /\ At(c) # {}
      BY DEF WeightTable
    <2>2. IsFiniteSet(At(c))
      BY <2>1, FS_Subset DEF WeightTable
    <2> HIDE DEF At
    <2> QED
      BY <2>1, <2>2, Extremes
  <1>5. ASSUME NEW c \in K
        PROVE  T[c] \in DOMAIN wt /\ Cumulative(wt, T[c]) = c
               /\ \A e \in DOMAIN wt : Cumulative(wt, e) = c => e <= T[c]
    <2>1. T[c] \in At(c) /\ \A e \in At(c) : T[c] >= e
      BY <1>3, <1>4
    <2>2. \A e \in At(c) : e \in Int
      BY DEF WeightTable
    <2> HIDE DEF T
    <2> QED
      BY <2>1, <2>2
  <1> HIDE DEF T
  <1>6. \A c \in DOMAIN T : T[c] \in DOMAIN wt /\ Cumulative(wt, T[c]) = c
               /\ \A e \in DOMAIN wt : Cumulative(wt, e) = c => e <= T[c]
    BY <1>3, <1>5
  <1> QED
    BY <1>1, <1>2, <1>3, <1>6 DEF T

\* What a draw finds: unless it is beyond the last key, one error of the plan;
\* and it never is beyond the last key when the weights sum to more.
LEMMA Found ==
    ASSUME NEW wt, WeightTable(wt), NEW o, o.errors = error_by_cumulative_p(wt), NEW k \in Int
    PROVE  /\ ~AtEnd(o, k) =>
                /\ Min(AtOrAbove(o, k)) \in AtOrAbove(o, k)
                /\ \A c \in AtOrAbove(o, k) : Min(AtOrAbove(o, k)) <= c
                /\ ErrorsAt(o, k) = {o.errors[Min(AtOrAbove(o, k))]}
                /\ o.errors[Min(AtOrAbove(o, k))] \in DOMAIN wt
           /\ k >= 0 /\ SumFunction(wt) > k => ~AtEnd(o, k)
  <1> DEFINE T == error_by_cumulative_p(wt)
             A == AtOrAbove(o, k)
  <1>1. A = {c \in DOMAIN T : c > k}
    BY DEF AtOrAbove
  <1>2. DOMAIN T \in SUBSET Int /\ IsFiniteSet(DOMAIN T)
    BY Table
  <1>3. A \in SUBSET Int /\ IsFiniteSet(A) /\ A \in SUBSET (DOMAIN T)
    BY <1>1, <1>2, FS_Subset
  <1>4. ASSUME A # {}
        PROVE  Min(A) \in A /\ (\A c \in A : Min(A) <= c)
    <2> HIDE DEF A
    <2> QED
      BY <1>3, <1>4, Extremes
  <1>5. ASSUME A # {} PROVE T[Min(A)] \in DOMAIN wt
    BY <1>3, <1>4, <1>5, Table
  <1>6. ASSUME k >= 0, SumFunction(wt) > k PROVE A # {}
    <2>1. DOMAIN wt # {}
      <3> SUFFICES ASSUME DOMAIN wt = {} PROVE FALSE
        OBVIOUS
      <3>1. SumFunctionOnSet(wt, {}) = 0
        BY FS_EmptySet, SumStep
      <3> QED
        BY <1>6, <3>1 DEF SumFunction
    <2> DEFINE e == Max(DOMAIN wt)
    <2>2. e \in DOMAIN wt /\ \A d \in DOMAIN wt : e >= d
      BY <2>1, Extremes DEF WeightTable
    <2>3. \A d \in DOMAIN wt : d \in Int
      BY DEF WeightTable
    <2> HIDE DEF e
    <2>4. {d \in DOMAIN wt : d <= e} = DOMAIN wt
      BY <2>2, <2>3
    <2>5. Cumulative(wt, e) = SumFunction(wt)
      BY <2>4 DEF Cumulative, SumFunction
    <2>6. Cumulative(wt, e) \in DOMAIN T
      <3>1. DOMAIN T = {Cumulative(wt, d) : d \in DOMAIN wt}
        BY Table
      <3> QED
        BY <2>2, <3>1
    <2>7. Cumulative(wt, e) > k
      BY <1>6, <2>5
    <2> QED
      BY <1>1, <2>6, <2>7
  <1> QED
    BY <1>4, <1>5, <1>6 DEF AtEnd, ErrorsAt

\* A sum of natural numbers grows with the set.
LEMMA SumMonotonic ==
    ASSUME NEW fun, NEW S, IsFiniteSet(S), \A x \in S : fun[x] \in Nat, NEW T \in SUBSET S
    PROVE  SumFunctionOnSet(fun, T) <= SumFunctionOnSet(fun, S)
  <1> DEFINE sum(s) == SumFunctionOnSet(fun, s)
             Bad == {s \in SUBSET S : T \subseteq s /\ ~(sum(T) <= sum(s))}
  <1> SUFFICES ASSUME Bad # {} PROVE FALSE
    OBVIOUS
  <1>1. \A s \in SUBSET S : IsFiniteSet(s) /\ sum(s) \in Int
    BY SumInt, FS_Subset
  <1>2. PICK s \in Bad : IsFiniteSet(s) /\ \A x \in s : s \ {x} \notin Bad
    <2>1. Bad \in SUBSET (SUBSET S)
      OBVIOUS
    <2> HIDE DEF Bad
    <2> QED
      BY <2>1, SmallestSet
  <1>3. s # T
    BY <1>1
  <1>4. PICK x \in s : x \notin T
    BY <1>3
  <1>5. sum(s) = fun[x] + sum(s \ {x})
    BY <1>2, SumRemove
  <1> HIDE DEF sum
  <1>6. sum(T) <= sum(s \ {x})
    BY <1>2, <1>4
  <1>7. fun[x] \in Nat /\ sum(T) \in Int /\ sum(s) \in Int /\ sum(s \ {x}) \in Int
    BY <1>1
  <1> QED
    BY <1>5, <1>6, <1>7

\* Positive weights that sum to 1 give every error just its share of the draws.
LEMMA Shares ==
    ASSUME NEW wt, WeightTable(wt), NEW o, o.errors = error_by_cumulative_p(wt),
           \A e \in DOMAIN wt : wt[e] > 0, SumFunction(wt) = Denom, NEW e \in DOMAIN wt
    PROVE  Cardinality({k \in Draw : ErrorsAt(o, k) = {e}}) = wt[e]
  <1> DEFINE T == error_by_cumulative_p(wt)
             C(d) == Cumulative(wt, d)
             Upto(d) == {x \in DOMAIN wt : x <= d}
             Below(d) == Upto(d) \ {d}
  <1>0. Denom \in Nat \ {0}
    BY PlanAssumption
  <1>1. DOMAIN wt \in SUBSET Int /\ IsFiniteSet(DOMAIN wt) /\ \A d \in DOMAIN wt : wt[d] \in Nat \ {0}
    BY DEF WeightTable
  <1>2. \A d \in DOMAIN wt : d \in Upto(d) /\ Upto(d) \in SUBSET DOMAIN wt /\ IsFiniteSet(Upto(d))
    BY <1>1, FS_Subset
  <1>3. \A d \in DOMAIN wt : C(d) = SumFunctionOnSet(wt, Upto(d)) /\ C(d) \in Int
    BY Table DEF Cumulative
  <1>4. ASSUME NEW d \in DOMAIN wt
        PROVE  /\ C(d) = wt[d] + SumFunctionOnSet(wt, Below(d))
               /\ SumFunctionOnSet(wt, Below(d)) \in Nat
    <2>1. \A x \in Upto(d) : wt[x] \in Int
      BY <1>1
    <2>2. SumFunctionOnSet(wt, Upto(d)) = wt[d] + SumFunctionOnSet(wt, Below(d))
      BY <1>2, <2>1, SumRemove
    <2>3. IsFiniteSet(Below(d)) /\ \A x \in Below(d) : wt[x] \in Nat
      BY <1>1, <1>2, FS_Subset
    <2>4. SumFunctionOnSet(wt, Below(d)) \in Int
      BY <2>3, SumInt
    <2>5. SumFunctionOnSet(wt, {}) <= SumFunctionOnSet(wt, Below(d))
      BY <2>3, SumMonotonic
    <2>6. SumFunctionOnSet(wt, {}) = 0
      BY FS_EmptySet, SumStep
    <2> QED
      BY <1>3, <2>2, <2>4, <2>5, <2>6
  <1>5. ASSUME NEW d \in DOMAIN wt, NEW x \in DOMAIN wt, d < x
        PROVE  C(d) <= C(x) - wt[x] /\ C(d) < C(x)
    <2>1. Upto(d) \in SUBSET Below(x)
      BY <1>1, <1>5
    <2>2. IsFiniteSet(Below(x)) /\ \A y \in Below(x) : wt[y] \in Nat
      BY <1>1, <1>2, FS_Subset
    <2>3. SumFunctionOnSet(wt, Upto(d)) <= SumFunctionOnSet(wt, Below(x))
      BY <2>1, <2>2, SumMonotonic
    <2> QED
      BY <1>1, <1>3, <1>4, <2>3
  <1>6. C(e) <= Denom
    <2>1. SumFunctionOnSet(wt, Upto(e)) <= SumFunctionOnSet(wt, DOMAIN wt)
      BY <1>1, <1>2, SumMonotonic
    <2> QED
      BY <1>3, <2>1 DEF SumFunction
  <1>7. DOMAIN T = {C(d) : d \in DOMAIN wt}
    BY Table
  <1>8. \A d \in DOMAIN wt : T[C(d)] = d
    <2> SUFFICES ASSUME NEW d \in DOMAIN wt PROVE T[C(d)] = d
      OBVIOUS
    <2>1. C(d) \in DOMAIN T
      BY <1>7
    <2>2. T[C(d)] \in DOMAIN wt /\ C(T[C(d)]) = C(d) /\ d <= T[C(d)]
      BY <2>1, Table
    <2> DEFINE y == T[C(d)]
    <2>3. y \in DOMAIN wt /\ C(y) = C(d) /\ d <= y /\ C(d) \in Int
      BY <1>3, <2>2
    <2> HIDE DEF y
    <2>4. y \in Int /\ d \in Int
      BY <1>1, <2>3
    <2>5. ~(d < y)
      BY <1>5, <2>3
    <2>6. y = d
      BY <2>3, <2>4, <2>5
    <2> QED
      BY <2>6 DEF y
  <1> HIDE DEF C, T
  <1>9. ASSUME NEW k \in Int, C(e) - wt[e] <= k, k < C(e)
        PROVE  ErrorsAt(o, k) = {e}
    <2> DEFINE A == AtOrAbove(o, k)
    <2>1. A = {c \in DOMAIN T : c > k}
      BY DEF AtOrAbove, T
    <2>2. C(e) \in A
      BY <1>3, <1>7, <1>9, <2>1
    <2>3. ~AtEnd(o, k)
      BY <2>2 DEF AtEnd
    <2>4. Min(A) \in A /\ Min(A) <= C(e) /\ ErrorsAt(o, k) = {T[Min(A)]}
      BY <2>2, <2>3, Found DEF T
    <2>5. PICK d \in DOMAIN wt : Min(A) = C(d)
      BY <1>7, <2>1, <2>4
    <2>6. C(d) > k /\ C(d) <= C(e) /\ C(d) \in Int /\ C(e) \in Int
      BY <1>3, <2>1, <2>4, <2>5
    <2>7. ~(d < e) /\ ~(e < d)
      BY <1>1, <1>5, <1>9, <2>6
    <2>8. d = e
      BY <1>1, <2>7
    <2> QED
      BY <1>8, <2>4, <2>5, <2>8
  <1>10. ASSUME NEW k \in Draw, ErrorsAt(o, k) = {e}
         PROVE  C(e) - wt[e] <= k /\ k < C(e)
    <2> DEFINE A == AtOrAbove(o, k)
    <2>0. k \in Nat
      BY <1>0 DEF Draw
    <2>1. A = {c \in DOMAIN T : c > k}
      BY DEF AtOrAbove, T
    <2>2. ~AtEnd(o, k)
      BY <1>10 DEF ErrorsAt, NoError, Garbage
    <2>3. Min(A) \in A /\ (\A c \in A : Min(A) <= c) /\ ErrorsAt(o, k) = {T[Min(A)]}
      BY <2>0, <2>2, Found DEF T
    <2>4. PICK d \in DOMAIN wt : Min(A) = C(d)
      BY <1>7, <2>1, <2>3
    <2>5. d = e
      BY <1>8, <1>10, <2>3, <2>4
    <2>6. C(e) > k /\ C(e) \in Int /\ \A c \in A : C(e) <= c
      BY <1>3, <2>1, <2>3, <2>4, <2>5
    <2>7. ASSUME k < C(e) - wt[e] PROVE FALSE
      <3>1. SumFunctionOnSet(wt, Below(e)) > k
        BY <1>1, <1>3, <1>4, <2>0, <2>7
      <3>2. Below(e) # {}
        <4> SUFFICES ASSUME Below(e) = {} PROVE FALSE
          OBVIOUS
        <4>1. SumFunctionOnSet(wt, {}) = 0
          BY FS_EmptySet, SumStep
        <4> QED
          BY <2>0, <3>1, <4>1
      <3> DEFINE m == Max(Below(e))
      <3>3. Below(e) \in SUBSET Int /\ IsFiniteSet(Below(e))
        BY <1>1, <1>2, FS_Subset
      <3>4. m \in Below(e) /\ \A x \in Below(e) : m >= x
        <4> HIDE DEF Below
        <4> QED
          BY <3>2, <3>3, Extremes
      <3> HIDE DEF m
      <3>5. m \in DOMAIN wt /\ m < e
        BY <1>1, <3>4
      <3>6. Upto(m) = Below(e)
        BY <1>1, <3>4, <3>5
      <3>7. C(m) > k
        BY <1>3, <3>1, <3>5, <3>6
      <3>8. C(m) \in A
        BY <1>7, <2>1, <3>5, <3>7
      <3>9. C(m) < C(e) /\ C(m) \in Int
        BY <1>3, <1>5, <3>5
      <3> QED
        BY <2>6, <3>8, <3>9
    <2> QED
      BY <1>1, <1>3, <2>0, <2>6, <2>7
  <1>11. C(e) - wt[e] \in Nat /\ C(e) \in Int /\ wt[e] \in Nat \ {0}
    <2> DEFINE z == SumFunctionOnSet(wt, Below(e))
    <2>1. C(e) = wt[e] + z /\ z \in Nat /\ wt[e] \in Nat \ {0}
      BY <1>1, <1>4
    <2> HIDE DEF z
    <2> QED
      BY <2>1
  <1>12. {k \in Draw : ErrorsAt(o, k) = {e}} = (C(e) - wt[e]) .. (C(e) - 1)
    <2>1. ASSUME NEW k \in Draw, ErrorsAt(o, k) = {e} PROVE k \in (C(e) - wt[e]) .. (C(e) - 1)
      <3>1. k \in Int
        BY <1>0 DEF Draw
      <3> QED
        BY <1>10, <1>11, <2>1, <3>1
    <2>2. ASSUME NEW k \in (C(e) - wt[e]) .. (C(e) - 1) PROVE k \in Draw /\ ErrorsAt(o, k) = {e}
      <3>1. k \in Int /\ C(e) - wt[e] <= k /\ k < C(e)
        BY <1>11
      <3>2. k \in Draw
        BY <1>0, <1>6, <1>11, <3>1 DEF Draw
      <3> QED
        BY <1>9, <3>1, <3>2
    <2> QED
      BY <2>1, <2>2
  <1>13. Cardinality((C(e) - wt[e]) .. (C(e) - 1)) = wt[e]
    <2> DEFINE a == C(e) - wt[e]
               b == C(e) - 1
    <2>1. a \in Int /\ b \in Int /\ a <= b /\ b - a + 1 = wt[e]
      BY <1>11
    <2> HIDE DEF a, b
    <2>2. Cardinality(a .. b) = b - a + 1
      BY <2>1, FS_Interval
    <2> QED
      BY <2>1, <2>2 DEF a, b
  <1> QED
    BY <1>12, <1>13
-----------------------------------------------------------------------------
(* Delays and registers.                                                    *)

\* A drawn delay is an int, and a positive one at most what the plan allows,
\* also when the allowed maximum does not fit in an int.
LEMMA DelayRange ==
    ASSUME NEW o, o.max_delay \in Nat, NEW d \in Delays(o)
    PROVE  d \in -IntMax - 1 .. IntMax /\ (d > 0 => d <= o.max_delay)
  <1>1. IntMax \in Nat /\ IntSpan \in Nat \ {0} /\ IntSpan = 2 * (IntMax + 1)
    BY PlanAssumption DEF IntSpan
  <1> DEFINE m == o.max_delay
             u0 == m % IntSpan
  <1>2. u0 \in 0 .. IntSpan - 1 /\ u0 <= m
    BY <1>1
  <1>3. PICK u \in 0 .. u0 : d = ToInt(u)
    BY DEF Delays
  <1> HIDE DEF u0
  <1>4. u \in Nat /\ u < IntSpan /\ u <= m
    BY <1>1, <1>2
  <1>5. u % IntSpan = u
    BY <1>1, <1>4
  <1>6. d = IF u <= IntMax THEN u ELSE u - IntSpan
    BY <1>3, <1>5 DEF ToInt
  <1> QED
    BY <1>1, <1>4, <1>6

\* The registers hold the arguments of a call.
Arguments(r, c) ==
    r.RDI = c[2] /\ r.RSI = c[3] /\ r.RDX = c[4] /\ r.R10 = c[5] /\ r.R8 = c[6] /\ r.R9 = c[7]

\* The kernel is given the call the registers were trapped with.
LEMMA ContinuedAsCalled ==
    ASSUME NEW c \in [1 .. 7 -> Int], NEW r, r.RAX = c[1], Arguments(r, c)
    PROVE  Continued(r) = c
  <1>1. Continued(r) = <<c[1], c[2], c[3], c[4], c[5], c[6], c[7]>>
    BY DEF Continued, syscall, Kernel, Arguments
  <1>2. c = <<c[1], c[2], c[3], c[4], c[5], c[6], c[7]>>
    OBVIOUS
  <1> QED
    BY <1>1, <1>2

\* A predicate is given the value of the call that it names.
LEMMA SeenAsCalled ==
    ASSUME NEW c \in [1 .. 7 -> Int], NEW r, r.RAX = c[1], Arguments(r, c),
           NEW e \in sysfail_invocation_predicate_t, e.via = "c" => e.n <= 5
    PROVE  LET i == IF e.via = "c" THEN e.n + 2 ELSE e.n + 1
           IN  i \in 1 .. 7 /\ Seen(e, r) = c[i]
  <1>1. CASE e.via = "c"
    <2>1. e.n \in 0 .. 5
      BY <1>1 DEF sysfail_invocation_predicate_t
    <2>2. sysfail_syscall_arg(r, e.n) = c[e.n + 2]
      BY <2>1 DEF sysfail_syscall_arg, Arguments
    <2> QED
      BY <1>1, <2>1, <2>2 DEF Seen
  <1>2. CASE e.via # "c"
    <2>1. e.n \in 0 .. 6
      BY <1>2 DEF sysfail_invocation_predicate_t
    <2> DEFINE s == <<r.RAX, r.RDI, r.RSI, r.RDX, r.R10, r.R8, r.R9>>
    <2>2. \A j \in 1 .. 7 : s[j] = c[j]
      BY DEF Arguments
    <2>3. Len(s) = 7
      OBVIOUS
    <2>4. p(e.n, r)[e.n + 1] = s[e.n + 1]
      BY <2>1, <2>3 DEF p
    <2> HIDE DEF s
    <2> QED
      BY <1>2, <2>1, <2>2, <2>4 DEF Seen
  <1> QED
    BY <1>1, <1>2
=============================================================================
