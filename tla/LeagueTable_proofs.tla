------------------------- MODULE LeagueTable_proofs -------------------------
(***************************************************************************)
(* Theorems about the columns of the table and the tallies of the players, *)
(* for any number of teams, matches, players and requests.  What they add  *)
(* up are sums over sets, which the community modules define by recursion  *)
(* over an element CHOOSEn; the first part shows that such a sum may be    *)
(* taken apart at any of its elements.                                     *)
(***************************************************************************)
EXTENDS LeagueTable, MatchLedger_proofs, FiniteSetTheorems

-----------------------------------------------------------------------------
(* Sums. *)

\* g[s] is the sum of F over s, for every subset s of S, as MapThenSumSet
\* computes it.
SumFn(F, S, g) ==
  g = [s \in SUBSET S |-> IF s = {} THEN 0
                          ELSE LET x == CHOOSE x \in s : TRUE
                               IN  F[x] + g[s \ {x}]]

\* The sum of F over S.
Sum(F, S) == (CHOOSE g : SumFn(F, S, g))[S]

\* Induction over the subsets of a finite set, for a set of sets instead of an
\* operator: what holds of a set if it holds of its proper subsets holds of all.
LEMMA SubsetInduction ==
  ASSUME NEW S, IsFiniteSet(S), NEW A,
         \A s \in SUBSET S : (\A u \in SUBSET s : u # s => u \in A) => s \in A
  PROVE  \A s \in SUBSET S : s \in A
<1>. DEFINE rest == {s \in SUBSET S : s \notin A}
<1>. SUFFICES ASSUME rest # {} PROVE FALSE
  OBVIOUS
<1>. DEFINE R == StrictSubsetOrdering(S)
            D == FiniteSubsetsOf(S)
<1>1. IsWellFoundedOn(R, D) /\ rest \subseteq D
  <2>1. IsWellFoundedOn(R, D)
    BY FS_StrictSubsetOrderingWellFounded, Zenon
  <2>2. D = SUBSET S
    BY FS_FiniteSubsetsOfFinite, Zenon
  <2>. HIDE DEF R, D
  <2>. QED BY <2>1, <2>2
<1>2. \E s \in rest : \A u \in rest : ~ (<<u, s>> \in R)
  <2>. HIDE DEF R, D, rest
  <2>. QED BY <1>1, WFMin
<1>3. PICK s \in rest : \A u \in rest : ~ (<<u, s>> \in StrictSubsetOrdering(S))
  BY <1>2
<1>4. ASSUME NEW u \in SUBSET s, u # s PROVE u \in A
  <2>1. <<u, s>> \in StrictSubsetOrdering(S)
    BY <1>4 DEF StrictSubsetOrdering
  <2>2. u \in SUBSET S
    OBVIOUS
  <2>. QED BY <2>1, <2>2, <1>3
<1>. QED BY <1>3, <1>4

\* What the definition says of one set.
LEMMA SumFnUnfold ==
  ASSUME NEW S, NEW F, NEW g, SumFn(F, S, g), NEW s \in SUBSET S
  PROVE  /\ s = {} => g[s] = 0
         /\ s # {} => \E x \in s : /\ x = CHOOSE y \in s : TRUE
                                   /\ g[s] = F[x] + g[s \ {x}]
<1>. DEFINE x == CHOOSE y \in s : TRUE
<1>1. g[s] = IF s = {} THEN 0 ELSE F[x] + g[s \ {x}]
  BY DEF SumFn
<1>2. s # {} => x \in s
  OBVIOUS
<1>. HIDE DEF x
<1>3. s # {} => x \in s /\ g[s] = F[x] + g[s \ {x}]
  BY <1>1, <1>2
<1>. QED BY <1>1, <1>3 DEF x

\* Two computations agree on the sets they share if the summands do.
LEMMA SumFnAgree ==
  ASSUME NEW S, IsFiniteSet(S), NEW T, NEW F, NEW G, NEW g, NEW h,
         SumFn(F, S, g), SumFn(G, T, h), S \subseteq T,
         \A x \in S : F[x] = G[x]
  PROVE  \A s \in SUBSET S : g[s] = h[s]
<1>. DEFINE A == {s \in SUBSET S : g[s] = h[s]}
<1>1. ASSUME NEW s \in SUBSET S, \A u \in SUBSET s : u # s => u \in A
      PROVE  s \in A
  <2>1. s \in SUBSET T
    OBVIOUS
  <2>2. CASE s = {}
    BY <2>1, <2>2, SumFnUnfold
  <2>3. CASE s # {}
    <3>1. PICK x \in s : x = (CHOOSE y \in s : TRUE) /\ g[s] = F[x] + g[s \ {x}]
      BY <2>3, SumFnUnfold
    <3>2. PICK z \in s : z = (CHOOSE y \in s : TRUE) /\ h[s] = G[z] + h[s \ {z}]
      BY <2>1, <2>3, SumFnUnfold
    <3>3. x = z
      BY <3>1, <3>2
    <3>4. g[s \ {x}] = h[s \ {x}]
      BY <1>1, <3>1
    <3>. QED BY <3>1, <3>2, <3>3, <3>4
  <2>. QED BY <2>2, <2>3
<1>2. \A s \in SUBSET S : s \in A
  <2>. HIDE DEF A
  <2>. QED BY <1>1, SubsetInduction
<1>. QED BY <1>2

\* The recursion has a solution over every finite set.
LEMMA SumFnExists ==
  ASSUME NEW S, IsFiniteSet(S), NEW F
  PROVE  \E g : SumFn(F, S, g)
<1>. DEFINE A == {s \in SUBSET S : \E g : SumFn(F, s, g)}
            Of(u) == CHOOSE g : SumFn(F, u, g)
<1>1. ASSUME NEW s \in SUBSET S, \A u \in SUBSET s : u # s => u \in A
      PROVE  s \in A
  <2>. DEFINE c == CHOOSE y \in s : TRUE
              h == [t \in SUBSET s |-> IF t # s THEN Of(t)[t]
                                       ELSE IF s = {} THEN 0
                                       ELSE F[c] + Of(s \ {c})[s \ {c}]]
  <2>1. \A u \in SUBSET s : u # s => SumFn(F, u, Of(u))
    BY <1>1
  <2>2. ASSUME NEW t \in SUBSET s, t # {}, NEW x, x = CHOOSE y \in t : TRUE
        PROVE  h[t] = F[x] + h[t \ {x}]
    <3>1. x \in t /\ t \ {x} # s /\ t \ {x} # t /\ t \ {x} \in SUBSET s
      BY <2>2
    <3>2. h[t \ {x}] = Of(t \ {x})[t \ {x}]
      BY <3>1
    <3>3. CASE t = s
      BY <2>2, <3>2, <3>3
    <3>4. CASE t # s
      <4>1. h[t] = Of(t)[t]
        BY <3>4
      <4>2. PICK z \in t : z = (CHOOSE y \in t : TRUE)
                          /\ Of(t)[t] = F[z] + Of(t)[t \ {z}]
        <5>1. SumFn(F, t, Of(t))
          BY <2>1, <3>4
        <5>. HIDE DEF Of
        <5>. QED BY <5>1, <2>2, SumFnUnfold
      <4>3. Of(t)[t \ {x}] = Of(t \ {x})[t \ {x}]
        <5>1. SumFn(F, t, Of(t)) /\ SumFn(F, t \ {x}, Of(t \ {x}))
          BY <2>1, <3>1, <3>4
        <5>2. IsFiniteSet(t \ {x})
          BY FS_Subset
        <5>. HIDE DEF Of
        <5>. QED BY <5>1, <5>2, SumFnAgree
      <4>. QED BY <4>1, <4>2, <4>3, <3>2, <2>2
    <3>. QED BY <3>3, <3>4
  <2>3. h[{}] = 0
    <3>1. CASE s = {}
      BY <3>1
    <3>2. CASE s # {}
      <4>1. h[{}] = Of({})[{}]
        BY <3>2
      <4>2. SumFn(F, {}, Of({}))
        BY <2>1, <3>2
      <4>. HIDE DEF Of
      <4>3. Of({})[{}] = 0
        BY <4>2, SumFnUnfold
      <4>. QED BY <4>1, <4>3
    <3>. QED BY <3>1, <3>2
  <2>4. \A t \in SUBSET s :
          h[t] = IF t = {} THEN 0
                 ELSE LET x == CHOOSE y \in t : TRUE IN F[x] + h[t \ {x}]
    <3>. HIDE DEF h
    <3>. QED BY <2>2, <2>3
  <2>5. h = [t \in SUBSET s |-> h[t]]
    OBVIOUS
  <2>. HIDE DEF h
  <2>6. SumFn(F, s, h)
    BY <2>4, <2>5 DEF SumFn
  <2>. QED BY <2>6
<1>2. \A s \in SUBSET S : s \in A
  <2>. HIDE DEF A
  <2>. QED BY <1>1, SubsetInduction
<1>. QED BY <1>2

\* Any solution of the recursion gives the sum of every subset.
LEMMA SumOfSubset ==
  ASSUME NEW S, IsFiniteSet(S), NEW F, NEW g, SumFn(F, S, g), NEW s \in SUBSET S
  PROVE  Sum(F, s) = g[s]
<1>. DEFINE h == CHOOSE f : SumFn(F, s, f)
<1>1. IsFiniteSet(s)
  BY FS_Subset
<1>2. \E f : SumFn(F, s, f)
  BY <1>1, SumFnExists
<1>3. SumFn(F, s, h)
  BY <1>2
<1>4. Sum(F, s) = h[s]
  BY DEF Sum
<1>. HIDE DEF h
<1>5. h[s] = g[s]
  BY <1>1, <1>3, SumFnAgree
<1>. QED BY <1>4, <1>5

LEMMA SumEmpty == ASSUME NEW F PROVE Sum(F, {}) = 0
<1>1. IsFiniteSet({})
  BY FS_EmptySet
<1>2. PICK g : SumFn(F, {}, g)
  BY <1>1, SumFnExists
<1>3. Sum(F, {}) = g[{}]
  BY <1>1, <1>2, SumOfSubset
<1>. QED BY <1>2, <1>3, SumFnUnfold

\* A sum of integers is one, and it does not matter which summand is taken last.
LEMMA SumRemove ==
  ASSUME NEW S, IsFiniteSet(S), NEW F, \A x \in S : F[x] \in Int
  PROVE  /\ Sum(F, S) \in Int
         /\ \A x \in S : Sum(F, S) = Sum(F, S \ {x}) + F[x]
<1>1. PICK g : SumFn(F, S, g)
  BY SumFnExists
<1>. DEFINE A == {s \in SUBSET S : /\ g[s] \in Int
                                   /\ \A x \in s : g[s] = F[x] + g[s \ {x}]}
<1>2. ASSUME NEW s \in SUBSET S, \A u \in SUBSET s : u # s => u \in A
      PROVE  s \in A
  <2>1. CASE s = {}
    BY <2>1, <1>1, SumFnUnfold
  <2>2. CASE s # {}
    <3>1. PICK z \in s : g[s] = F[z] + g[s \ {z}]
      BY <2>2, <1>1, SumFnUnfold
    <3>2. s \ {z} \in A
      BY <1>2
    <3>3. g[s] \in Int
      BY <3>1, <3>2
    <3>4. ASSUME NEW x \in s, x # z PROVE g[s] = F[x] + g[s \ {x}]
      <4>1. s \ {x} \in A /\ (s \ {z}) \ {x} \in A
        BY <1>2
      <4>2. g[s \ {z}] = F[x] + g[(s \ {z}) \ {x}]
        BY <3>2, <3>4
      <4>3. g[s \ {x}] = F[z] + g[(s \ {x}) \ {z}]
        BY <4>1, <3>4
      <4>4. (s \ {x}) \ {z} = (s \ {z}) \ {x}
        OBVIOUS
      <4>. DEFINE base == g[(s \ {z}) \ {x}]
                  fx == F[x]
                  fz == F[z]
      <4>5. base \in Int /\ fx \in Int /\ fz \in Int
        BY <4>1
      <4>6. g[s] = fz + (fx + base) /\ g[s \ {x}] = fz + base
        BY <4>2, <4>3, <4>4, <3>1
      <4>. HIDE DEF base, fx, fz
      <4>7. g[s] = fx + g[s \ {x}]
        BY <4>5, <4>6
      <4>. QED BY <4>7 DEF fx
    <3>. QED BY <3>1, <3>3, <3>4
  <2>. QED BY <2>1, <2>2
<1>3. \A s \in SUBSET S : s \in A
  <2>. HIDE DEF A
  <2>. QED BY <1>2, SubsetInduction
<1>4. S \in A /\ \A x \in S : S \ {x} \in A
  <2>. HIDE DEF A
  <2>. QED BY <1>3
<1>5. \A s \in SUBSET S : Sum(F, s) = g[s]
  BY <1>1, SumOfSubset
<1>6. /\ g[S] \in Int
      /\ \A x \in S : g[S] = F[x] + g[S \ {x}] /\ g[S \ {x}] \in Int
  BY <1>4
<1>. HIDE DEF A
<1>7. Sum(F, S) = g[S] /\ \A x \in S : Sum(F, S \ {x}) = g[S \ {x}]
  BY <1>5
<1>8. ASSUME NEW x \in S PROVE Sum(F, S) = Sum(F, S \ {x}) + F[x]
  <2>. DEFINE fx == F[x]
              gx == g[S \ {x}]
  <2>1. fx \in Int /\ gx \in Int /\ Sum(F, S) = fx + gx /\ Sum(F, S \ {x}) = gx
    BY <1>6, <1>7
  <2>. HIDE DEF fx, gx
  <2>2. Sum(F, S) = gx + fx
    BY <2>1
  <2>. QED BY <2>1, <2>2 DEF fx
<1>. QED BY <1>6, <1>7, <1>8

\* Equal summands, equal sums.
LEMMA SumSame ==
  ASSUME NEW S, IsFiniteSet(S), NEW F, NEW G, \A x \in S : F[x] = G[x]
  PROVE  Sum(F, S) = Sum(G, S)
<1>1. PICK g : SumFn(F, S, g)
  BY SumFnExists
<1>2. PICK h : SumFn(G, S, h)
  BY SumFnExists
<1>3. g[S] = h[S]
  BY <1>1, <1>2, SumFnAgree
<1>4. Sum(F, S) = g[S]
  BY <1>1, SumOfSubset
<1>5. Sum(G, S) = h[S]
  BY <1>2, SumOfSubset
<1>. QED BY <1>3, <1>4, <1>5

\* F has an integer for every element of S.
IntOn(F, S) == \A y \in S : F[y] \in Int

\* F and G differ at x at most.
OnlyAt(x, F, G, S) == \A y \in S : y # x => F[y] = G[y]

\* Where one summand changes the sum changes by as much.
LEMMA SumChange ==
  ASSUME NEW S, IsFiniteSet(S), NEW F, NEW G, NEW x \in S,
         IntOn(F, S), IntOn(G, S), OnlyAt(x, F, G, S)
  PROVE  Sum(G, S) = Sum(F, S) + (G[x] - F[x])
<1>. USE DEF IntOn, OnlyAt
<1>1. Sum(F, S) = Sum(F, S \ {x}) + F[x] /\ Sum(G, S) = Sum(G, S \ {x}) + G[x]
  BY SumRemove
<1>2. IsFiniteSet(S \ {x})
  BY FS_Subset
<1>3. Sum(F, S \ {x}) = Sum(G, S \ {x})
  BY <1>2, SumSame
<1>4. Sum(F, S \ {x}) \in Int
  BY <1>2, SumRemove
<1>. QED BY <1>1, <1>3, <1>4

\* A summand for one more element.
LEMMA SumAdd ==
  ASSUME NEW S, IsFiniteSet(S), NEW F, NEW G, NEW x, x \notin S,
         \A y \in S : F[y] \in Int /\ G[y] = F[y], G[x] \in Int
  PROVE  Sum(G, S \cup {x}) = Sum(F, S) + G[x]
<1>. DEFINE T == S \cup {x}
<1>1. IsFiniteSet(T)
  BY FS_AddElement
<1>2. x \in T /\ T \ {x} = S /\ \A y \in T : G[y] \in Int
  OBVIOUS
<1>. HIDE DEF T
<1>3. Sum(G, T) = Sum(G, S) + G[x]
  BY <1>1, <1>2, SumRemove
<1>4. Sum(G, S) = Sum(F, S)
  BY SumSame
<1>. QED BY <1>3, <1>4 DEF T

LEMMA SumZero ==
  ASSUME NEW S, IsFiniteSet(S), NEW F, \A x \in S : F[x] = 0
  PROVE  Sum(F, S) = 0
<1>. DEFINE A == {s \in SUBSET S : Sum(F, s) = 0}
<1>1. ASSUME NEW s \in SUBSET S, \A u \in SUBSET s : u # s => u \in A
      PROVE  s \in A
  <2>1. CASE s = {}
    BY <2>1, SumEmpty
  <2>2. CASE s # {}
    <3>1. PICK x \in s : TRUE
      BY <2>2
    <3>2. IsFiniteSet(s) /\ \A y \in s : F[y] \in Int
      BY FS_Subset
    <3>3. Sum(F, s) = Sum(F, s \ {x}) + F[x]
      BY <3>2, SumRemove
    <3>4. Sum(F, s \ {x}) = 0
      BY <1>1
    <3>. QED BY <3>3, <3>4
  <2>. QED BY <2>1, <2>2
<1>2. \A s \in SUBSET S : s \in A
  <2>. HIDE DEF A
  <2>. QED BY <1>1, SubsetInduction
<1>. QED BY <1>2
-----------------------------------------------------------------------------
(* Columns of rows. *)

Cells(rows, c) == [i \in DOMAIN rows |-> rows[i][c]]

\* Column c of a sequence of rows added up.
ColSum(rows, c) == Sum(Cells(rows, c), DOMAIN rows)

LEMMA CellsType ==
  ASSUME NEW R, NEW rows \in Seq(R), NEW c, \A v \in R : v[c] \in Int
  PROVE  /\ IsFiniteSet(DOMAIN rows)
         /\ \A i \in DOMAIN rows : Cells(rows, c)[i] \in Int
         /\ ColSum(rows, c) \in Int
<1>1. Len(rows) \in Nat /\ DOMAIN rows = 1 .. Len(rows)
  BY LenProperties
<1>2. IsFiniteSet(DOMAIN rows)
  BY <1>1, FS_Interval
<1>3. \A i \in DOMAIN rows : rows[i] \in R
  BY <1>1, ElementOfSeq
<1>4. \A i \in DOMAIN rows : Cells(rows, c)[i] \in Int
  BY <1>3 DEF Cells
<1>5. ColSum(rows, c) \in Int
  BY <1>2, <1>4, SumRemove DEF ColSum
<1>. QED BY <1>2, <1>4, <1>5

\* Without rows a column is zero.
LEMMA ColSumEmpty == ASSUME NEW c PROVE ColSum(<<>>, c) = 0
<1>1. DOMAIN <<>> = {}
  OBVIOUS
<1>. QED BY <1>1, SumEmpty DEF ColSum

\* Writing a row changes a column by what the row changes.
LEMMA ColSumChange ==
  ASSUME NEW rows, NEW w, NEW c, NEW i \in DOMAIN rows,
         IsFiniteSet(DOMAIN rows), DOMAIN w = DOMAIN rows,
         \A j \in DOMAIN rows : Cells(rows, c)[j] \in Int /\ Cells(w, c)[j] \in Int,
         \A j \in DOMAIN rows : j # i => w[j] = rows[j]
  PROVE  ColSum(w, c) = ColSum(rows, c) + (w[i][c] - rows[i][c])
<1>. DEFINE S == DOMAIN rows
            F == Cells(rows, c)
            G == Cells(w, c)
<1>1. IsFiniteSet(S) /\ i \in S /\ IntOn(F, S) /\ IntOn(G, S)
  BY DEF IntOn
<1>2. OnlyAt(i, F, G, S)
  BY DEF Cells, OnlyAt
<1>3. F[i] = rows[i][c] /\ G[i] = w[i][c]
  BY DEF Cells
<1>4. ColSum(rows, c) = Sum(F, S) /\ ColSum(w, c) = Sum(G, S)
  BY DEF ColSum
<1>. HIDE DEF S, F, G
<1>5. Sum(G, S) = Sum(F, S) + (G[i] - F[i])
  BY <1>1, <1>2, SumChange
<1>. QED BY <1>3, <1>4, <1>5

LEMMA ColSumWrite ==
  ASSUME NEW R, NEW rows \in Seq(R), NEW c, \A v \in R : v[c] \in Int,
         NEW i \in DOMAIN rows, NEW v \in R
  PROVE  ColSum([rows EXCEPT ![i] = v], c) = ColSum(rows, c) + (v[c] - rows[i][c])
<1>. DEFINE w == [rows EXCEPT ![i] = v]
<1>1. w \in Seq(R) /\ DOMAIN w = DOMAIN rows
  BY WriteElement
<1>2. w[i] = v /\ \A j \in DOMAIN rows : j # i => w[j] = rows[j]
  OBVIOUS
<1>. HIDE DEF w
<1>3. /\ IsFiniteSet(DOMAIN rows)
      /\ \A j \in DOMAIN rows : Cells(rows, c)[j] \in Int /\ Cells(w, c)[j] \in Int
  BY <1>1, CellsType
<1>4. DOMAIN w = DOMAIN rows
  BY <1>1
<1>5. \A j \in DOMAIN rows : j # i => w[j] = rows[j]
  BY <1>2
<1>6. ColSum(w, c) = ColSum(rows, c) + (w[i][c] - rows[i][c])
  BY <1>3, <1>4, <1>5, ColSumChange
<1>. QED BY <1>2, <1>6 DEF w

\* A new row adds its cell.
LEMMA ColSumAppend ==
  ASSUME NEW R, NEW rows \in Seq(R), NEW c, \A v \in R : v[c] \in Int, NEW v \in R
  PROVE  ColSum(Append(rows, v), c) = ColSum(rows, c) + v[c]
<1>. DEFINE w == Append(rows, v)
            S == DOMAIN rows
            k == Len(rows) + 1
            F == Cells(rows, c)
            G == Cells(w, c)
<1>1. /\ w \in Seq(R) /\ DOMAIN w = 1 .. k /\ Len(rows) \in Nat /\ S = 1 .. Len(rows)
      /\ w[k] = v /\ \A j \in S : w[j] = rows[j]
  BY AppendProperties, LenProperties
<1>2. DOMAIN w = S \cup {k} /\ k \notin S
  BY <1>1
<1>3. IsFiniteSet(S) /\ (\A j \in S : F[j] \in Int) /\ \A j \in DOMAIN w : G[j] \in Int
  BY <1>1, CellsType
<1>4. (\A j \in S : G[j] = F[j]) /\ G[k] = v[c] /\ G[k] \in Int
  BY <1>1, <1>2, <1>3 DEF Cells
<1>5. ColSum(rows, c) = Sum(F, S) /\ ColSum(w, c) = Sum(G, S \cup {k})
  BY <1>2 DEF ColSum
<1>. HIDE DEF w, S, F, G, k
<1>6. Sum(G, S \cup {k}) = Sum(F, S) + G[k]
  BY <1>2, <1>3, <1>4, SumAdd
<1>. QED BY <1>4, <1>5, <1>6 DEF w

\* RowSum and the tally of a statistic are such columns.
LEMMA RowSumIsColSum ==
  ASSUME TypeOK, NEW t \in Teams, NEW c \in Columns
  PROVE  RowSum(t, c) = ColSum(standings[t], c)
<1>. DEFINE S == DOMAIN standings[t]
            F == Cells(standings[t], c)
            Eq(f) == f = [s \in SUBSET S |-> IF s = {} THEN 0
                            ELSE LET x == CHOOSE x \in s : TRUE
                                 IN  standings[t][x][c] + f[s \ {x}]]
            it == CHOOSE f : Eq(f)
<1>1. RowSum(t, c) = it[S]
  BY Zenon DEF RowSum, MapThenSumSet, MapThenFoldSet
<1>2. IsFiniteSet(S)
  <2>1. standings[t] \in Seq(Standing)
    BY DEF TypeOK
  <2>2. S = 1 .. Len(standings[t]) /\ Len(standings[t]) \in Nat
    BY <2>1, LenProperties
  <2>. QED BY <2>2, FS_Interval
<1>3. \A f : Eq(f) <=> SumFn(F, S, f)
  BY DEF SumFn, Cells
<1>4. \E f : Eq(f)
  <2>1. \E f : SumFn(F, S, f)
    <3>. HIDE DEF F, S
    <3>. QED BY <1>2, SumFnExists
  <2>. HIDE DEF Eq
  <2>. QED BY <2>1, <1>3
<1>5. SumFn(F, S, it)
  BY <1>3, <1>4
<1>. HIDE DEF it, F, S
<1>6. Sum(F, S) = it[S]
  BY <1>2, <1>5, SumOfSubset
<1>. QED BY <1>1, <1>6 DEF ColSum, F, S
-----------------------------------------------------------------------------
(* The table is what was posted to it. *)

\* What posting p gives team t in column c, by match.
Share(p, t, c) ==
  [m \in Matches |-> (IF Home[m] = t THEN p[m]["home"][c] ELSE 0)
                   + (IF Away[m] = t THEN p[m]["away"][c] ELSE 0)]

\* d is posted for side s of match m.
Posting(p, q, m, s, d) == q = [p EXCEPT ![m][s] = Plus(@, d)]

\* Every line holds what the matches of its team have posted, in any regime.
AddedUp ==
  \A t \in Teams, c \in Columns :
    ColSum(standings[t], c) = Sum(Share(posted, t, c), Matches)

\* A handler writes to a row that is there.
InPlace(r) ==
  /\ pc[r] = "applyHome" => found[r] \in {0} \cup DOMAIN standings[Home[on[r]]]
  /\ pc[r] = "applyAway" => found[r] \in {0} \cup DOMAIN standings[Away[on[r]]]
  /\ pc[r] = "applyStat" => found[r] \in {0} \cup DOMAIN statRows[event[r].player]
Located == \A r \in Requests : InPlace(r)

LEMMA ShareType ==
  ASSUME NEW p \in [Matches -> [Sides -> StatLine]], NEW t \in Teams, NEW c \in Columns
  PROVE  \A m \in Matches : Share(p, t, c)[m] \in Int
<1>. SUFFICES ASSUME NEW m \in Matches PROVE Share(p, t, c)[m] \in Int
  OBVIOUS
<1>1. p[m]["home"] \in StatLine /\ p[m]["away"] \in StatLine
  BY DEF Sides
<1>2. p[m]["home"][c] \in Int /\ p[m]["away"][c] \in Int
  BY <1>1 DEF StatLine
<1>. QED BY <1>2 DEF Share

\* A posting for one side of a match counts for the team of that side and for
\* no other.
LEMMA SharePosted ==
  ASSUME NEW p \in [Matches -> [Sides -> StatLine]], NEW m \in Matches,
         NEW s \in Sides, NEW d \in StatLine, NEW t \in Teams, NEW c \in Columns,
         NEW q, Posting(p, q, m, s, d)
  PROVE  Sum(Share(q, t, c), Matches) =
           Sum(Share(p, t, c), Matches) + (IF t = TeamOf(m, s) THEN d[c] ELSE 0)
<1>. DEFINE F == Share(p, t, c)
            G == Share(q, t, c)
            more == IF t = TeamOf(m, s) THEN d[c] ELSE 0
            h == p[m]["home"][c]
            a == p[m]["away"][c]
            dc == d[c]
<1>0. q = [p EXCEPT ![m][s] = Plus(@, d)]
  BY DEF Posting
<1>1. p[m][s] \in StatLine /\ p[m]["home"] \in StatLine /\ p[m]["away"] \in StatLine
  BY DEF Sides
<1>2. h \in Int /\ a \in Int /\ dc \in Int
  BY <1>1 DEF StatLine
<1>3. /\ q \in [Matches -> [Sides -> StatLine]]
      /\ \A n \in Matches : n # m => q[n] = p[n]
      /\ \A u \in Sides : q[m][u] = IF u = s THEN Plus(p[m][s], d) ELSE p[m][u]
  <2>1. Plus(p[m][s], d) \in StatLine
    BY <1>1, LineType
  <2>. QED BY <1>0, <2>1
<1>4. Plus(p[m][s], d)[c] = p[m][s][c] + dc
  BY DEF Plus
<1>5. IntOn(F, Matches) /\ IntOn(G, Matches)
  BY <1>3, ShareType DEF IntOn
<1>6. OnlyAt(m, F, G, Matches)
  BY <1>3 DEF Share, OnlyAt
<1>7. G[m] - F[m] = more
  <2>1. Home[m] # Away[m]
    BY MatchesAssumption
  <2>2. F[m] = (IF Home[m] = t THEN h ELSE 0) + (IF Away[m] = t THEN a ELSE 0)
    BY DEF Share
  <2>3. G[m] = (IF Home[m] = t THEN q[m]["home"][c] ELSE 0)
             + (IF Away[m] = t THEN q[m]["away"][c] ELSE 0)
    BY DEF Share
  <2>4. CASE s = "home"
    <3>1. q[m]["home"][c] = h + dc /\ q[m]["away"][c] = a
      BY <1>3, <1>4, <2>4 DEF Sides
    <3>2. more = IF Home[m] = t THEN dc ELSE 0
      BY <2>4 DEF TeamOf
    <3>. HIDE DEF F, G, more, h, a, dc
    <3>. QED BY <3>1, <3>2, <2>1, <2>2, <2>3, <1>2
  <2>5. CASE s = "away"
    <3>1. q[m]["home"][c] = h /\ q[m]["away"][c] = a + dc
      BY <1>3, <1>4, <2>5 DEF Sides
    <3>2. more = IF Away[m] = t THEN dc ELSE 0
      BY <2>5 DEF TeamOf
    <3>. HIDE DEF F, G, more, h, a, dc
    <3>. QED BY <3>1, <3>2, <2>1, <2>2, <2>3, <1>2
  <2>. QED BY <2>4, <2>5 DEF Sides
<1>8. IsFiniteSet(Matches)
  BY MatchesAssumption
<1>. HIDE DEF F, G, more
<1>9. Sum(G, Matches) = Sum(F, Matches) + (G[m] - F[m])
  BY <1>5, <1>6, <1>8, SumChange
<1>10. Sum(G, Matches) = Sum(F, Matches) + more
  BY <1>7, <1>9
<1>. QED BY <1>10 DEF F, G, more

\* What an apply step writes it also posts, and it removes no row.
LEMMA AppliedLine ==
  ASSUME TypeOK, NEW r \in Requests, NEW s \in Sides, NEW next,
         found[r] \in {0} \cup DOMAIN standings[TeamOf(on[r], s)],
         ApplyStanding(r, s, next)
  PROVE  \E d \in StatLine :
           /\ Posting(posted, posted', on[r], s, d)
           /\ \A t \in Teams : DOMAIN standings[t] \subseteq DOMAIN standings'[t]
           /\ \A t \in Teams, c \in Columns :
                ColSum(standings'[t], c) = ColSum(standings[t], c)
                  + (IF t = TeamOf(on[r], s) THEN d[c] ELSE 0)
           /\ found[r] # 0 => d = Delta(r, s)
<1>. DEFINE team == TeamOf(on[r], s)
            newT == GetStats(new[r], s)
            Gains(d) == \A t \in Teams, c \in Columns :
                ColSum(standings'[t], c) = ColSum(standings[t], c)
                  + (IF t = team THEN d[c] ELSE 0)
<1>1. team \in Teams /\ on[r] \in Matches
  BY MatchesAssumption DEF TypeOK, TeamOf
<1>2. newT \in StatLine /\ Delta(r, s) \in StatLine
  <2>1. old[r] \in MatchRow /\ new[r] \in MatchRow
    BY DEF TypeOK
  <2>2. newT \in StatLine /\ GetStats(old[r], s) \in StatLine
    BY <2>1, GetStatsType
  <2>. QED BY <2>2, LineType DEF Delta
<1>3. \A c \in Columns, v \in Standing : v[c] \in Int
  BY DEF Standing
<1>4. \A t \in Teams, c \in Columns : ColSum(standings[t], c) \in Int
  <2>. SUFFICES ASSUME NEW t \in Teams, NEW c \in Columns
                PROVE  ColSum(standings[t], c) \in Int
    OBVIOUS
  <2>1. standings[t] \in Seq(Standing)
    BY DEF TypeOK
  <2>. QED BY <2>1, <1>3, CellsType
<1>5. ASSUME NEW rows, NEW d \in StatLine,
             standings' = [standings EXCEPT ![team] = rows],
             \A c \in Columns : ColSum(rows, c) = ColSum(standings[team], c) + d[c]
      PROVE  Gains(d)
  <2>. SUFFICES ASSUME NEW t \in Teams, NEW c \in Columns
                PROVE  ColSum(standings'[t], c) = ColSum(standings[t], c)
                         + (IF t = team THEN d[c] ELSE 0)
    OBVIOUS
  <2>1. CASE t = team
    <3>1. standings'[t] = rows
      BY <1>1, <1>5, <2>1 DEF TypeOK
    <3>. HIDE DEF team
    <3>. QED BY <3>1, <2>1, <1>5
  <2>2. CASE t # team
    <3>1. standings'[t] = standings[t]
      BY <1>1, <1>5, <2>2 DEF TypeOK
    <3>2. ColSum(standings[t], c) \in Int
      BY <1>4
    <3>. HIDE DEF team
    <3>. QED BY <3>1, <3>2, <2>2
  <2>. QED BY <2>1, <2>2
<1>6. standings[team] \in Seq(Standing)
  BY <1>1 DEF TypeOK
<1>7. CASE found[r] # 0
  <2>. DEFINE d == Delta(r, s)
              i == found[r]
              v == Increment(standings[team][i], d)
              rows == [standings[team] EXCEPT ![i] = v]
  <2>1. standings' = [standings EXCEPT ![team] = rows]
        /\ posted' = [posted EXCEPT ![on[r]][s] = Plus(@, d)]
    BY <1>7 DEF ApplyStanding
  <2>2. i \in DOMAIN standings[team]
    BY <1>7
  <2>3. standings[team][i] \in Standing
    BY <1>6, <2>2, LenProperties, ElementOfSeq
  <2>4. v \in Standing
    BY <2>3, <1>2, StandingType
  <2>5. \A c \in Columns : v[c] = standings[team][i][c] + d[c]
    BY <2>3 DEF Increment, Standing, Columns
  <2>6. ASSUME NEW c \in Columns
        PROVE  ColSum(rows, c) = ColSum(standings[team], c) + d[c]
    <3>. DEFINE before == standings[team][i][c]
                dc == d[c]
                total == ColSum(standings[team], c)
    <3>1. ColSum(rows, c) = total + (v[c] - before)
      <4>. HIDE DEF v, i, team
      <4>. QED BY <1>3, <1>6, <2>2, <2>4, ColSumWrite
    <3>2. v[c] = before + dc
      BY <2>5
    <3>3. before \in Int
      BY <2>3, <1>3
    <3>4. dc \in Int
      BY <1>2 DEF StatLine
    <3>5. total \in Int
      BY <1>1, <1>4
    <3>. HIDE DEF before, dc, total, v, rows
    <3>6. ColSum(rows, c) = total + dc
      BY <3>1, <3>2, <3>3, <3>4, <3>5
    <3>. QED BY <3>6 DEF dc, total
  <2>7. Gains(d)
    <3>. HIDE DEF rows, d, team
    <3>1. d \in StatLine
      BY <1>2 DEF d
    <3>2. standings' = [standings EXCEPT ![team] = rows]
      BY <2>1
    <3>. HIDE DEF Gains
    <3>. QED BY <3>1, <3>2, <2>6, <1>5
  <2>8. DOMAIN rows = DOMAIN standings[team]
    OBVIOUS
  <2>9. \A t \in Teams : DOMAIN standings[t] \subseteq DOMAIN standings'[t]
    <3>. HIDE DEF rows, team
    <3>. QED BY <2>1, <2>8 DEF TypeOK
  <2>10. Posting(posted, posted', on[r], s, d)
    BY <2>1 DEF Posting
  <2>. QED BY <2>7, <2>9, <2>10, <1>2
<1>8. CASE found[r] = 0 /\ new[r].status = "COMPLETED"
  <2>. DEFINE v == NewStanding(newT)
              rows == Append(standings[team], v)
  <2>1. standings' = [standings EXCEPT ![team] = rows]
        /\ posted' = [posted EXCEPT ![on[r]][s] = Plus(@, newT)]
    BY <1>8 DEF ApplyStanding
  <2>2. v \in Standing
    BY <1>2, StandingType
  <2>3. \A c \in Columns : v[c] = newT[c]
    BY DEF NewStanding, Columns
  <2>4. \A c \in Columns : ColSum(rows, c) = ColSum(standings[team], c) + newT[c]
    <3>. SUFFICES ASSUME NEW c \in Columns
                  PROVE  ColSum(rows, c) = ColSum(standings[team], c) + v[c]
      BY <2>3
    <3>. HIDE DEF v, team
    <3>. QED BY <1>3, <1>6, <2>2, ColSumAppend
  <2>5. Gains(newT)
    <3>. HIDE DEF rows, newT, team
    <3>. QED BY <1>2, <2>1, <2>4, <1>5
  <2>6. DOMAIN standings[team] \subseteq DOMAIN rows
    <3>. HIDE DEF v, team
    <3>. QED BY <1>6, <2>2, LenProperties, AppendProperties
  <2>7. \A t \in Teams : DOMAIN standings[t] \subseteq DOMAIN standings'[t]
    <3>. HIDE DEF rows, team
    <3>. QED BY <2>1, <2>6 DEF TypeOK
  <2>8. Posting(posted, posted', on[r], s, newT)
    BY <2>1 DEF Posting
  <2>. QED BY <2>5, <2>7, <2>8, <1>2, <1>8
<1>9. CASE found[r] = 0 /\ new[r].status # "COMPLETED"
  <2>1. standings' = standings /\ posted' = posted
    BY <1>9 DEF ApplyStanding
  <2>2. NoStats \in StatLine /\ \A c \in Columns : NoStats[c] = 0
    BY DEF NoStats, StatLine
  <2>3. posted' = [posted EXCEPT ![on[r]][s] = Plus(@, NoStats)]
    <3>1. posted[on[r]][s] \in StatLine
      BY <1>1 DEF TypeOK
    <3>2. Plus(posted[on[r]][s], NoStats) = posted[on[r]][s]
      BY <3>1 DEF Plus, NoStats, StatLine
    <3>. QED BY <3>2, <2>1, <1>1 DEF TypeOK
  <2>4. Gains(NoStats)
    <3>. SUFFICES ASSUME NEW t \in Teams, NEW c \in Columns
                  PROVE  ColSum(standings'[t], c) = ColSum(standings[t], c)
                           + (IF t = team THEN NoStats[c] ELSE 0)
      OBVIOUS
    <3>1. ColSum(standings[t], c) \in Int /\ NoStats[c] = 0
      BY <1>4, <2>2
    <3>. HIDE DEF team
    <3>. QED BY <3>1, <2>1
  <2>5. Posting(posted, posted', on[r], s, NoStats)
    BY <2>3 DEF Posting
  <2>. QED BY <2>1, <2>2, <2>4, <2>5, <1>9
<1>. QED BY <1>7, <1>8, <1>9

\* The other handlers leave alone what a handler knows, and rows stay.
LEMMA LocatedFrame ==
  ASSUME TypeOK, Located, NEW r \in Requests,
         \A q \in Requests : q # r =>
           pc'[q] = pc[q] /\ on'[q] = on[q] /\ event'[q] = event[q] /\ found'[q] = found[q],
         \A t \in Teams : DOMAIN standings[t] \subseteq DOMAIN standings'[t],
         \A p \in Players : DOMAIN statRows[p] \subseteq DOMAIN statRows'[p],
         InPlace(r)'
  PROVE  Located'
<1>. SUFFICES ASSUME NEW q \in Requests, q # r PROVE InPlace(q)'
  BY DEF Located
<1>1. InPlace(q)
  BY DEF Located
<1>2. /\ pc'[q] = pc[q] /\ on'[q] = on[q] /\ event'[q] = event[q]
      /\ found'[q] = found[q]
  OBVIOUS
<1>3. Home[on[q]] \in Teams /\ Away[on[q]] \in Teams
  BY MatchesAssumption DEF TypeOK
<1>4. pc[q] = "applyStat" => event[q].player \in Players
  BY DEF TypeOK, StatsHavePlayer
<1>. QED BY <1>1, <1>2, <1>3, <1>4 DEF InPlace

\* findFirst of a handler that goes on to write.
LEMMA FoundStanding ==
  ASSUME TypeOK, Located, NEW r \in Requests, NEW s \in Sides, NEW go, NEW skip,
         FindStanding(r, s, go, skip), skip \in {"findAway", "publish"},
         go = IF s = "home" THEN "applyHome" ELSE "applyAway"
  PROVE  Located'
<1>. DEFINE rows == standings[TeamOf(on[r], s)]
<1>1. /\ standings' = standings /\ statRows' = statRows
      /\ on' = on /\ event' = event
  BY DEF FindStanding, tables
<1>2. \/ pc' = [pc EXCEPT ![r] = skip] /\ found' = found
      \/ /\ pc' = [pc EXCEPT ![r] = go]
         /\ \E i \in FindFirst(rows) : found' = [found EXCEPT ![r] = i]
  BY DEF FindStanding, Goto
<1>3. \A i \in FindFirst(rows) : i \in {0} \cup DOMAIN rows
  BY DEF FindFirst
<1>4. \A q \in Requests : q # r => pc'[q] = pc[q] /\ found'[q] = found[q]
  BY <1>2 DEF TypeOK
<1>5. InPlace(r)'
  <2>1. CASE pc' = [pc EXCEPT ![r] = skip]
    <3>1. pc'[r] = skip
      BY <2>1 DEF TypeOK
    <3>. QED BY <3>1 DEF InPlace
  <2>2. CASE /\ pc' = [pc EXCEPT ![r] = go]
             /\ \E i \in FindFirst(rows) : found' = [found EXCEPT ![r] = i]
    <3>1. pc'[r] = go /\ found'[r] \in {0} \cup DOMAIN rows
      BY <2>2, <1>3 DEF TypeOK
    <3>2. rows = IF s = "home" THEN standings[Home[on[r]]] ELSE standings[Away[on[r]]]
      BY DEF TeamOf
    <3>. HIDE DEF rows
    <3>. QED BY <1>1, <3>1, <3>2 DEF InPlace, Sides
  <2>. QED BY <1>2, <2>1, <2>2
<1>. QED BY <1>1, <1>4, <1>5, LocatedFrame

\* Writing a line moves the handler on and removes no row.
LEMMA AppliedInPlace ==
  ASSUME TypeOK, Located, NEW r \in Requests, NEW s \in Sides, NEW next,
         ApplyStanding(r, s, next), next \in {"findAway", "publish"},
         found[r] \in {0} \cup DOMAIN standings[TeamOf(on[r], s)]
  PROVE  Located'
<1>1. \A t \in Teams : DOMAIN standings[t] \subseteq DOMAIN standings'[t]
  BY AppliedLine
<1>2. /\ statRows' = statRows /\ on' = on /\ event' = event /\ found' = found
      /\ pc' = [pc EXCEPT ![r] = next]
  BY DEF ApplyStanding, Goto, locals
<1>3. pc'[r] = next /\ \A q \in Requests : q # r => pc'[q] = pc[q]
  BY <1>2 DEF TypeOK
<1>4. InPlace(r)'
  BY <1>3 DEF InPlace
<1>. QED BY <1>1, <1>2, <1>3, <1>4, LocatedFrame

\* What updatePlayerStats writes: one more of the event's kind for its player.
LEMMA CreditedStat ==
  ASSUME TypeOK, Located, NEW r \in Requests, ApplyStat(r)
  PROVE  /\ event[r].player \in Players /\ event[r].type \in StatTypes
         /\ \A p \in Players : DOMAIN statRows[p] \subseteq DOMAIN statRows'[p]
         /\ \A p \in Players, t \in StatTypes :
              ColSum(statRows'[p], t) = ColSum(statRows[p], t)
                + (IF p = event[r].player /\ t = event[r].type THEN 1 ELSE 0)
<1>. DEFINE who == event[r].player
            what == event[r].type
            i == found[r]
            none == [s \in StatTypes |-> 0]
<1>1. who \in Players /\ what \in StatTypes
  BY DEF ApplyStat, TypeOK, StatsHavePlayer
<1>2. i \in {0} \cup DOMAIN statRows[who]
  BY DEF ApplyStat, Located, InPlace
<1>3. \A t \in StatTypes, v \in PlayerStat : v[t] \in Int
  BY DEF PlayerStat
<1>4. \A p \in Players : statRows[p] \in Seq(PlayerStat)
  BY DEF TypeOK
<1>5. \A p \in Players, t \in StatTypes : ColSum(statRows[p], t) \in Int
  <2>. SUFFICES ASSUME NEW p \in Players, NEW t \in StatTypes
                PROVE  ColSum(statRows[p], t) \in Int
    OBVIOUS
  <2>. QED BY <1>3, <1>4, CellsType
<1>6. ASSUME NEW v \in PlayerStat
      PROVE  /\ Credit(v, what) \in PlayerStat
             /\ \A t \in StatTypes :
                  Credit(v, what)[t] = v[t] + (IF t = what THEN 1 ELSE 0)
  <2>1. Credit(v, what) = [v EXCEPT ![what] = v[what] + 1]
    BY DEF Credit
  <2>2. \A t \in StatTypes : v[t] \in Nat
    BY DEF PlayerStat
  <2>. HIDE DEF what
  <2>. QED BY <1>1, <2>1, <2>2 DEF PlayerStat
<1>7. ASSUME NEW rows, statRows' = [statRows EXCEPT ![who] = rows],
             DOMAIN statRows[who] \subseteq DOMAIN rows,
             \A t \in StatTypes : ColSum(rows, t) = ColSum(statRows[who], t)
                                    + (IF t = what THEN 1 ELSE 0)
      PROVE  /\ \A p \in Players : DOMAIN statRows[p] \subseteq DOMAIN statRows'[p]
             /\ \A p \in Players, t \in StatTypes :
                  ColSum(statRows'[p], t) = ColSum(statRows[p], t)
                    + (IF p = who /\ t = what THEN 1 ELSE 0)
  <2>1. statRows'[who] = rows /\ \A p \in Players : p # who => statRows'[p] = statRows[p]
    BY <1>1, <1>7 DEF TypeOK
  <2>. HIDE DEF who, what
  <2>2. ASSUME NEW p \in Players, NEW t \in StatTypes
        PROVE  ColSum(statRows'[p], t) = ColSum(statRows[p], t)
                 + (IF p = who /\ t = what THEN 1 ELSE 0)
    <3>1. CASE p = who
      BY <3>1, <2>1, <1>7
    <3>2. CASE p # who
      BY <3>2, <2>1, <1>5
    <3>. QED BY <3>1, <3>2
  <2>. QED BY <1>7, <2>1, <2>2
<1>8. CASE i # 0
  <2>. DEFINE v == Credit(statRows[who][i], what)
              rows == [statRows[who] EXCEPT ![i] = v]
  <2>1. statRows' = [statRows EXCEPT ![who] = rows]
    BY <1>8 DEF ApplyStat
  <2>2. i \in DOMAIN statRows[who] /\ statRows[who][i] \in PlayerStat
    BY <1>1, <1>2, <1>4, <1>8, LenProperties, ElementOfSeq
  <2>3. /\ v \in PlayerStat
        /\ \A t \in StatTypes : v[t] = statRows[who][i][t] + (IF t = what THEN 1 ELSE 0)
    <3>. HIDE DEF what, i, who
    <3>. QED BY <2>2, <1>6
  <2>4. ASSUME NEW t \in StatTypes
        PROVE  ColSum(rows, t) = ColSum(statRows[who], t) + (IF t = what THEN 1 ELSE 0)
    <3>. DEFINE before == statRows[who][i][t]
                total == ColSum(statRows[who], t)
                more == IF t = what THEN 1 ELSE 0
    <3>1. ColSum(rows, t) = total + (v[t] - before)
      <4>1. /\ statRows[who] \in Seq(PlayerStat) /\ v \in PlayerStat
            /\ i \in DOMAIN statRows[who] /\ \A u \in PlayerStat : u[t] \in Int
        BY <1>1, <1>3, <1>4, <2>2, <2>3
      <4>. HIDE DEF v, i, who, what, more
      <4>. QED BY <4>1, ColSumWrite
    <3>2. v[t] = before + more /\ before \in Int /\ more \in Int /\ total \in Int
      BY <2>2, <2>3, <1>1, <1>3, <1>5
    <3>. HIDE DEF before, more, total, v, rows
    <3>3. ColSum(rows, t) = total + more
      BY <3>1, <3>2
    <3>. QED BY <3>3 DEF more, total
  <2>5. DOMAIN statRows[who] \subseteq DOMAIN rows
    OBVIOUS
  <2>. HIDE DEF rows, who, what
  <2>6. /\ \A p \in Players : DOMAIN statRows[p] \subseteq DOMAIN statRows'[p]
        /\ \A p \in Players, t \in StatTypes :
             ColSum(statRows'[p], t) = ColSum(statRows[p], t)
               + (IF p = who /\ t = what THEN 1 ELSE 0)
    BY <2>1, <2>4, <2>5, <1>7
  <2>. QED BY <2>6, <1>1 DEF who, what
<1>9. CASE i = 0
  <2>. DEFINE v == Credit(none, what)
              rows == Append(statRows[who], v)
  <2>1. statRows' = [statRows EXCEPT ![who] = rows]
    BY <1>9 DEF ApplyStat
  <2>2. none \in PlayerStat /\ \A t \in StatTypes : none[t] = 0
    BY DEF PlayerStat
  <2>3. v \in PlayerStat /\ \A t \in StatTypes : v[t] = IF t = what THEN 1 ELSE 0
    <3>1. v \in PlayerStat /\ \A t \in StatTypes : v[t] = none[t] + (IF t = what THEN 1 ELSE 0)
      <4>. HIDE DEF none, what
      <4>. QED BY <2>2, <1>6
    <3>. HIDE DEF v, what, none
    <3>. QED BY <2>2, <3>1
  <2>4. \A t \in StatTypes :
          ColSum(rows, t) = ColSum(statRows[who], t) + (IF t = what THEN 1 ELSE 0)
    <3>. SUFFICES ASSUME NEW t \in StatTypes
                  PROVE  ColSum(rows, t) = ColSum(statRows[who], t) + v[t]
      BY <2>3
    <3>. HIDE DEF v, who
    <3>. QED BY <1>1, <1>3, <1>4, <2>3, ColSumAppend
  <2>5. DOMAIN statRows[who] \subseteq DOMAIN rows
    <3>. HIDE DEF v, who
    <3>. QED BY <1>1, <1>4, <2>3, LenProperties, AppendProperties
  <2>. HIDE DEF rows, who, what
  <2>6. /\ \A p \in Players : DOMAIN statRows[p] \subseteq DOMAIN statRows'[p]
        /\ \A p \in Players, t \in StatTypes :
             ColSum(statRows'[p], t) = ColSum(statRows[p], t)
               + (IF p = who /\ t = what THEN 1 ELSE 0)
    BY <2>1, <2>4, <2>5, <1>7
  <2>. QED BY <2>6, <1>1 DEF who, what
<1>. QED BY <1>8, <1>9

\* No step loses a row a handler found, nor makes it look for one not there.
LEMMA LocatedStep == TypeOK /\ Located /\ [Next]_vars => Located'
<1>. SUFFICES ASSUME TypeOK, Located, [Next]_vars PROVE Located'
  OBVIOUS
<1>1. ASSUME UNCHANGED <<standings, statRows, pc, on, event, found>> PROVE Located'
  BY <1>1 DEF Located, InPlace
<1>2. ASSUME NEW r \in Requests, UNCHANGED <<standings, statRows>>,
             pc'[r] \notin {"applyHome", "applyAway", "applyStat"},
             \A q \in Requests : q # r =>
               pc'[q] = pc[q] /\ on'[q] = on[q] /\ event'[q] = event[q] /\ found'[q] = found[q]
      PROVE  Located'
  <2>1. InPlace(r)'
    BY <1>2 DEF InPlace
  <2>. QED BY <1>2, <2>1, LocatedFrame
<1>3. CASE UNCHANGED vars \/ Terminated
  BY <1>1, <1>3 DEF vars, Terminated
<1>4. CASE \E m \in Matches, row \in NewRows : Create(m, row)
  BY <1>1, <1>4 DEF Create, locals
<1>5. ASSUME NEW r \in Requests, Arrive(r) PROVE Located'
  <2>1. \/ \E m \in Matches, d \in UpdateDtos : BeginUpdate(r, m, d)
        \/ \E m \in Matches, e \in EventDtos : BeginEvent(r, m, e)
    BY <1>5 DEF Arrive
  <2>2. ASSUME NEW m \in Matches, NEW d \in UpdateDtos, BeginUpdate(r, m, d) PROVE Located'
    <3>1. /\ UNCHANGED <<standings, statRows>> /\ pc'[r] \in {"rejected", "write"}
          /\ \A q \in Requests : q # r =>
               pc'[q] = pc[q] /\ on'[q] = on[q] /\ event'[q] = event[q] /\ found'[q] = found[q]
      BY <2>2 DEF BeginUpdate, Goto, TypeOK, tables, locals
    <3>. QED BY <3>1, <1>2
  <2>3. ASSUME NEW m \in Matches, NEW e \in EventDtos, BeginEvent(r, m, e) PROVE Located'
    <3>1. /\ UNCHANGED <<standings, statRows>> /\ pc'[r] = "event"
          /\ \A q \in Requests : q # r =>
               pc'[q] = pc[q] /\ on'[q] = on[q] /\ event'[q] = event[q] /\ found'[q] = found[q]
      BY <2>3 DEF BeginEvent, Goto, TypeOK, tables
    <3>. QED BY <3>1, <1>2
  <2>. QED BY <2>1, <2>2, <2>3
<1>6. ASSUME NEW r \in Requests, WriteMatch(r) PROVE Located'
  BY <1>6, <1>2 DEF WriteMatch, Goto, TypeOK
<1>7. ASSUME NEW r \in Requests, PublishUpdate(r) PROVE Located'
  BY <1>7, <1>2 DEF PublishUpdate, Goto, TypeOK, locals
<1>8. ASSUME NEW r \in Requests, CreateEvent(r) PROVE Located'
  BY <1>8, <1>2 DEF CreateEvent, AfterScore, Goto, TypeOK, locals
<1>9. ASSUME NEW r \in Requests, ScoreGoal(r) PROVE Located'
  BY <1>9, <1>2 DEF ScoreGoal, Goto, TypeOK
<1>10. ASSUME NEW r \in Requests, PublishGoal(r) PROVE Located'
  BY <1>10, <1>2 DEF PublishGoal, AfterScore, Goto, TypeOK, locals
<1>11. ASSUME NEW r \in Requests, Fail(r) PROVE Located'
  BY <1>11, <1>2 DEF Fail, Goto, TypeOK, tables, locals
<1>12. ASSUME NEW r \in Requests, FindHome(r) PROVE Located'
  BY <1>12, FoundStanding DEF FindHome, Sides
<1>13. ASSUME NEW r \in Requests, FindAway(r) PROVE Located'
  BY <1>13, FoundStanding DEF FindAway, Sides
<1>14. ASSUME NEW r \in Requests, ApplyHome(r) PROVE Located'
  <2>1. found[r] \in {0} \cup DOMAIN standings[TeamOf(on[r], "home")]
    BY <1>14 DEF ApplyHome, Located, InPlace, TeamOf
  <2>. QED BY <1>14, <2>1, AppliedInPlace DEF ApplyHome, Sides
<1>15. ASSUME NEW r \in Requests, ApplyAway(r) PROVE Located'
  <2>1. found[r] \in {0} \cup DOMAIN standings[TeamOf(on[r], "away")]
    BY <1>15 DEF ApplyAway, Located, InPlace, TeamOf
  <2>. QED BY <1>15, <2>1, AppliedInPlace DEF ApplyAway, Sides
<1>16. ASSUME NEW r \in Requests, FindStat(r) PROVE Located'
  <2>. DEFINE rows == statRows[event[r].player]
  <2>1. /\ standings' = standings /\ statRows' = statRows
        /\ on' = on /\ event' = event
        /\ \E i \in FindFirst(rows) : found' = [found EXCEPT ![r] = i]
        /\ pc' = [pc EXCEPT ![r] = "applyStat"]
    BY <1>16 DEF FindStat, Goto, tables
  <2>2. \A i \in FindFirst(rows) : i \in {0} \cup DOMAIN rows
    BY DEF FindFirst
  <2>3. /\ found'[r] \in {0} \cup DOMAIN rows /\ pc'[r] = "applyStat"
        /\ \A q \in Requests : q # r => pc'[q] = pc[q] /\ found'[q] = found[q]
    BY <2>1, <2>2 DEF TypeOK
  <2>4. InPlace(r)'
    BY <2>1, <2>3 DEF InPlace
  <2>. QED BY <2>1, <2>3, <2>4, LocatedFrame
<1>17. ASSUME NEW r \in Requests, ApplyStat(r) PROVE Located'
  <2>1. /\ standings' = standings /\ on' = on /\ event' = event /\ found' = found
        /\ pc' = [pc EXCEPT ![r] = "done"]
    BY <1>17 DEF ApplyStat, Goto, locals
  <2>2. pc'[r] = "done" /\ \A q \in Requests : q # r => pc'[q] = pc[q]
    BY <2>1 DEF TypeOK
  <2>3. InPlace(r)'
    BY <2>2 DEF InPlace
  <2>4. \A p \in Players : DOMAIN statRows[p] \subseteq DOMAIN statRows'[p]
    BY <1>17, CreditedStat
  <2>. QED BY <2>1, <2>2, <2>3, <2>4, LocatedFrame
<1>. QED
  BY <1>3, <1>4, <1>5, <1>6, <1>7, <1>8, <1>9, <1>10, <1>11, <1>12, <1>13, <1>14,
     <1>15, <1>16, <1>17 DEF Next, Step

\* Every handler starts with nothing found.
LEMMA LocatedInit == Init => Located
BY DEF Init, Located, InPlace

LEMMA AlwaysLocated == Spec => [](TypeOK /\ Located)
<1>1. Init => Located
  BY LocatedInit
<1>2. TypeOK /\ Located /\ [Next]_vars => Located'
  BY LocatedStep
<1>. QED BY <1>1, <1>2, TypeCorrect, PTL DEF Spec

\* Only the two apply steps write lines, and what they add they post.
LEMMA LineSteps ==
  ASSUME TypeOK, Located, [Next]_vars
  PROVE  \/ UNCHANGED <<standings, posted>>
         \/ \E r \in Requests, s \in Sides, d \in StatLine :
              /\ Posting(posted, posted', on[r], s, d)
              /\ \A t \in Teams, c \in Columns :
                   ColSum(standings'[t], c) = ColSum(standings[t], c)
                     + (IF t = TeamOf(on[r], s) THEN d[c] ELSE 0)
<1>1. ASSUME NEW r \in Requests, ApplyHome(r) \/ ApplyAway(r)
      PROVE  \E s \in Sides, d \in StatLine :
               /\ Posting(posted, posted', on[r], s, d)
               /\ \A t \in Teams, c \in Columns :
                    ColSum(standings'[t], c) = ColSum(standings[t], c)
                      + (IF t = TeamOf(on[r], s) THEN d[c] ELSE 0)
  <2>1. PICK s \in Sides : /\ \E next : ApplyStanding(r, s, next)
                           /\ found[r] \in {0} \cup DOMAIN standings[TeamOf(on[r], s)]
    BY <1>1 DEF ApplyHome, ApplyAway, Sides, Located, InPlace, TeamOf
  <2>2. PICK next : ApplyStanding(r, s, next)
    BY <2>1
  <2>. QED BY <2>1, <2>2, AppliedLine
<1>2. ASSUME NEW r \in Requests, Arrive(r) PROVE UNCHANGED <<standings, posted>>
  BY <1>2 DEF Arrive, BeginUpdate, BeginEvent, tables
<1>3. ASSUME NEW r \in Requests, Step(r) \/ Fail(r), ~ApplyHome(r), ~ApplyAway(r)
      PROVE  UNCHANGED <<standings, posted>>
  BY <1>3 DEF Step, Fail, WriteMatch, FindHome, FindAway, FindStanding, PublishUpdate,
              CreateEvent, ScoreGoal, PublishGoal, FindStat, ApplyStat, tables
<1>4. CASE UNCHANGED vars \/ Terminated \/ \E m \in Matches, row \in NewRows : Create(m, row)
  BY <1>4 DEF vars, Terminated, Create
<1>5. CASE \E r \in Requests : Arrive(r) \/ Step(r) \/ Fail(r)
  BY <1>1, <1>2, <1>3, <1>5
<1>. QED BY <1>4, <1>5 DEF Next

LEMMA AddedUpStep == TypeOK /\ Located /\ AddedUp /\ [Next]_vars => AddedUp'
<1>. SUFFICES ASSUME TypeOK, Located, AddedUp, [Next]_vars,
                     NEW t \in Teams, NEW c \in Columns
              PROVE  ColSum(standings'[t], c) = Sum(Share(posted', t, c), Matches)
  BY DEF AddedUp
<1>1. ColSum(standings[t], c) = Sum(Share(posted, t, c), Matches)
  BY DEF AddedUp
<1>2. CASE UNCHANGED <<standings, posted>>
  BY <1>1, <1>2
<1>3. CASE \E r \in Requests, s \in Sides, d \in StatLine :
             /\ Posting(posted, posted', on[r], s, d)
             /\ \A u \in Teams, b \in Columns :
                  ColSum(standings'[u], b) = ColSum(standings[u], b)
                    + (IF u = TeamOf(on[r], s) THEN d[b] ELSE 0)
  <2>1. PICK r \in Requests, s \in Sides, d \in StatLine :
             /\ Posting(posted, posted', on[r], s, d)
             /\ \A u \in Teams, b \in Columns :
                  ColSum(standings'[u], b) = ColSum(standings[u], b)
                    + (IF u = TeamOf(on[r], s) THEN d[b] ELSE 0)
    BY <1>3
  <2>. DEFINE more == IF t = TeamOf(on[r], s) THEN d[c] ELSE 0
  <2>2. posted \in [Matches -> [Sides -> StatLine]] /\ on[r] \in Matches
    BY DEF TypeOK
  <2>3. Sum(Share(posted', t, c), Matches) = Sum(Share(posted, t, c), Matches) + more
    <3>. DEFINE p == posted
                q == posted'
                m == on[r]
    <3>1. p \in [Matches -> [Sides -> StatLine]] /\ m \in Matches
      BY <2>2
    <3>2. Posting(p, q, m, s, d)
      BY <2>1
    <3>. HIDE DEF p, q, m
    <3>3. Sum(Share(q, t, c), Matches) =
            Sum(Share(p, t, c), Matches) + (IF t = TeamOf(m, s) THEN d[c] ELSE 0)
      BY <3>1, <3>2, SharePosted
    <3>. QED BY <3>3 DEF p, q, m
  <2>4. ColSum(standings'[t], c) = ColSum(standings[t], c) + more
    BY <2>1
  <2>. HIDE DEF more
  <2>. QED BY <1>1, <2>3, <2>4
<1>. QED BY <1>2, <1>3, LineSteps
LEMMA ColSumZero ==
  ASSUME NEW rows, NEW c, IsFiniteSet(DOMAIN rows), \A i \in DOMAIN rows : rows[i][c] = 0
  PROVE  ColSum(rows, c) = 0
<1>1. \A i \in DOMAIN rows : Cells(rows, c)[i] = 0
  BY DEF Cells
<1>. QED BY <1>1, SumZero DEF ColSum

\* At the start every line is zero, and nothing has been posted.
LEMMA AddedUpInit ==
  ASSUME Init
  PROVE  /\ \A t \in Teams, c \in Columns : ColSum(standings[t], c) = 0
         /\ AddedUp
<1>1. ASSUME NEW t \in Teams, NEW c \in Columns PROVE ColSum(standings[t], c) = 0
  <2>1. standings[t] \in {<<NewStanding(NoStats)>>, <<>>}
    BY DEF Init
  <2>2. NewStanding(NoStats)[c] = 0
    BY DEF NewStanding, NoStats, Columns
  <2>3. CASE standings[t] = <<>>
    BY <2>3, ColSumEmpty
  <2>4. CASE standings[t] = <<NewStanding(NoStats)>>
    <3>. DEFINE v == NewStanding(NoStats)
    <3>1. DOMAIN <<v>> = {1} /\ <<v>>[1] = v
      OBVIOUS
    <3>2. IsFiniteSet({1})
      BY FS_Singleton
    <3>3. v[c] = 0
      BY <2>2
    <3>. HIDE DEF v
    <3>4. ColSum(<<v>>, c) = 0
      BY <3>1, <3>2, <3>3, ColSumZero
    <3>. QED BY <3>4, <2>4 DEF v
  <2>. QED BY <2>1, <2>3, <2>4
<1>2. ASSUME NEW t \in Teams, NEW c \in Columns
      PROVE  Sum(Share(posted, t, c), Matches) = 0
  <2>1. \A m \in Matches : posted[m]["home"][c] = 0 /\ posted[m]["away"][c] = 0
    BY DEF Init, Sides, NoStats
  <2>2. \A m \in Matches : Share(posted, t, c)[m] = 0
    BY <2>1 DEF Share
  <2>. QED BY <2>2, MatchesAssumption, SumZero
<1>. QED BY <1>1, <1>2 DEF AddedUp

\* What a match is worth to a team, by match.
Worths(t, c) ==
  [m \in Matches |-> (IF Home[m] = t THEN GetStats(matches[m], "home")[c] ELSE 0)
                   + (IF Away[m] = t THEN GetStats(matches[m], "away")[c] ELSE 0)]

LEMMA EarnedIsSum ==
  ASSUME NEW t \in Teams, NEW c \in Columns
  PROVE  Earned(t, c) = Sum(Worths(t, c), Matches)
<1>. DEFINE S == Matches
            F == Worths(t, c)
            Eq(f) == f = [s \in SUBSET S |-> IF s = {} THEN 0
                            ELSE LET x == CHOOSE x \in s : TRUE
                                 IN  ((IF Home[x] = t THEN GetStats(matches[x], "home")[c] ELSE 0)
                                    + (IF Away[x] = t THEN GetStats(matches[x], "away")[c] ELSE 0))
                                    + f[s \ {x}]]
            it == CHOOSE f : Eq(f)
<1>1. Earned(t, c) = it[S]
  BY Zenon DEF Earned, MapThenSumSet, MapThenFoldSet
<1>2. IsFiniteSet(S)
  BY MatchesAssumption
<1>3. \A f : Eq(f) <=> SumFn(F, S, f)
  BY DEF SumFn, Worths
<1>4. \E f : Eq(f)
  <2>1. \E f : SumFn(F, S, f)
    <3>. HIDE DEF F, S
    <3>. QED BY <1>2, SumFnExists
  <2>. HIDE DEF Eq
  <2>. QED BY <2>1, <1>3
<1>5. SumFn(F, S, it)
  BY <1>3, <1>4
<1>. HIDE DEF it, F, S
<1>6. Sum(F, S) = it[S]
  BY <1>2, <1>5, SumOfSubset
<1>. QED BY <1>1, <1>6 DEF F, S

\* getStandings: where requests for a match do not overlap, none fails and goals
\* are not logged late, every column of a team's lines is the sum of what its
\* matches are worth, whenever no handler is at work; although handlers of
\* different matches may both have found no line and made one.
THEOREM ColumnsFollowResults ==
  ASSUME ExactRegime
  PROVE  Spec => []TableExact
<1>1. Init => AddedUp
  BY AddedUpInit
<1>2. TypeOK /\ Located /\ AddedUp /\ [Next]_vars => AddedUp'
  BY AddedUpStep
<1>3. TypeOK /\ AddedUp /\ Settled => TableExact
  <2>. SUFFICES ASSUME TypeOK, AddedUp, Settled, AllQuiet,
                       NEW t \in Teams, NEW c \in Columns
                PROVE  RowSum(t, c) = Earned(t, c)
    BY DEF TableExact
  <2>1. RowSum(t, c) = Sum(Share(posted, t, c), Matches)
    BY RowSumIsColSum DEF AddedUp
  <2>2. \A m \in Matches, s \in Sides : posted[m][s] = GetStats(matches[m], s)
    BY DEF Settled, AllQuiet
  <2>3. \A m \in Matches : Share(posted, t, c)[m] = Worths(t, c)[m]
    BY <2>2 DEF Share, Worths, Sides
  <2>4. Sum(Share(posted, t, c), Matches) = Sum(Worths(t, c), Matches)
    BY <2>3, MatchesAssumption, SumSame
  <2>. QED BY <2>1, <2>4, EarnedIsSum
<1>. QED
  BY <1>1, <1>2, <1>3, AlwaysLocated, TableFollowsResults, PTL DEF Spec

-----------------------------------------------------------------------------
(* The tallies of the players. *)

Crediting == {"goal", "publishGoal", "findStat", "applyStat"}

\* The handlers that have logged an event of kind t of player p and have not
\* credited it yet; and the events of the kind in the log.
Due(p, t) ==
  {r \in Requests : pc[r] \in Crediting /\ event[r].player = p /\ event[r].type = t}
Log(p, t) == {e \in events : e.body.player = p /\ e.body.type = t}

\* An event is in the log once, from CreateEvent on.
LoggedOnce == \A e \in events : pc[e.id] \in Crediting \cup {"done", "failed"}

\* What a player is credited with and what is due to him are what was logged.
TallyInv ==
  /\ IsFiniteSet(events)
  /\ LoggedOnce
  /\ \A p \in Players, t \in StatTypes : IsFiniteSet(Due(p, t))
  /\ NoneFailed => \A p \in Players, t \in StatTypes :
       ColSum(statRows[p], t) + Cardinality(Due(p, t)) = Cardinality(Log(p, t))

\* A column of a player's rows is an integer.
LEMMA StatColumn ==
  ASSUME TypeOK, NEW p \in Players, NEW t \in StatTypes
  PROVE  ColSum(statRows[p], t) \in Int
<1>1. statRows[p] \in Seq(PlayerStat) /\ \A v \in PlayerStat : v[t] \in Int
  BY DEF TypeOK, PlayerStat
<1>. QED BY <1>1, CellsType

\* A step that logs nothing, credits nothing and leaves what is due.
LEMMA TallyFrame ==
  ASSUME TypeOK, TallyInv, UNCHANGED <<statRows, events>>,
         NEW r \in Requests, pc[r] # "failed",
         \A q \in Requests : q # r => pc'[q] = pc[q] /\ event'[q] = event[q],
         \A p \in Players, t \in StatTypes : r \in Due(p, t)' <=> r \in Due(p, t),
         pc[r] \in Crediting \cup {"done"} => pc'[r] \in Crediting \cup {"done"}
  PROVE  TallyInv'
<1>1. ASSUME NEW p \in Players, NEW t \in StatTypes PROVE Due(p, t)' = Due(p, t)
  <2>1. \A q \in Requests : q # r => (q \in Due(p, t)' <=> q \in Due(p, t))
    BY DEF Due
  <2>2. Due(p, t) \subseteq Requests /\ Due(p, t)' \subseteq Requests
    BY DEF Due
  <2>. QED BY <2>1, <2>2
<1>2. NoneFailed' => NoneFailed
  BY DEF NoneFailed
<1>3. LoggedOnce'
  <2>. SUFFICES ASSUME NEW e \in events
                PROVE  pc'[e.id] \in Crediting \cup {"done", "failed"}
    BY DEF LoggedOnce
  <2>1. e.id \in Requests /\ pc[e.id] \in Crediting \cup {"done", "failed"}
    BY DEF TypeOK, TallyInv, LoggedOnce
  <2>. QED BY <2>1
<1>. QED BY <1>1, <1>2, <1>3 DEF TallyInv, Log

\* CreateEvent logs an event and makes it due, if a player is to be credited.
LEMMA TallyLogged ==
  ASSUME TypeOK, TallyInv, NEW r \in Requests, CreateEvent(r)
  PROVE  TallyInv'
<1>. DEFINE e == [id |-> r, match |-> on[r], body |-> event[r]]
            label == IF IsGoal(event[r]) THEN "goal" ELSE AfterScore(event[r])
<1>1. /\ statRows' = statRows /\ event' = event /\ events' = events \cup {e}
      /\ pc[r] = "event" /\ pc' = [pc EXCEPT ![r] = label]
  BY DEF CreateEvent, Goto, locals
<1>2. pc'[r] = label /\ \A q \in Requests : q # r => pc'[q] = pc[q]
  BY <1>1 DEF TypeOK
<1>3. /\ label \in Crediting \cup {"done"}
      /\ event[r].player \in Players /\ event[r].type \in StatTypes => label \in Crediting
  BY MatchesAssumption DEF AfterScore, Crediting
<1>4. e \notin events
  <2>1. pc[e.id] = "event"
    BY <1>1
  <2>. HIDE DEF e
  <2>. QED BY <2>1 DEF TallyInv, LoggedOnce, Crediting
<1>5. IsFiniteSet(events')
  <2>. HIDE DEF e
  <2>. QED BY <1>1, FS_AddElement DEF TallyInv
<1>6. LoggedOnce'
  <2>. SUFFICES ASSUME NEW f \in events'
                PROVE  pc'[f.id] \in Crediting \cup {"done", "failed"}
    BY DEF LoggedOnce
  <2>1. CASE f = e
    BY <2>1, <1>2, <1>3
  <2>2. CASE f \in events
    <3>1. f.id \in Requests /\ pc[f.id] \in Crediting \cup {"done", "failed"}
      BY <2>2 DEF TypeOK, TallyInv, LoggedOnce
    <3>. HIDE DEF label
    <3>. QED BY <3>1, <1>2, <1>3
  <2>. QED BY <2>1, <2>2, <1>1
<1>7. NoneFailed' => NoneFailed
  BY <1>1, <1>2 DEF NoneFailed
<1>8. ASSUME NEW p \in Players, NEW t \in StatTypes
      PROVE  /\ IsFiniteSet(Due(p, t)')
             /\ \/ /\ Cardinality(Due(p, t)') = Cardinality(Due(p, t))
                   /\ Cardinality(Log(p, t)') = Cardinality(Log(p, t))
                \/ /\ Cardinality(Due(p, t)') = Cardinality(Due(p, t)) + 1
                   /\ Cardinality(Log(p, t)') = Cardinality(Log(p, t)) + 1
  <2>1. IsFiniteSet(Due(p, t)) /\ r \notin Due(p, t)
    BY <1>1 DEF TallyInv, Due, Crediting
  <2>2. IsFiniteSet(Log(p, t)) /\ e \notin Log(p, t)
    <3>. HIDE DEF e
    <3>. QED BY <1>4, FS_Subset DEF TallyInv, Log
  <2>3. CASE event[r].player = p /\ event[r].type = t
    <3>1. Due(p, t)' = Due(p, t) \cup {r}
      <4>. HIDE DEF label
      <4>. QED BY <2>3, <1>1, <1>2, <1>3 DEF Due
    <3>2. e.body.player = p /\ e.body.type = t
      BY <2>3
    <3>3. Log(p, t)' = Log(p, t) \cup {e}
      <4>. HIDE DEF e
      <4>. QED BY <3>2, <1>1 DEF Log
    <3>. HIDE DEF e
    <3>. QED BY <2>1, <2>2, <3>1, <3>3, FS_AddElement
  <2>4. CASE ~ (event[r].player = p /\ event[r].type = t)
    <3>1. Due(p, t)' = Due(p, t)
      <4>. HIDE DEF label
      <4>. QED BY <2>1, <2>4, <1>1, <1>2 DEF Due
    <3>2. ~ (e.body.player = p /\ e.body.type = t)
      BY <2>4
    <3>3. Log(p, t)' = Log(p, t)
      <4>. HIDE DEF e
      <4>. QED BY <3>2, <1>1 DEF Log
    <3>. QED BY <2>1, <3>1, <3>3
  <2>. QED BY <2>3, <2>4
<1>9. ASSUME NoneFailed, NEW p \in Players, NEW t \in StatTypes
      PROVE  ColSum(statRows'[p], t) + Cardinality(Due(p, t)') = Cardinality(Log(p, t)')
  <2>. DEFINE total == ColSum(statRows[p], t)
              due == Cardinality(Due(p, t))
              log == Cardinality(Log(p, t))
  <2>1. total + due = log
    BY <1>9 DEF TallyInv
  <2>2. total \in Int /\ due \in Int
    BY StatColumn, FS_CardinalityType DEF TallyInv
  <2>3. ColSum(statRows'[p], t) = total
    BY <1>1
  <2>4. \/ Cardinality(Due(p, t)') = due /\ Cardinality(Log(p, t)') = log
        \/ Cardinality(Due(p, t)') = due + 1 /\ Cardinality(Log(p, t)') = log + 1
    BY <1>8
  <2>. HIDE DEF total, due, log
  <2>. QED BY <2>1, <2>2, <2>3, <2>4
<1>. QED BY <1>5, <1>6, <1>7, <1>8, <1>9 DEF TallyInv

\* ApplyStat credits what was due.
LEMMA TallyCredited ==
  ASSUME TypeOK, Located, TallyInv, NEW r \in Requests, ApplyStat(r)
  PROVE  TallyInv'
<1>. DEFINE who == event[r].player
            what == event[r].type
<1>1. /\ event' = event /\ events' = events
      /\ pc[r] = "applyStat" /\ pc' = [pc EXCEPT ![r] = "done"]
  BY DEF ApplyStat, Goto, locals
<1>2. pc'[r] = "done" /\ \A q \in Requests : q # r => pc'[q] = pc[q]
  BY <1>1 DEF TypeOK
<1>3. /\ who \in Players /\ what \in StatTypes
      /\ \A p \in Players, t \in StatTypes :
           ColSum(statRows'[p], t) = ColSum(statRows[p], t)
             + (IF p = who /\ t = what THEN 1 ELSE 0)
  BY CreditedStat
<1>4. LoggedOnce'
  <2>. SUFFICES ASSUME NEW f \in events
                PROVE  pc'[f.id] \in Crediting \cup {"done", "failed"}
    BY <1>1 DEF LoggedOnce
  <2>1. f.id \in Requests /\ pc[f.id] \in Crediting \cup {"done", "failed"}
    BY DEF TypeOK, TallyInv, LoggedOnce
  <2>. QED BY <2>1, <1>2
<1>5. NoneFailed' => NoneFailed
  BY <1>1, <1>2 DEF NoneFailed
<1>6. ASSUME NEW p \in Players, NEW t \in StatTypes
      PROVE  /\ IsFiniteSet(Due(p, t)')
             /\ Cardinality(Due(p, t)') =
                  Cardinality(Due(p, t)) - (IF p = who /\ t = what THEN 1 ELSE 0)
  <2>1. IsFiniteSet(Due(p, t)) /\ Cardinality(Due(p, t)) \in Int
    BY FS_CardinalityType DEF TallyInv
  <2>2. CASE p = who /\ t = what
    <3>1. r \in Due(p, t) /\ Due(p, t)' = Due(p, t) \ {r}
      BY <2>2, <1>1, <1>2 DEF Due, Crediting
    <3>. DEFINE due == Due(p, t)
                rest == due \ {r}
    <3>2. IsFiniteSet(rest) /\ Cardinality(rest) = Cardinality(due) - 1
      <4>. HIDE DEF due
      <4>. QED BY <2>1, <3>1, FS_RemoveElement DEF due
    <3>3. Due(p, t)' = rest
      BY <3>1
    <3>. HIDE DEF who, what, due, rest
    <3>. QED BY <2>2, <3>2, <3>3 DEF due
  <2>3. CASE ~ (p = who /\ t = what)
    <3>1. Due(p, t)' = Due(p, t)
      BY <2>3, <1>1, <1>2 DEF Due
    <3>. HIDE DEF who, what
    <3>. QED BY <2>1, <2>3, <3>1
  <2>. QED BY <2>2, <2>3
<1>7. ASSUME NoneFailed, NEW p \in Players, NEW t \in StatTypes
      PROVE  ColSum(statRows'[p], t) + Cardinality(Due(p, t)') = Cardinality(Log(p, t)')
  <2>. DEFINE total == ColSum(statRows[p], t)
              due == Cardinality(Due(p, t))
              log == Cardinality(Log(p, t))
              one == IF p = who /\ t = what THEN 1 ELSE 0
  <2>1. total + due = log
    BY <1>7 DEF TallyInv
  <2>2. total \in Int /\ due \in Int /\ one \in Int
    BY StatColumn, FS_CardinalityType DEF TallyInv
  <2>3. ColSum(statRows'[p], t) = total + one
    BY <1>3
  <2>4. Cardinality(Due(p, t)') = due - one
    BY <1>6
  <2>5. Cardinality(Log(p, t)') = log
    BY <1>1 DEF Log
  <2>. HIDE DEF total, due, log, one
  <2>. QED BY <2>1, <2>2, <2>3, <2>4, <2>5
<1>. QED BY <1>1, <1>4, <1>5, <1>6, <1>7 DEF TallyInv

LEMMA TallyStep == TypeOK /\ Located /\ TallyInv /\ [Next]_vars => TallyInv'
<1>. SUFFICES ASSUME TypeOK, Located, TallyInv, [Next]_vars PROVE TallyInv'
  OBVIOUS
<1>1. ASSUME NEW r \in Requests, UNCHANGED <<statRows, events>>,
             \A q \in Requests : q # r => pc'[q] = pc[q] /\ event'[q] = event[q],
             pc[r] \notin Crediting \cup {"done", "failed"}, pc'[r] \notin Crediting
      PROVE  TallyInv'
  <2>1. \A p \in Players, t \in StatTypes : r \notin Due(p, t)' /\ r \notin Due(p, t)
    BY <1>1 DEF Due
  <2>. QED BY <1>1, <2>1, TallyFrame
<1>2. ASSUME NEW r \in Requests, UNCHANGED <<statRows, events, event>>,
             NEW label, pc' = [pc EXCEPT ![r] = label], pc[r] \in Crediting,
             label \in Crediting \cup {"done"},
             label = "done" => event[r].player \notin Players \/ event[r].type \notin StatTypes
      PROVE  TallyInv'
  <2>1. pc'[r] = label /\ \A q \in Requests : q # r => pc'[q] = pc[q]
    BY <1>2 DEF TypeOK
  <2>2. \A p \in Players, t \in StatTypes : r \in Due(p, t)' <=> r \in Due(p, t)
    BY <1>2, <2>1 DEF Due
  <2>3. pc[r] # "failed"
    BY <1>2 DEF Crediting
  <2>. QED BY <1>2, <2>1, <2>2, <2>3, TallyFrame
<1>3. CASE UNCHANGED <<statRows, events, pc, event>>
  BY <1>3 DEF TallyInv, LoggedOnce, Due, Log, NoneFailed
<1>4. ASSUME NEW r \in Requests, Arrive(r) PROVE TallyInv'
  <2>1. /\ pc[r] = "idle" /\ UNCHANGED <<statRows, events>>
        /\ pc'[r] \in {"rejected", "write", "event"}
        /\ \A q \in Requests : q # r => pc'[q] = pc[q] /\ event'[q] = event[q]
    BY <1>4 DEF Arrive, BeginUpdate, BeginEvent, Goto, tables, locals, TypeOK
  <2>. QED BY <2>1, <1>1 DEF Crediting
<1>5. ASSUME NEW r \in Requests,
             \/ WriteMatch(r) \/ FindHome(r) \/ ApplyHome(r) \/ FindAway(r)
             \/ ApplyAway(r) \/ PublishUpdate(r)
      PROVE  TallyInv'
  <2>1. /\ pc[r] \in {"write", "findHome", "applyHome", "findAway", "applyAway", "publish"}
        /\ UNCHANGED <<statRows, events, event>>
        /\ \E label \in {"findHome", "applyHome", "findAway", "applyAway", "publish", "done"} :
             pc' = [pc EXCEPT ![r] = label]
    BY <1>5 DEF WriteMatch, FindHome, ApplyHome, FindAway, ApplyAway, FindStanding,
                ApplyStanding, PublishUpdate, Goto, tables, locals
  <2>2. /\ pc'[r] \in {"findHome", "applyHome", "findAway", "applyAway", "publish", "done"}
        /\ \A q \in Requests : q # r => pc'[q] = pc[q]
    BY <2>1 DEF TypeOK
  <2>. QED BY <2>1, <2>2, <1>1 DEF Crediting
<1>6. ASSUME NEW r \in Requests, ScoreGoal(r) \/ FindStat(r) PROVE TallyInv'
  <2>1. /\ pc[r] \in Crediting /\ UNCHANGED <<statRows, events, event>>
        /\ \E label \in Crediting : pc' = [pc EXCEPT ![r] = label]
    BY <1>6 DEF ScoreGoal, FindStat, Goto, tables, Crediting
  <2>. QED BY <2>1, <1>2 DEF Crediting
<1>7. ASSUME NEW r \in Requests, PublishGoal(r) PROVE TallyInv'
  <2>1. /\ pc[r] \in Crediting /\ UNCHANGED <<statRows, events, event>>
        /\ pc' = [pc EXCEPT ![r] = AfterScore(event[r])]
    BY <1>7 DEF PublishGoal, Goto, locals, Crediting
  <2>2. /\ AfterScore(event[r]) \in Crediting \cup {"done"}
        /\ AfterScore(event[r]) = "done" =>
             event[r].player \notin Players \/ event[r].type \notin StatTypes
    BY MatchesAssumption DEF AfterScore, Crediting
  <2>. QED BY <2>1, <2>2, <1>2
<1>8. ASSUME NEW r \in Requests, Fail(r) PROVE TallyInv'
  <2>1. /\ UNCHANGED <<statRows, events, event>>
        /\ pc'[r] = "failed" /\ \A q \in Requests : q # r => pc'[q] = pc[q]
    BY <1>8 DEF Fail, Goto, tables, locals, TypeOK
  <2>2. ~ NoneFailed'
    BY <2>1 DEF NoneFailed
  <2>3. LoggedOnce'
    BY <2>1 DEF TypeOK, TallyInv, LoggedOnce
  <2>4. ASSUME NEW p \in Players, NEW t \in StatTypes PROVE IsFiniteSet(Due(p, t)')
    <3>1. Due(p, t)' \subseteq Due(p, t)
      BY <2>1 DEF Due, Crediting
    <3>. QED BY <3>1, FS_Subset DEF TallyInv
  <2>. QED BY <2>1, <2>2, <2>3, <2>4 DEF TallyInv
<1>9. ASSUME UNCHANGED vars \/ Terminated \/ \E m \in Matches, row \in NewRows : Create(m, row)
      PROVE  TallyInv'
  BY <1>9, <1>3 DEF vars, Terminated, Create, locals
<1>. QED
  BY <1>4, <1>5, <1>6, <1>7, <1>8, <1>9, TallyLogged, TallyCredited DEF Next, Step

\* At the start nothing is logged, due or credited.
LEMMA TallyInit == Init => TallyInv
<1>. SUFFICES ASSUME Init PROVE TallyInv
  OBVIOUS
<1>1. events = {} /\ IsFiniteSet({}) /\ Cardinality({}) = 0
  BY FS_EmptySet DEF Init
<1>2. ASSUME NEW p \in Players, NEW t \in StatTypes
      PROVE  Due(p, t) = {} /\ Log(p, t) = {} /\ ColSum(statRows[p], t) = 0
  BY <1>1, ColSumEmpty DEF Init, Due, Log, Crediting
<1>3. ASSUME NEW p \in Players, NEW t \in StatTypes
      PROVE  /\ IsFiniteSet(Due(p, t))
             /\ ColSum(statRows[p], t) + Cardinality(Due(p, t)) = Cardinality(Log(p, t))
  BY <1>1, <1>2
<1>. QED BY <1>1, <1>3 DEF TallyInv, LoggedOnce

\* The sum a tally is made of.
Tally(p, t) == MapThenSumSet(LAMBDA i : statRows[p][i][t], DOMAIN statRows[p])

LEMMA TallyIsColSum ==
  ASSUME TypeOK, NEW p \in Players, NEW t \in StatTypes
  PROVE  Tally(p, t) = ColSum(statRows[p], t)
<1>. DEFINE S == DOMAIN statRows[p]
            F == Cells(statRows[p], t)
            Eq(f) == f = [s \in SUBSET S |-> IF s = {} THEN 0
                            ELSE LET x == CHOOSE x \in s : TRUE
                                 IN  statRows[p][x][t] + f[s \ {x}]]
            it == CHOOSE f : Eq(f)
<1>1. Tally(p, t) = it[S]
  BY Zenon DEF Tally, MapThenSumSet, MapThenFoldSet
<1>2. IsFiniteSet(S)
  <2>1. statRows[p] \in Seq(PlayerStat)
    BY DEF TypeOK
  <2>2. S = 1 .. Len(statRows[p]) /\ Len(statRows[p]) \in Nat
    BY <2>1, LenProperties
  <2>. QED BY <2>2, FS_Interval
<1>3. \A f : Eq(f) <=> SumFn(F, S, f)
  BY DEF SumFn, Cells
<1>4. \E f : Eq(f)
  <2>1. \E f : SumFn(F, S, f)
    <3>. HIDE DEF F, S
    <3>. QED BY <1>2, SumFnExists
  <2>. HIDE DEF Eq
  <2>. QED BY <2>1, <1>3
<1>5. SumFn(F, S, it)
  BY <1>3, <1>4
<1>. HIDE DEF it, F, S
<1>6. Sum(F, S) = it[S]
  BY <1>2, <1>5, SumOfSubset
<1>. QED BY <1>1, <1>6 DEF ColSum, F, S

\* getTopScorers: whatever the interleaving, however many rows a player got
\* because two first events of his raced, if no handler failed his rows add up
\* to the events logged for him whenever no handler is at work.
THEOREM TalliesMatchLog == Spec => []PlayerTally
<1>1. TypeOK /\ TallyInv => PlayerTally
  <2>. SUFFICES ASSUME TypeOK, TallyInv, AllQuiet, NoneFailed,
                       NEW p \in Players, NEW t \in StatTypes
                PROVE  Tally(p, t) = Cardinality(Log(p, t))
    BY DEF PlayerTally, Tally, Log
  <2>1. Due(p, t) = {}
    BY DEF AllQuiet, Quiet, Active, Ended, Due, Crediting, TypeOK
  <2>2. ColSum(statRows[p], t) + Cardinality(Due(p, t)) = Cardinality(Log(p, t))
    BY DEF TallyInv
  <2>3. ColSum(statRows[p], t) \in Int /\ Cardinality({}) = 0
    BY StatColumn, FS_EmptySet
  <2>. QED BY <2>1, <2>2, <2>3, TallyIsColSum
<1>. QED BY <1>1, TallyInit, TallyStep, AlwaysLocated, PTL DEF Spec

-----------------------------------------------------------------------------
(* The two sides of every result. *)

\* The column of the one side that holds what a column holds of the other.
Other == [goalsFor |-> "goalsAgainst", goalsAgainst |-> "goalsFor",
          won |-> "lost", lost |-> "won", drawn |-> "drawn"]

\* A column over all the lines of all the teams.
TableSum(c) == Sum([t \in Teams |-> ColSum(standings[t], c)], Teams)

\* The handlers that are through with the home team and not with the away team,
\* what each still has to add to column c, and the column once they have.
Halfway == {r \in Requests : pc[r] \in {"findAway", "applyAway"}}
Owed(c) == [r \in Requests |-> Delta(r, "away")[c]]
Level(c) == TableSum(c) + Sum(Owed(c), Halfway)

\* Every result counts on both sides, once the handlers halfway are through.
Mirrored ==
  /\ IsFiniteSet(Halfway)
  /\ NoneFailed => /\ \A c \in DOMAIN Other : Level(c) = Level(Other[c])
                   /\ \E k \in Int : Level("drawn") = 2 * k

\* What the away team gets in a column is what the home team gets in the other.
LEMMA DeltaMirrored ==
  ASSUME TypeOK, NEW r \in Requests, NEW c \in DOMAIN Other
  PROVE  /\ c \in Columns /\ Other[c] \in DOMAIN Other /\ Other[Other[c]] = c
         /\ Delta(r, "home")[c] \in Int /\ Delta(r, "away")[c] \in Int
         /\ Delta(r, "away")[c] = Delta(r, "home")[Other[c]]
<1>1. c \in Columns /\ Other[c] \in DOMAIN Other /\ Other[Other[c]] = c
  BY DEF Other, Columns
<1>2. old[r] \in MatchRow /\ new[r] \in MatchRow
  BY DEF TypeOK
<1>3. ASSUME NEW row \in MatchRow
      PROVE  /\ GetStats(row, "home")[c] \in Int /\ GetStats(row, "away")[c] \in Int
             /\ GetStats(row, "away")[c] = GetStats(row, "home")[Other[c]]
  <2>. DEFINE h == row.home
              a == row.away
  <2>1. h \in Int /\ a \in Int
    BY DEF MatchRow
  <2>2. CASE row.status # "COMPLETED"
    BY <1>1, <2>2 DEF GetStats, NoStats, Other, Columns
  <2>3. CASE row.status = "COMPLETED"
    <3>1. /\ GoalsFor(row, "home") = h /\ GoalsAgainst(row, "home") = a
          /\ GoalsFor(row, "away") = a /\ GoalsAgainst(row, "away") = h
      BY DEF GoalsFor, GoalsAgainst
    <3>. HIDE DEF h, a
    <3>. QED BY <2>1, <2>3, <3>1 DEF GetStats, Other
  <2>. QED BY <2>2, <2>3
<1>4. /\ Delta(r, "home")[c] = GetStats(new[r], "home")[c] - GetStats(old[r], "home")[c]
      /\ Delta(r, "away")[c] = GetStats(new[r], "away")[c] - GetStats(old[r], "away")[c]
      /\ Delta(r, "home")[Other[c]] =
           GetStats(new[r], "home")[Other[c]] - GetStats(old[r], "home")[Other[c]]
  BY <1>1 DEF Delta, Minus, Other, Columns
<1>. QED BY <1>1, <1>2, <1>3, <1>4

LEMMA LevelType ==
  ASSUME TypeOK, NEW c \in DOMAIN Other
  PROVE  /\ \A t \in Teams : ColSum(standings[t], c) \in Int
         /\ TableSum(c) \in Int
         /\ IntOn(Owed(c), Requests)
         /\ IsFiniteSet(Halfway) =>
              Sum(Owed(c), Halfway) \in Int /\ Level(c) \in Int
<1>1. c \in Columns
  BY DEF Other, Columns
<1>2. ASSUME NEW t \in Teams PROVE ColSum(standings[t], c) \in Int
  <2>1. standings[t] \in Seq(Standing) /\ \A v \in Standing : v[c] \in Int
    BY <1>1 DEF TypeOK, Standing
  <2>. QED BY <2>1, CellsType
<1>3. TableSum(c) \in Int
  <2>. DEFINE F == [t \in Teams |-> ColSum(standings[t], c)]
  <2>1. \A t \in Teams : F[t] \in Int
    BY <1>2
  <2>2. IsFiniteSet(Teams)
    BY MatchesAssumption
  <2>. HIDE DEF F
  <2>3. Sum(F, Teams) \in Int
    BY <2>1, <2>2, SumRemove
  <2>. QED BY <2>3 DEF TableSum, F
<1>4. IntOn(Owed(c), Requests)
  BY DeltaMirrored DEF IntOn, Owed
<1>5. IsFiniteSet(Halfway) => Sum(Owed(c), Halfway) \in Int
  <2>1. \A r \in Halfway : Owed(c)[r] \in Int
    BY <1>4 DEF IntOn, Halfway
  <2>. QED BY <2>1, SumRemove
<1>. QED BY <1>2, <1>3, <1>4, <1>5 DEF Level

\* Lines of one team grow, and the table by as much.
LEMMA TableGains ==
  ASSUME TypeOK, NEW c \in DOMAIN Other, NEW team \in Teams, NEW d \in Int,
         \A t \in Teams : ColSum(standings'[t], c) =
                            ColSum(standings[t], c) + (IF t = team THEN d ELSE 0)
  PROVE  TableSum(c)' = TableSum(c) + d
<1>. DEFINE F == [t \in Teams |-> ColSum(standings[t], c)]
            G == [t \in Teams |-> ColSum(standings'[t], c)]
<1>1. IntOn(F, Teams) /\ \A t \in Teams : G[t] = F[t] + (IF t = team THEN d ELSE 0)
  BY LevelType DEF IntOn
<1>2. TableSum(c) = Sum(F, Teams) /\ TableSum(c)' = Sum(G, Teams)
  BY DEF TableSum
<1>3. IsFiniteSet(Teams)
  BY MatchesAssumption
<1>. HIDE DEF F, G
<1>4. IntOn(G, Teams)
  BY <1>1 DEF IntOn
<1>5. OnlyAt(team, F, G, Teams)
  BY <1>1 DEF OnlyAt, IntOn
<1>6. Sum(G, Teams) = Sum(F, Teams) + (G[team] - F[team])
  BY <1>1, <1>3, <1>4, <1>5, SumChange
<1>7. G[team] - F[team] = d
  BY <1>1 DEF IntOn
<1>. QED BY <1>2, <1>6, <1>7

\* A step that writes no line and leaves alone the handlers halfway.
LEMMA MirroredFrame ==
  ASSUME TypeOK, Mirrored, UNCHANGED standings, Halfway' = Halfway,
         \A r \in Halfway : new'[r] = new[r] /\ old'[r] = old[r],
         NoneFailed' => NoneFailed
  PROVE  Mirrored'
<1>1. ASSUME NEW c \in DOMAIN Other PROVE Level(c)' = Level(c)
  <2>1. TableSum(c)' = TableSum(c)
    BY DEF TableSum
  <2>2. Sum(Owed(c)', Halfway) = Sum(Owed(c), Halfway)
    <3>. DEFINE F == Owed(c)
                G == Owed(c)'
                H == Halfway
    <3>1. \A r \in H : F[r] = G[r]
      BY DEF Owed, Delta, Halfway
    <3>2. IsFiniteSet(H)
      BY DEF Mirrored
    <3>. HIDE DEF F, G, H
    <3>3. Sum(F, H) = Sum(G, H)
      BY <3>1, <3>2, SumSame
    <3>. QED BY <3>3 DEF F, G, H
  <2>. QED BY <2>1, <2>2 DEF Level
<1>2. \A c \in DOMAIN Other : Other[c] \in DOMAIN Other
  BY DEF Other
<1>3. "drawn" \in DOMAIN Other
  BY DEF Other
<1>. QED BY <1>1, <1>2, <1>3 DEF Mirrored

\* A handler that is through with the home team has added its share of a column,
\* and owes the same to the other.
LEMMA MirroredJoin ==
  ASSUME TypeOK, Mirrored, NEW r \in Requests, r \notin Halfway,
         Halfway' = Halfway \cup {r}, UNCHANGED <<new, old>>,
         \A c \in DOMAIN Other : TableSum(c)' = TableSum(c) + Delta(r, "home")[c],
         NoneFailed' => NoneFailed
  PROVE  Mirrored'
<1>1. IsFiniteSet(Halfway')
  BY FS_AddElement DEF Mirrored
<1>2. ASSUME NEW c \in DOMAIN Other
      PROVE  Level(c)' = Level(c) + (Delta(r, "home")[c] + Delta(r, "home")[Other[c]])
  <2>. DEFINE F == Owed(c)
              H == Halfway
              hc == Delta(r, "home")[c]
              ho == Delta(r, "home")[Other[c]]
  <2>1. Owed(c)' = F
    BY DEF Owed, Delta
  <2>2. F[r] = ho /\ ho \in Int /\ hc \in Int
    BY DeltaMirrored DEF Owed
  <2>3. IsFiniteSet(H) /\ r \notin H
    BY DEF Mirrored
  <2>4. /\ TableSum(c) \in Int /\ Sum(F, H) \in Int /\ \A q \in H : F[q] \in Int
        /\ TableSum(c)' = TableSum(c) + hc
    BY <2>3, LevelType DEF IntOn, Halfway
  <2>5. Level(c) = TableSum(c) + Sum(F, H) /\ Level(c)' = TableSum(c)' + Sum(F, H \cup {r})
    BY <2>1 DEF Level
  <2>. HIDE DEF F, H, hc, ho
  <2>6. Sum(F, H \cup {r}) = Sum(F, H) + F[r]
    <3>1. \A q \in H : F[q] \in Int /\ F[q] = F[q]
      BY <2>4
    <3>2. F[r] \in Int
      BY <2>2
    <3>. QED BY <2>3, <3>1, <3>2, SumAdd
  <2>7. Level(c)' = Level(c) + (hc + ho)
    BY <2>2, <2>4, <2>5, <2>6
  <2>. QED BY <2>7 DEF hc, ho
<1>3. ASSUME NoneFailed, NEW c \in DOMAIN Other PROVE Level(c)' = Level(Other[c])'
  <2>. DEFINE b == Other[c]
              x == Delta(r, "home")[c]
              y == Delta(r, "home")[b]
  <2>1. b \in DOMAIN Other /\ Other[b] = c /\ x \in Int
    BY DeltaMirrored
  <2>2. y \in Int
    BY <2>1, DeltaMirrored
  <2>3. Level(c)' = Level(c) + (x + y)
    BY <1>2
  <2>4. Level(b)' = Level(b) + (y + x)
    <3>. HIDE DEF b
    <3>. QED BY <1>2, <2>1
  <2>5. Level(c) = Level(b)
    BY <1>3 DEF Mirrored
  <2>. HIDE DEF b, x, y
  <2>6. Level(c)' = Level(b)'
    BY <2>1, <2>2, <2>3, <2>4, <2>5
  <2>. QED BY <2>6 DEF b
<1>4. ASSUME NoneFailed PROVE \E k \in Int : Level("drawn")' = 2 * k
  <2>. DEFINE x == Delta(r, "home")["drawn"]
  <2>1. "drawn" \in DOMAIN Other /\ Other["drawn"] = "drawn"
    BY DEF Other
  <2>2. x \in Int
    BY <2>1, DeltaMirrored
  <2>3. Level("drawn")' = Level("drawn") + (x + x)
    BY <1>2, <2>1
  <2>4. PICK k \in Int : Level("drawn") = 2 * k
    BY <1>4 DEF Mirrored
  <2>. HIDE DEF x
  <2>5. Level("drawn")' = 2 * (k + x) /\ k + x \in Int
    BY <2>2, <2>3, <2>4
  <2>. QED BY <2>5
<1>. QED BY <1>1, <1>3, <1>4 DEF Mirrored

\* A handler that is through with the away team has added what it owed.
LEMMA MirroredLeave ==
  ASSUME TypeOK, Mirrored, NEW r \in Requests, r \in Halfway,
         Halfway' = Halfway \ {r}, UNCHANGED <<new, old>>,
         \A c \in DOMAIN Other : TableSum(c)' = TableSum(c) + Delta(r, "away")[c],
         NoneFailed' => NoneFailed
  PROVE  Mirrored'
<1>1. IsFiniteSet(Halfway')
  BY FS_RemoveElement DEF Mirrored
<1>2. ASSUME NEW c \in DOMAIN Other PROVE Level(c)' = Level(c)
  <2>. DEFINE F == Owed(c)
              H == Halfway
              ac == Delta(r, "away")[c]
  <2>1. Owed(c)' = F
    BY DEF Owed, Delta
  <2>2. F[r] = ac /\ ac \in Int
    BY DeltaMirrored DEF Owed
  <2>3. IsFiniteSet(H) /\ r \in H /\ IsFiniteSet(H \ {r})
    BY FS_RemoveElement DEF Mirrored
  <2>4. /\ TableSum(c) \in Int /\ \A q \in H : F[q] \in Int
        /\ TableSum(c)' = TableSum(c) + ac
    BY <2>3, LevelType DEF IntOn, Halfway
  <2>5. Level(c) = TableSum(c) + Sum(F, H) /\ Level(c)' = TableSum(c)' + Sum(F, H \ {r})
    BY <2>1 DEF Level
  <2>. HIDE DEF F, H, ac
  <2>6. Sum(F, H) = Sum(F, H \ {r}) + F[r]
    BY <2>3, <2>4, SumRemove
  <2>7. Sum(F, H \ {r}) \in Int
    BY <2>3, <2>4, SumRemove
  <2>. QED BY <2>2, <2>4, <2>5, <2>6, <2>7
<1>3. \A c \in DOMAIN Other : Other[c] \in DOMAIN Other
  BY DEF Other
<1>4. "drawn" \in DOMAIN Other
  BY DEF Other
<1>. QED BY <1>1, <1>2, <1>3, <1>4 DEF Mirrored

\* What a table with lines for all its teams gains from an apply step.
LEMMA TableApplied ==
  ASSUME TypeOK, Located, Seeded, TableInitialised, NEW r \in Requests,
         NEW s \in Sides, NEW next, ApplyStanding(r, s, next),
         pc[r] = IF s = "home" THEN "applyHome" ELSE "applyAway",
         NEW c \in DOMAIN Other
  PROVE  TableSum(c)' = TableSum(c) + Delta(r, s)[c]
<1>1. /\ found[r] # 0 /\ TeamOf(on[r], s) \in Teams
      /\ found[r] \in {0} \cup DOMAIN standings[TeamOf(on[r], s)]
  BY MatchesAssumption DEF Seeded, Applying, Located, InPlace, TeamOf, TypeOK, Sides
<1>2. \A t \in Teams, b \in Columns :
        ColSum(standings'[t], b) = ColSum(standings[t], b)
          + (IF t = TeamOf(on[r], s) THEN Delta(r, s)[b] ELSE 0)
  BY <1>1, AppliedLine
<1>3. Delta(r, s)[c] \in Int /\ c \in Columns
  BY DeltaMirrored DEF Sides
<1>. DEFINE team == TeamOf(on[r], s)
            d == Delta(r, s)[c]
<1>4. team \in Teams /\ d \in Int
  BY <1>1, <1>3
<1>5. \A t \in Teams : ColSum(standings'[t], c) =
                         ColSum(standings[t], c) + (IF t = team THEN d ELSE 0)
  BY <1>2, <1>3
<1>. HIDE DEF team, d
<1>6. TableSum(c)' = TableSum(c) + d
  BY <1>4, <1>5, TableGains
<1>. QED BY <1>6 DEF d

LEMMA MirroredStep ==
  ASSUME TableInitialised
  PROVE  TypeOK /\ Located /\ Seeded /\ Mirrored /\ [Next]_vars => Mirrored'
<1>. SUFFICES ASSUME TypeOK, Located, Seeded, Mirrored, [Next]_vars PROVE Mirrored'
  OBVIOUS
<1>. DEFINE half == {"findAway", "applyAway"}
<1>1. ASSUME NEW r \in Requests, NEW label, pc' = [pc EXCEPT ![r] = label],
             pc[r] # "failed"
      PROVE  /\ NoneFailed' => NoneFailed
             /\ label \in half => Halfway' = Halfway \cup {r}
             /\ label \notin half => Halfway' = Halfway \ {r}
  <2>1. pc'[r] = label /\ \A q \in Requests : q # r => pc'[q] = pc[q]
    BY <1>1 DEF TypeOK
  <2>2. NoneFailed' => NoneFailed
    BY <1>1, <2>1 DEF NoneFailed
  <2>3. \A q \in Requests : q \in Halfway' <=> (IF q = r THEN label \in half ELSE q \in Halfway)
    BY <2>1 DEF Halfway
  <2>4. Halfway \subseteq Requests /\ Halfway' \subseteq Requests
    BY DEF Halfway
  <2>. QED BY <2>2, <2>3, <2>4
<1>2. ASSUME NEW r \in Requests, UNCHANGED standings, NEW label,
             pc' = [pc EXCEPT ![r] = label], pc[r] \notin half \cup {"failed"},
             label \notin half,
             \A q \in Requests : q # r => new'[q] = new[q] /\ old'[q] = old[q]
      PROVE  Mirrored'
  <2>1. r \notin Halfway
    BY <1>2 DEF Halfway
  <2>2. Halfway' = Halfway /\ (NoneFailed' => NoneFailed)
    BY <1>1, <1>2, <2>1
  <2>3. \A q \in Halfway : new'[q] = new[q] /\ old'[q] = old[q]
    BY <1>2, <2>1 DEF Halfway
  <2>. QED BY <1>2, <2>2, <2>3, MirroredFrame
<1>3. CASE UNCHANGED <<standings, pc, new, old>>
  BY <1>3, MirroredFrame DEF Halfway, NoneFailed
<1>4. ASSUME NEW r \in Requests, Arrive(r) PROVE Mirrored'
  <2>1. /\ pc[r] = "idle" /\ UNCHANGED standings
        /\ \E label \in {"rejected", "write", "event"} : pc' = [pc EXCEPT ![r] = label]
        /\ \A q \in Requests : q # r => new'[q] = new[q] /\ old'[q] = old[q]
    BY <1>4 DEF Arrive, BeginUpdate, BeginEvent, Goto, tables, locals, TypeOK
  <2>. QED BY <2>1, <1>2
<1>5. ASSUME NEW r \in Requests,
             \/ WriteMatch(r) \/ PublishUpdate(r) \/ CreateEvent(r) \/ ScoreGoal(r)
             \/ PublishGoal(r) \/ FindStat(r) \/ ApplyStat(r)
      PROVE  Mirrored'
  <2>1. /\ pc[r] \in {"write", "publish", "event", "goal", "publishGoal", "findStat",
                      "applyStat"}
        /\ UNCHANGED standings
        /\ \E label \in {"findHome", "publish", "done", "goal", "publishGoal",
                         "findStat", "applyStat"} : pc' = [pc EXCEPT ![r] = label]
    BY <1>5 DEF WriteMatch, PublishUpdate, CreateEvent, ScoreGoal, PublishGoal,
                FindStat, ApplyStat, AfterScore, Goto, tables, locals
  <2>2. \A q \in Requests : q # r => new'[q] = new[q] /\ old'[q] = old[q]
    BY <1>5 DEF WriteMatch, PublishUpdate, CreateEvent, ScoreGoal, PublishGoal,
                FindStat, ApplyStat, locals, TypeOK
  <2>. QED BY <2>1, <2>2, <1>2
<1>6. ASSUME NEW s \in Sides, NEW r \in Requests, Delta(r, s) = NoStats,
             UNCHANGED standings, NEW c \in DOMAIN Other
      PROVE  TableSum(c)' = TableSum(c) + Delta(r, s)[c]
  <2>1. Delta(r, s)[c] = 0
    BY <1>6, DeltaMirrored DEF NoStats
  <2>2. TableSum(c)' = TableSum(c)
    BY <1>6 DEF TableSum
  <2>3. TableSum(c) \in Int
    BY LevelType
  <2>. QED BY <2>1, <2>2, <2>3
<1>7. ASSUME NEW r \in Requests, FindHome(r) PROVE Mirrored'
  <2>1. /\ pc[r] = "findHome" /\ UNCHANGED <<standings, new, old>>
        /\ \/ pc' = [pc EXCEPT ![r] = "findAway"] /\ Delta(r, "home") = NoStats
           \/ pc' = [pc EXCEPT ![r] = "applyHome"]
    BY <1>7 DEF FindHome, FindStanding, Goto, tables
  <2>2. CASE pc' = [pc EXCEPT ![r] = "applyHome"]
    BY <2>1, <2>2, <1>2
  <2>3. CASE pc' = [pc EXCEPT ![r] = "findAway"] /\ Delta(r, "home") = NoStats
    <3>1. \A c \in DOMAIN Other : TableSum(c)' = TableSum(c) + Delta(r, "home")[c]
      BY <2>1, <2>3, <1>6 DEF Sides
    <3>2. r \notin Halfway /\ Halfway' = Halfway \cup {r} /\ (NoneFailed' => NoneFailed)
      BY <2>1, <2>3, <1>1 DEF Halfway
    <3>. QED BY <2>1, <3>1, <3>2, MirroredJoin
  <2>. QED BY <2>1, <2>2, <2>3
<1>8. ASSUME NEW r \in Requests, ApplyHome(r) PROVE Mirrored'
  <2>1. /\ pc[r] = "applyHome" /\ UNCHANGED <<new, old>>
        /\ pc' = [pc EXCEPT ![r] = "findAway"] /\ ApplyStanding(r, "home", "findAway")
    BY <1>8 DEF ApplyHome, ApplyStanding, Goto, locals
  <2>2. \A c \in DOMAIN Other : TableSum(c)' = TableSum(c) + Delta(r, "home")[c]
    BY <2>1, TableApplied DEF Sides
  <2>3. r \notin Halfway /\ Halfway' = Halfway \cup {r} /\ (NoneFailed' => NoneFailed)
    BY <2>1, <1>1 DEF Halfway
  <2>. QED BY <2>1, <2>2, <2>3, MirroredJoin
<1>9. ASSUME NEW r \in Requests, FindAway(r) PROVE Mirrored'
  <2>1. /\ pc[r] = "findAway" /\ UNCHANGED <<standings, new, old>>
        /\ \/ pc' = [pc EXCEPT ![r] = "publish"] /\ Delta(r, "away") = NoStats
           \/ pc' = [pc EXCEPT ![r] = "applyAway"]
    BY <1>9 DEF FindAway, FindStanding, Goto, tables
  <2>2. r \in Halfway
    BY <2>1 DEF Halfway
  <2>3. CASE pc' = [pc EXCEPT ![r] = "applyAway"]
    <3>1. Halfway' = Halfway \cup {r} /\ (NoneFailed' => NoneFailed)
      BY <2>1, <2>3, <1>1
    <3>2. \A q \in Halfway : new'[q] = new[q] /\ old'[q] = old[q]
      BY <2>1
    <3>3. UNCHANGED standings
      BY <2>1
    <3>4. Halfway' = Halfway
      BY <2>2, <3>1
    <3>. QED BY <3>1, <3>2, <3>3, <3>4, MirroredFrame
  <2>4. CASE pc' = [pc EXCEPT ![r] = "publish"] /\ Delta(r, "away") = NoStats
    <3>1. \A c \in DOMAIN Other : TableSum(c)' = TableSum(c) + Delta(r, "away")[c]
      BY <2>1, <2>4, <1>6 DEF Sides
    <3>2. Halfway' = Halfway \ {r} /\ (NoneFailed' => NoneFailed)
      BY <2>1, <2>4, <1>1
    <3>. QED BY <2>1, <2>2, <3>1, <3>2, MirroredLeave
  <2>. QED BY <2>1, <2>3, <2>4
<1>10. ASSUME NEW r \in Requests, ApplyAway(r) PROVE Mirrored'
  <2>1. /\ pc[r] = "applyAway" /\ UNCHANGED <<new, old>>
        /\ pc' = [pc EXCEPT ![r] = "publish"] /\ ApplyStanding(r, "away", "publish")
    BY <1>10 DEF ApplyAway, ApplyStanding, Goto, locals
  <2>2. \A c \in DOMAIN Other : TableSum(c)' = TableSum(c) + Delta(r, "away")[c]
    BY <2>1, TableApplied DEF Sides
  <2>3. r \in Halfway
    BY <2>1 DEF Halfway
  <2>4. Halfway' = Halfway \ {r} /\ (NoneFailed' => NoneFailed)
    <3>1. pc' = [pc EXCEPT ![r] = "publish"] /\ pc[r] # "failed" /\ "publish" \notin half
      BY <2>1
    <3>. HIDE DEF half
    <3>. QED BY <3>1, <1>1
  <2>5. UNCHANGED <<new, old>>
    BY <2>1
  <2>. QED BY <2>2, <2>3, <2>4, <2>5, MirroredLeave
<1>11. ASSUME NEW r \in Requests, Fail(r) PROVE Mirrored'
  <2>1. pc'[r] = "failed" /\ \A q \in Requests : q # r => pc'[q] = pc[q]
    BY <1>11 DEF Fail, Goto, TypeOK
  <2>2. ~ NoneFailed'
    BY <2>1 DEF NoneFailed
  <2>3. Halfway' \subseteq Halfway
    BY <2>1 DEF Halfway
  <2>4. IsFiniteSet(Halfway')
    BY <2>3, FS_Subset DEF Mirrored
  <2>. QED BY <2>2, <2>4 DEF Mirrored
<1>12. ASSUME UNCHANGED vars \/ Terminated \/ \E m \in Matches, row \in NewRows : Create(m, row)
       PROVE  Mirrored'
  BY <1>12, <1>3 DEF vars, Terminated, Create, locals
<1>. QED
  BY <1>4, <1>5, <1>7, <1>8, <1>9, <1>10, <1>11, <1>12 DEF Next, Step

\* At the start the table is zero and no handler is halfway.
LEMMA MirroredInit == Init => Mirrored
<1>. SUFFICES ASSUME Init PROVE Mirrored
  OBVIOUS
<1>1. Halfway = {} /\ IsFiniteSet({})
  BY FS_EmptySet DEF Init, Halfway
<1>2. ASSUME NEW c \in DOMAIN Other PROVE Level(c) = 0
  <2>1. c \in Columns
    BY DEF Other, Columns
  <2>2. \A t \in Teams : ColSum(standings[t], c) = 0
    BY <2>1, AddedUpInit
  <2>3. TableSum(c) = 0
    BY <2>2, MatchesAssumption, SumZero DEF TableSum
  <2>4. Sum(Owed(c), {}) = 0
    BY SumEmpty
  <2>. QED BY <1>1, <2>3, <2>4 DEF Level
<1>3. \A c \in DOMAIN Other : Other[c] \in DOMAIN Other
  BY DEF Other
<1>4. "drawn" \in DOMAIN Other /\ 0 = 2 * 0
  BY DEF Other
<1>. QED BY <1>1, <1>2, <1>3, <1>4 DEF Mirrored

LEMMA TotalIsTableSum ==
  ASSUME TypeOK, NEW c \in Columns
  PROVE  Total(c) = TableSum(c)
<1>. DEFINE S == Teams
            F == [t \in Teams |-> ColSum(standings[t], c)]
            Eq(f) == f = [s \in SUBSET S |-> IF s = {} THEN 0
                            ELSE LET x == CHOOSE x \in s : TRUE
                                 IN  RowSum(x, c) + f[s \ {x}]]
            it == CHOOSE f : Eq(f)
<1>1. Total(c) = it[S]
  BY Zenon DEF Total, MapThenSumSet, MapThenFoldSet
<1>2. IsFiniteSet(S)
  BY MatchesAssumption
<1>3. \A f : Eq(f) <=> SumFn(F, S, f)
  <2>1. \A t \in S : F[t] = RowSum(t, c)
    BY RowSumIsColSum
  <2>. HIDE DEF F
  <2>. QED BY <2>1 DEF SumFn
<1>4. \E f : Eq(f)
  <2>1. \E f : SumFn(F, S, f)
    <3>. HIDE DEF F, S
    <3>. QED BY <1>2, SumFnExists
  <2>. HIDE DEF Eq
  <2>. QED BY <2>1, <1>3
<1>5. SumFn(F, S, it)
  BY <1>3, <1>4
<1>. HIDE DEF it, F, S
<1>6. Sum(F, S) = it[S]
  BY <1>2, <1>5, SumOfSubset
<1>. QED BY <1>1, <1>6 DEF TableSum, F, S

\* getStandings of a league startSeason has begun: even if updates of a match
\* overlapped and counted a result twice, the goals for and against, the wins
\* and the defeats of the table are equal and the draws pair up whenever no
\* handler is at work, unless one failed between the two teams.
THEOREM BothSidesCount ==
  ASSUME TableInitialised
  PROVE  Spec => []TableBalanced
<1>1. TypeOK /\ Mirrored => TableBalanced
  <2>. SUFFICES ASSUME TypeOK, Mirrored, AllQuiet, NoneFailed
                PROVE  /\ Total("goalsFor") = Total("goalsAgainst")
                       /\ Total("won") = Total("lost")
                       /\ Total("drawn") % 2 = 0
    BY DEF TableBalanced
  <2>1. Halfway = {}
    BY DEF AllQuiet, Quiet, Active, Ended, Halfway, TypeOK
  <2>2. ASSUME NEW c \in DOMAIN Other PROVE Total(c) = Level(c)
    <3>1. c \in Columns
      BY DEF Other, Columns
    <3>2. TableSum(c) \in Int
      BY LevelType
    <3>3. Sum(Owed(c), {}) = 0
      BY SumEmpty
    <3>. QED BY <2>1, <3>1, <3>2, <3>3, TotalIsTableSum DEF Level
  <2>3. \A c \in DOMAIN Other : Total(c) = Total(Other[c])
    BY <2>2, DeltaMirrored DEF Mirrored, Other
  <2>4. PICK k \in Int : Total("drawn") = 2 * k
    BY <2>2 DEF Mirrored, Other
  <2>5. Total("drawn") % 2 = 0
    BY <2>4
  <2>. QED BY <2>3, <2>5 DEF Other
<1>2. TypeOK /\ Located /\ Seeded /\ Mirrored /\ [Next]_vars => Mirrored'
  BY MirroredStep
<1>. QED
  BY <1>1, <1>2, MirroredInit, AlwaysLocated, AlwaysSeeded, PTL DEF Spec
=============================================================================
