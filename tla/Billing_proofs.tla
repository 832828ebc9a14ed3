--------------------------- MODULE Billing_proofs ---------------------------
(***************************************************************************)
(* Billing for any number of processes, references and rows: the row locks *)
(* and the balances read under them, the types of all variables, the       *)
(* refinement of WalletSpec and the budget. The invariant is Inv (locks),  *)
(* Books (types and what transactions know) and Budgeted. The facts about  *)
(* sums that the last three need come first.                               *)
(***************************************************************************)
EXTENDS Billing, CreditBook_proofs, FiniteSetTheorems, WellFoundedInduction, TLAPS

(***************************************************************************)
(* Sums. SumFunctionOnSet is a fold, a recursive function on the subsets   *)
(* of a finite set; the induction over these is the least counterexample.  *)
(***************************************************************************)
\* A set of naturals has a least element.
LEMMA LeastNatural ==
  ASSUME NEW S \in SUBSET Nat, S /= {}
  PROVE  \E m \in S : \A x \in S : m <= x
<1> DEFINE R == {ss \in Nat \X Nat : ss[1] < ss[2]}
<1>1. IsWellFoundedOn(R, Nat)
  BY NatLessThanWellFounded DEF OpToRel
<1>2. PICK m \in S : \A x \in S : ~ (<<x, m>> \in R)
  <2> HIDE DEF R
  <2> QED BY <1>1, WFMin
<1>3. ASSUME NEW x \in S PROVE m <= x
  <2>1. x \in Nat /\ m \in Nat /\ <<x, m>> \in Nat \X Nat
    OBVIOUS
  <2>2. x < m => <<x, m>> \in R
    BY <2>1
  <2>3. QED
    BY <1>2, <2>1, <2>2
<1>4. QED
  BY <1>3

\* Induction over the naturals, for a set of them.
LEMMA NaturalSteps ==
  ASSUME NEW A, 0 \in A, \A n \in Nat : n \in A => n + 1 \in A
  PROVE  Nat \subseteq A
<1> SUFFICES ASSUME Nat \ A /= {} PROVE FALSE
  OBVIOUS
<1>1. PICK m \in Nat \ A : \A n \in Nat \ A : m <= n
  BY LeastNatural
<1>2. m - 1 \in Nat /\ m - 1 \notin A
  BY <1>1
<1>3. QED
  BY <1>1, <1>2

\* Induction over the subsets of a finite set, for a set of them.
LEMMA SubsetSteps ==
  ASSUME NEW S, IsFiniteSet(S), NEW Q,
         \A T \in SUBSET S : (\A x \in T : T \ {x} \in Q) => T \in Q
  PROVE  \A T \in SUBSET S : T \in Q
<1> DEFINE B == {n \in Nat : \E T \in SUBSET S : T \notin Q /\ Cardinality(T) = n}
<1> SUFFICES ASSUME NEW V \in SUBSET S, V \notin Q PROVE FALSE
  OBVIOUS
<1>1. \A T \in SUBSET S : IsFiniteSet(T) /\ Cardinality(T) \in Nat
  BY FS_Subset, FS_CardinalityType
<1>2. B \in SUBSET Nat /\ B /= {}
  BY <1>1
<1>3. PICK m \in B : \A n \in B : m <= n
  <2> HIDE DEF B
  <2> QED BY <1>2, LeastNatural
<1>4. PICK T \in SUBSET S : T \notin Q /\ Cardinality(T) = m
  OBVIOUS
<1>5. PICK x \in T : T \ {x} \notin Q
  BY <1>4
<1>6. Cardinality(T \ {x}) = m - 1
  BY <1>1, <1>4, FS_RemoveElement
<1>7. m - 1 \in B
  BY <1>1, <1>5, <1>6
<1>8. QED
  BY <1>2, <1>3, <1>7

First(s) == CHOOSE x \in s : TRUE

\* The function that the fold iterates.
Adds(g, f, s) == IF s = {} THEN 0 ELSE f[First(s)] + g[s \ {First(s)}]
Total(f, S) == CHOOSE g : g = [s \in SUBSET S |-> Adds(g, f, s)]

\* A sum is the fold of the community modules.
LEMMA SumIsTotal ==
  ASSUME NEW f, NEW S PROVE SumFunctionOnSet(f, S) = Total(f, S)[S]
BY DEF SumFunctionOnSet, FoldFunctionOnSet, MapThenFoldSet, Total, Adds, First

\* A set that is not empty has a first element.
LEMMA FirstIn == ASSUME NEW s, s /= {} PROVE First(s) \in s
BY DEF First

\* The fold exists on a finite set.
LEMMA TotalExists ==
  ASSUME NEW f, NEW S, IsFiniteSet(S)
  PROVE  \A s \in SUBSET S : Total(f, S)[s] = Adds(Total(f, S), f, s)
<1> DEFINE Up(n) == {s \in SUBSET S : Cardinality(s) <= n}
           A == {n \in Nat : \E g : \A s \in Up(n) : g[s] = Adds(g, f, s)}
<1>1. \A s \in SUBSET S : IsFiniteSet(s) /\ Cardinality(s) \in Nat
  BY FS_Subset, FS_CardinalityType
<1>2. ASSUME NEW n \in Nat, NEW s \in Up(n), s /= {}
      PROVE  s \ {First(s)} \in SUBSET S /\ Cardinality(s \ {First(s)}) = Cardinality(s) - 1
  BY <1>1, <1>2, FirstIn, FS_RemoveElement
<1>3. 0 \in A
  <2> DEFINE g == [s \in SUBSET S |-> 0]
  <2>1. \A s \in Up(0) : s = {}
    BY <1>1, FS_EmptySet
  <2>2. \A s \in Up(0) : g[s] = Adds(g, f, s)
    BY <2>1 DEF Adds
  <2>3. QED
    BY <2>2
<1>4. ASSUME NEW n \in Nat, n \in A PROVE n + 1 \in A
  <2>1. PICK g : \A s \in Up(n) : g[s] = Adds(g, f, s)
    BY <1>4
  <2> DEFINE h == [s \in SUBSET S |-> IF Cardinality(s) <= n THEN g[s] ELSE Adds(g, f, s)]
  <2>2. ASSUME NEW s \in Up(n + 1) PROVE h[s] = Adds(h, f, s)
    <3>1. h[s] = Adds(g, f, s)
      BY <2>1, <2>2
    <3>2. s /= {} => h[s \ {First(s)}] = g[s \ {First(s)}]
      BY <1>1, <1>2, <2>2
    <3> HIDE DEF h
    <3>3. QED
      BY <3>1, <3>2 DEF Adds
  <2>3. \A s \in Up(n + 1) : h[s] = Adds(h, f, s)
    BY <2>2
  <2>4. \E z : \A s \in Up(n + 1) : z[s] = Adds(z, f, s)
    <3> HIDE DEF h
    <3>1. QED
      BY <2>3
  <2>5. QED
    BY <2>4
<1>5. PICK g : \A s \in SUBSET S : g[s] = Adds(g, f, s)
  <2>1. Cardinality(S) \in A
    <3> HIDE DEF A
    <3>1. Nat \subseteq A
      BY <1>3, <1>4, NaturalSteps
    <3>2. QED
      BY <1>1, <3>1
  <2>2. \A s \in SUBSET S : s \in Up(Cardinality(S))
    BY FS_Subset
  <2>3. QED
    BY <2>1, <2>2
<1> DEFINE h == [s \in SUBSET S |-> g[s]]
<1>6. ASSUME NEW s \in SUBSET S PROVE h[s] = Adds(h, f, s)
  <2>1. s /= {} => s \ {First(s)} \in SUBSET S
    BY FirstIn
  <2>2. QED
    BY <1>5, <2>1 DEF Adds
<1>7. h = [s \in SUBSET S |-> Adds(h, f, s)]
  BY <1>6
<1>8. Total(f, S) = [s \in SUBSET S |-> Adds(Total(f, S), f, s)]
  <2> HIDE DEF h
  <2>1. QED
    BY <1>7 DEF Total
<1>9. QED
  BY <1>8

\* The fold of a subset does not depend on the set around it, nor on what is
\* not summed.
LEMMA TotalAgrees ==
  ASSUME NEW f, NEW g, NEW S, NEW V, IsFiniteSet(S), IsFiniteSet(V), NEW W \in SUBSET S,
         W \in SUBSET V, \A x \in W : f[x] = g[x]
  PROVE  Total(f, S)[W] = Total(g, V)[W]
<1> DEFINE Q == {T \in SUBSET W : Total(f, S)[T] = Total(g, V)[T]}
<1>1. ASSUME NEW T \in SUBSET W, \A x \in T : T \ {x} \in Q PROVE T \in Q
  <2>1. Total(f, S)[T] = Adds(Total(f, S), f, T) /\ Total(g, V)[T] = Adds(Total(g, V), g, T)
    BY TotalExists
  <2>2. CASE T = {}
    BY <2>1, <2>2 DEF Adds
  <2>3. CASE T /= {}
    <3>1. First(T) \in T /\ f[First(T)] = g[First(T)]
      BY <2>3, FirstIn
    <3>2. Total(f, S)[T \ {First(T)}] = Total(g, V)[T \ {First(T)}]
      BY <1>1, <3>1
    <3>3. QED
      BY <2>1, <2>3, <3>1, <3>2 DEF Adds
  <2>4. QED
    BY <2>2, <2>3
<1>2. IsFiniteSet(W)
  BY FS_Subset
<1>3. W \in Q
  <2> HIDE DEF Q
  <2>1. QED
    BY <1>1, <1>2, SubsetSteps
<1>4. QED
  BY <1>3

Sum(f, S) == SumFunctionOnSet(f, S)

\* Sums of functions that agree are equal.
LEMMA SumAgrees ==
  ASSUME NEW f, NEW g, NEW S, IsFiniteSet(S), \A x \in S : f[x] = g[x]
  PROVE  Sum(f, S) = Sum(g, S)
BY SumIsTotal, TotalAgrees DEF Sum

\* A sum is nothing, or the first element and the sum of the others.
LEMMA SumFirst ==
  ASSUME NEW f, NEW S, IsFiniteSet(S)
  PROVE  /\ S = {} => Sum(f, S) = 0
         /\ S /= {} => Sum(f, S) = f[First(S)] + Sum(f, S \ {First(S)})
<1>1. Sum(f, S) = Adds(Total(f, S), f, S)
  BY SumIsTotal, TotalExists DEF Sum
<1>2. ASSUME S /= {} PROVE Total(f, S)[S \ {First(S)}] = Sum(f, S \ {First(S)})
  <2>1. IsFiniteSet(S \ {First(S)})
    BY FS_RemoveElement
  <2>2. QED
    BY <2>1, SumIsTotal, TotalAgrees DEF Sum
<1>3. QED
  BY <1>1, <1>2 DEF Adds

\* A sum of numbers from a set that is closed under addition is in that set.
LEMMA SumClosed ==
  ASSUME NEW D, 0 \in D, \A a, b \in D : a + b \in D,
         NEW f, NEW S, IsFiniteSet(S), \A x \in S : f[x] \in D
  PROVE  Sum(f, S) \in D
<1> DEFINE Q == {T \in SUBSET S : Sum(f, T) \in D}
<1>1. ASSUME NEW T \in SUBSET S, \A x \in T : T \ {x} \in Q PROVE Sum(f, T) \in D
  <2>1. IsFiniteSet(T)
    BY FS_Subset
  <2>2. CASE T = {}
    <3>1. Sum(f, T) = 0
      BY <2>1, <2>2, SumFirst
    <3>2. QED
      BY <3>1
  <2>3. CASE T /= {}
    <3>1. First(T) \in T
      BY <2>3, FirstIn
    <3>2. f[First(T)] \in D /\ Sum(f, T \ {First(T)}) \in D
      BY <1>1, <3>1
    <3>3. Sum(f, T) = f[First(T)] + Sum(f, T \ {First(T)})
      BY <2>1, <2>3, SumFirst
    <3>4. QED
      BY <3>2, <3>3
  <2>4. QED
    BY <2>2, <2>3
<1>2. \A T \in SUBSET S : (\A x \in T : T \ {x} \in Q) => T \in Q
  BY <1>1
<1>3. \A T \in SUBSET S : T \in Q
  <2> HIDE DEF Q
  <2>1. QED
    BY <1>2, SubsetSteps
<1>4. QED
  BY <1>3

\* A sum of integers is one.
LEMMA SumType ==
  ASSUME NEW f, NEW S, IsFiniteSet(S), \A x \in S : f[x] \in Int
  PROVE  Sum(f, S) \in Int
<1>1. 0 \in Int /\ \A a, b \in Int : a + b \in Int
  OBVIOUS
<1>2. QED
  BY <1>1, SumClosed

\* A sum of naturals is one.
LEMMA SumNat ==
  ASSUME NEW f, NEW S, IsFiniteSet(S), \A x \in S : f[x] \in Nat
  PROVE  Sum(f, S) \in Nat
<1>1. 0 \in Nat /\ \A a, b \in Nat : a + b \in Nat
  OBVIOUS
<1>2. QED
  BY <1>1, SumClosed

\* Any element may be added last.
LEMMA SumWithout ==
  ASSUME NEW f, NEW S, IsFiniteSet(S), \A x \in S : f[x] \in Int, NEW e \in S
  PROVE  Sum(f, S) = f[e] + Sum(f, S \ {e})
<1> DEFINE Q == {T \in SUBSET S : \A x \in T : Sum(f, T) = f[x] + Sum(f, T \ {x})}
<1>1. ASSUME NEW T \in SUBSET S, \A x \in T : T \ {x} \in Q, NEW x \in T
      PROVE  Sum(f, T) = f[x] + Sum(f, T \ {x})
  <2> DEFINE y == First(T)
  <2>1. /\ IsFiniteSet(T) /\ IsFiniteSet(T \ {x}) /\ IsFiniteSet(T \ {y})
        /\ IsFiniteSet((T \ {x}) \ {y})
    BY FS_Subset
  <2>2. y \in T /\ Sum(f, T) = f[y] + Sum(f, T \ {y})
    BY <2>1, FirstIn, SumFirst
  <2>3. CASE x /= y
    <3>1. Sum(f, T \ {y}) = f[x] + Sum(f, (T \ {y}) \ {x})
      BY <1>1, <2>2, <2>3
    <3>2. Sum(f, T \ {x}) = f[y] + Sum(f, (T \ {x}) \ {y})
      BY <1>1, <2>2, <2>3
    <3>3. (T \ {y}) \ {x} = (T \ {x}) \ {y}
      OBVIOUS
    <3>4. f[x] \in Int /\ f[y] \in Int /\ Sum(f, (T \ {x}) \ {y}) \in Int
      BY <2>1, <2>2, SumType
    <3>5. PICK a, b, c \in Int : a = f[x] /\ b = f[y] /\ c = Sum(f, (T \ {x}) \ {y})
      BY <3>4
    <3>6. Sum(f, T) = b + (a + c) /\ Sum(f, T \ {x}) = b + c
      BY <2>2, <3>1, <3>2, <3>3, <3>5
    <3>7. b + (a + c) = a + (b + c)
      OBVIOUS
    <3>8. QED
      BY <3>5, <3>6, <3>7
  <2>4. QED
    BY <2>2, <2>3
<1>2. \A T \in SUBSET S : (\A x \in T : T \ {x} \in Q) => T \in Q
  BY <1>1
<1>3. \A T \in SUBSET S : T \in Q
  <2> HIDE DEF Q
  <2>1. QED
    BY <1>2, SubsetSteps
<1>4. QED
  BY <1>3

\* A sum is the sum over a part and the sum over the rest.
LEMMA SumSplit ==
  ASSUME NEW f, NEW S, IsFiniteSet(S), \A x \in S : f[x] \in Int, NEW T \in SUBSET S
  PROVE  Sum(f, S) = Sum(f, T) + Sum(f, S \ T)
<1> DEFINE Q == {V \in SUBSET T : Sum(f, S) = Sum(f, V) + Sum(f, S \ V)}
<1>1. ASSUME NEW V \in SUBSET T, \A x \in V : V \ {x} \in Q
      PROVE  Sum(f, S) = Sum(f, V) + Sum(f, S \ V)
  <2>1. IsFiniteSet(V)
    BY FS_Subset
  <2>2. CASE V = {}
    <3>1. Sum(f, V) = 0
      BY <2>1, <2>2, SumFirst
    <3>2. S \ V = S
      BY <2>2
    <3>3. Sum(f, S) \in Int
      BY SumType
    <3>4. PICK a \in Int : a = Sum(f, S)
      BY <3>3
    <3>5. a = 0 + a
      OBVIOUS
    <3>6. QED
      BY <3>1, <3>2, <3>4, <3>5
  <2>3. CASE V /= {}
    <3>1. PICK x \in V : TRUE
      BY <2>3
    <3>2. Sum(f, S) = Sum(f, V \ {x}) + Sum(f, S \ (V \ {x}))
      BY <1>1
    <3>3. Sum(f, V) = f[x] + Sum(f, V \ {x})
      BY <2>1, SumWithout
    <3>4. Sum(f, S \ (V \ {x})) = f[x] + Sum(f, S \ V)
      <4>1. IsFiniteSet(S \ (V \ {x})) /\ x \in S \ (V \ {x})
        BY FS_Subset
      <4>2. (S \ (V \ {x})) \ {x} = S \ V
        OBVIOUS
      <4>3. QED
        BY <4>1, <4>2, SumWithout
    <3>5. f[x] \in Int /\ Sum(f, V \ {x}) \in Int /\ Sum(f, S \ V) \in Int
      <4>1. IsFiniteSet(V \ {x}) /\ IsFiniteSet(S \ V)
        BY FS_Subset
      <4>2. QED
        BY <4>1, SumType
    <3>6. PICK a, b, c \in Int :
            a = f[x] /\ b = Sum(f, V \ {x}) /\ c = Sum(f, S \ V)
      BY <3>5
    <3>7. Sum(f, S) = b + (a + c) /\ Sum(f, V) = a + b
      BY <3>2, <3>3, <3>4, <3>6
    <3>8. b + (a + c) = (a + b) + c
      OBVIOUS
    <3>9. QED
      BY <3>6, <3>7, <3>8
  <2>4. QED
    BY <2>2, <2>3
<1>2. \A V \in SUBSET T : (\A x \in V : V \ {x} \in Q) => V \in Q
  BY <1>1
<1>3. \A V \in SUBSET T : V \in Q
  <2> HIDE DEF Q
  <2>1. IsFiniteSet(T)
    BY FS_Subset
  <2>2. QED
    BY <1>2, <2>1, SubsetSteps
<1>4. QED
  BY <1>3

\* One value changes, and the sum by as much.
LEMMA SumChange ==
  ASSUME NEW f, NEW g, NEW S, IsFiniteSet(S), NEW e \in S,
         \A x \in S : f[x] \in Int, \A x \in S \ {e} : g[x] = f[x], g[e] \in Int
  PROVE  Sum(g, S) = Sum(f, S) + (g[e] - f[e])
<1>1. IsFiniteSet(S \ {e})
  BY FS_Subset
<1>2. Sum(f, S) = f[e] + Sum(f, S \ {e})
  BY SumWithout
<1>3. Sum(g, S) = g[e] + Sum(g, S \ {e})
  <2>1. \A x \in S : g[x] \in Int
    OBVIOUS
  <2>2. QED
    BY <2>1, SumWithout
<1>4. Sum(g, S \ {e}) = Sum(f, S \ {e})
  BY <1>1, SumAgrees
<1>5. Sum(f, S \ {e}) \in Int /\ f[e] \in Int
  BY <1>1, SumType
<1>6. PICK a, b, c \in Int : a = f[e] /\ b = g[e] /\ c = Sum(f, S \ {e})
  BY <1>5
<1>7. Sum(f, S) = a + c /\ Sum(g, S) = b + c
  BY <1>2, <1>3, <1>4, <1>6
<1>8. b + c = (a + c) + (b - a)
  OBVIOUS
<1>9. QED
  BY <1>6, <1>7, <1>8

\* The sum of all values.
LEMMA SumOfFunction == ASSUME NEW f PROVE SumFunction(f) = Sum(f, DOMAIN f)
BY DEF SumFunction, Sum

(***************************************************************************)
(* The rows of a reference and the book that sums them up.                 *)
(***************************************************************************)
\* The sums over rows are sums over finite sets of naturals.
LEMMA RowsSum ==
  ASSUME NEW rows \in Seq(Row)
  PROVE  /\ IsFiniteSet(DOMAIN rows)
         /\ \A i \in DOMAIN rows : rows[i] \in Row /\ rows[i].cents \in Nat
         /\ \A W \in SUBSET DOMAIN rows : IsFiniteSet(W) /\ RowCents(rows, W) \in Nat
<1>1. DOMAIN rows = 1..Len(rows) /\ Len(rows) \in Nat
  OBVIOUS
<1>2. IsFiniteSet(DOMAIN rows)
  BY <1>1, FS_Interval
<1>3. \A i \in DOMAIN rows : rows[i] \in Row /\ rows[i].cents \in Nat
  <2>1. \A i \in DOMAIN rows : rows[i] \in Row
    OBVIOUS
  <2>2. \A row \in Row : row.cents \in Nat
    BY DEF Row
  <2>3. QED
    BY <2>1, <2>2
<1> DEFINE cents == [i \in DOMAIN rows |-> rows[i].cents]
<1>4. ASSUME NEW W \in SUBSET DOMAIN rows
      PROVE  IsFiniteSet(W) /\ RowCents(rows, W) \in Nat
  <2>1. IsFiniteSet(W)
    BY <1>2, FS_Subset
  <2>2. \A i \in W : cents[i] \in Nat
    BY <1>3
  <2>3. Sum(cents, W) \in Nat
    <3> HIDE DEF cents
    <3>1. QED
      BY <2>1, <2>2, SumNat
  <2>4. QED
    BY <2>1, <2>3 DEF RowCents, Sum
<1>5. QED
  BY <1>2, <1>3, <1>4

\* Rows with the same cents have the same sum.
LEMMA RowsAgree ==
  ASSUME NEW rows, NEW others, NEW W, IsFiniteSet(W), W \subseteq DOMAIN rows,
         W \subseteq DOMAIN others, \A i \in W : rows[i].cents = others[i].cents
  PROVE  RowCents(rows, W) = RowCents(others, W)
<1> DEFINE f == [i \in DOMAIN rows |-> rows[i].cents]
           g == [i \in DOMAIN others |-> others[i].cents]
<1>1. \A i \in W : f[i] = g[i]
  OBVIOUS
<1>2. Sum(f, W) = Sum(g, W)
  <2> HIDE DEF f, g
  <2>1. QED
    BY <1>1, SumAgrees
<1>3. QED
  BY <1>2 DEF RowCents, Sum

\* Some of the rows and the other ones are the rows.
LEMMA RowsSplit ==
  ASSUME NEW rows \in Seq(Row), NEW W \in SUBSET DOMAIN rows, NEW V \in SUBSET W
  PROVE  RowCents(rows, W) = RowCents(rows, V) + RowCents(rows, W \ V)
<1> DEFINE f == [i \in DOMAIN rows |-> rows[i].cents]
<1>1. IsFiniteSet(W) /\ \A i \in W : f[i] \in Int
  BY RowsSum
<1>2. Sum(f, W) = Sum(f, V) + Sum(f, W \ V)
  <2> HIDE DEF f
  <2>1. QED
    BY <1>1, SumSplit
<1>3. QED
  BY <1>2 DEF RowCents, Sum

\* A row counts with its own cents.
LEMMA RowsWith ==
  ASSUME NEW rows \in Seq(Row), NEW W \in SUBSET DOMAIN rows, NEW i \in W
  PROVE  RowCents(rows, W) = rows[i].cents + RowCents(rows, W \ {i})
<1> DEFINE f == [j \in DOMAIN rows |-> rows[j].cents]
<1>1. IsFiniteSet(W) /\ f[i] = rows[i].cents /\ \A j \in W : f[j] \in Int
  BY RowsSum
<1>2. Sum(f, W) = f[i] + Sum(f, W \ {i})
  <2> HIDE DEF f
  <2>1. QED
    BY <1>1, SumWithout
<1>3. QED
  BY <1>1, <1>2 DEF RowCents, Sum

\* The book of some rows.
OpenCents(rows) == RowCents(rows, Unrefunded(rows))
ClosedCents(rows) == RowCents(rows, DOMAIN rows \ Unrefunded(rows))
HasOverage(rows) == \E i \in DOMAIN rows : rows[i].over
Overages(rows) == RowCents(rows, {i \in DOMAIN rows : rows[i].over})

\* A book sums up all rows.
LEMMA BookOfRows ==
  ASSUME NEW rows \in Seq(Row)
  PROVE  /\ OpenCents(rows) \in Nat /\ ClosedCents(rows) \in Nat /\ Overages(rows) \in Nat
         /\ OpenCents(rows) + ClosedCents(rows) = RowCents(rows, DOMAIN rows)
         /\ HasOverage(rows) \in BOOLEAN
<1>1. /\ Unrefunded(rows) \in SUBSET DOMAIN rows
      /\ {i \in DOMAIN rows : rows[i].over} \in SUBSET DOMAIN rows
  BY DEF Unrefunded
<1>2. OpenCents(rows) \in Nat /\ ClosedCents(rows) \in Nat /\ Overages(rows) \in Nat
  BY <1>1, RowsSum DEF OpenCents, ClosedCents, Overages
<1>3. OpenCents(rows) + ClosedCents(rows) = RowCents(rows, DOMAIN rows)
  BY <1>1, RowsSplit DEF OpenCents, ClosedCents
<1>4. QED
  BY <1>2, <1>3 DEF HasOverage

\* A row that is written and not yet refunded adds its cents to the open ones.
LEMMA RowAppended ==
  ASSUME NEW rows \in Seq(Row), NEW row \in Row, ~row.refunded
  PROVE  /\ Append(rows, row) \in Seq(Row)
         /\ OpenCents(Append(rows, row)) = OpenCents(rows) + row.cents
         /\ ClosedCents(Append(rows, row)) = ClosedCents(rows)
         /\ HasOverage(Append(rows, row)) <=> HasOverage(rows) \/ row.over
         /\ Overages(Append(rows, row)) = Overages(rows) + (IF row.over THEN row.cents ELSE 0)
<1> DEFINE more == Append(rows, row)
           n == Len(rows) + 1
           over == {i \in DOMAIN rows : rows[i].over}
<1>1. /\ more \in Seq(Row) /\ n \notin DOMAIN rows
      /\ DOMAIN more = DOMAIN rows \cup {n} /\ more[n] = row
      /\ \A i \in DOMAIN rows : more[i] = rows[i]
  <2>1. more \in Seq(Row) /\ Len(more) = n /\ more[n] = row
    OBVIOUS
  <2>2. DOMAIN rows = 1..Len(rows) /\ DOMAIN more = 1..n /\ Len(rows) \in Nat
    OBVIOUS
  <2>3. \A i \in 1..Len(rows) : more[i] = rows[i]
    OBVIOUS
  <2>4. 1..n = (1..Len(rows)) \cup {n} /\ n \notin 1..Len(rows)
    BY <2>2
  <2>5. QED
    BY <2>1, <2>2, <2>3, <2>4
<1> HIDE DEF more, n
<1>2. ASSUME NEW W \in SUBSET DOMAIN rows
      PROVE  /\ RowCents(more, W) = RowCents(rows, W)
             /\ RowCents(more, W \cup {n}) = RowCents(rows, W) + row.cents
  <2>1. RowCents(more, W) = RowCents(rows, W)
    <3>1. IsFiniteSet(W)
      BY RowsSum
    <3>2. QED
      BY <1>1, <3>1, RowsAgree
  <2>2. RowCents(more, W \cup {n}) = row.cents + RowCents(more, W)
    <3>1. W \cup {n} \in SUBSET DOMAIN more /\ n \in W \cup {n} /\ (W \cup {n}) \ {n} = W
      BY <1>1
    <3>2. RowCents(more, W \cup {n}) = more[n].cents + RowCents(more, (W \cup {n}) \ {n})
      BY <1>1, <3>1, RowsWith
    <3>3. QED
      BY <1>1, <3>1, <3>2
  <2>3. RowCents(rows, W) \in Nat /\ row.cents \in Nat
    BY RowsSum DEF Row
  <2>4. QED
    BY <2>1, <2>2, <2>3
<1>3. Unrefunded(more) = Unrefunded(rows) \cup {n}
  BY <1>1 DEF Unrefunded
<1>4. DOMAIN more \ Unrefunded(more) = DOMAIN rows \ Unrefunded(rows)
  BY <1>1, <1>3
<1>5. OpenCents(more) = OpenCents(rows) + row.cents
  BY <1>2, <1>3 DEF OpenCents, Unrefunded
<1>6. ClosedCents(more) = ClosedCents(rows)
  BY <1>2, <1>4 DEF ClosedCents
<1>7. HasOverage(more) <=> HasOverage(rows) \/ row.over
  BY <1>1 DEF HasOverage
<1>8. Overages(more) = Overages(rows) + (IF row.over THEN row.cents ELSE 0)
  <2>1. {i \in DOMAIN more : more[i].over} = IF row.over THEN over \cup {n} ELSE over
    BY <1>1
  <2>2. RowCents(more, over) = RowCents(rows, over) /\ RowCents(rows, over) \in Nat
    BY <1>2, RowsSum
  <2>3. RowCents(more, over \cup {n}) = RowCents(rows, over) + row.cents
    BY <1>2
  <2>4. Overages(more) = IF row.over THEN RowCents(rows, over) + row.cents ELSE RowCents(rows, over)
    BY <2>1, <2>2, <2>3 DEF Overages
  <2>5. Overages(rows) = RowCents(rows, over)
    BY DEF Overages
  <2> HIDE DEF over
  <2>6. QED
    BY <2>2, <2>4, <2>5
<1>9. QED
  BY <1>1, <1>5, <1>6, <1>7, <1>8 DEF more

\* What is returned moves from the open to the closed cents.
LEMMA RowsReturned ==
  ASSUME NEW rows \in Seq(Row), NEW W \in SUBSET Unrefunded(rows)
  PROVE  /\ Returning(rows, W) \in Seq(Row)
         /\ \A i \in DOMAIN rows : Returning(rows, W)[i].cents = rows[i].cents
         /\ DOMAIN Returning(rows, W) = DOMAIN rows
         /\ RowCents(rows, W) \in Nat /\ RowCents(rows, W) <= OpenCents(rows)
         /\ OpenCents(Returning(rows, W)) = OpenCents(rows) - RowCents(rows, W)
         /\ ClosedCents(Returning(rows, W)) = ClosedCents(rows) + RowCents(rows, W)
         /\ HasOverage(Returning(rows, W)) <=> HasOverage(rows)
         /\ Overages(Returning(rows, W)) = Overages(rows)
<1> DEFINE now == Returning(rows, W)
           open == Unrefunded(rows)
<1>1. /\ DOMAIN now = DOMAIN rows /\ open \in SUBSET DOMAIN rows
      /\ \A i \in DOMAIN rows :
           /\ now[i] \in Row /\ now[i].cents = rows[i].cents /\ now[i].over = rows[i].over
           /\ now[i].refunded <=> rows[i].refunded \/ i \in W
  <2>1. \A i \in DOMAIN rows : rows[i] \in Row
    BY RowsSum
  <2>2. open \in SUBSET DOMAIN rows
    BY DEF Unrefunded
  <2>3. DOMAIN now = DOMAIN rows
    BY DEF Returning
  <2>4. ASSUME NEW i \in DOMAIN rows
        PROVE  /\ now[i] \in Row /\ now[i].cents = rows[i].cents /\ now[i].over = rows[i].over
               /\ now[i].refunded <=> rows[i].refunded \/ i \in W
    <3>1. now[i] = IF i \in W THEN [rows[i] EXCEPT !.refunded = TRUE] ELSE rows[i]
      BY DEF Returning
    <3>2. QED
      BY <2>1, <3>1 DEF Row
  <2>5. QED
    BY <2>2, <2>3, <2>4
<1>2. now \in Seq(Row)
  <2>1. now = [i \in 1..Len(rows) |-> now[i]] /\ Len(rows) \in Nat
    BY DEF Returning
  <2>2. \A i \in 1..Len(rows) : now[i] \in Row
    BY <1>1
  <2> HIDE DEF now
  <2>3. QED
    BY <2>1, <2>2
<1>3. Unrefunded(now) = open \ W
  BY <1>1 DEF Unrefunded
<1> HIDE DEF now
<1>4. ASSUME NEW V \in SUBSET DOMAIN rows PROVE RowCents(now, V) = RowCents(rows, V)
  <2>1. IsFiniteSet(V)
    BY RowsSum
  <2>2. QED
    BY <1>1, <2>1, RowsAgree
<1>5. /\ OpenCents(now) = RowCents(rows, open \ W)
      /\ OpenCents(rows) = RowCents(rows, W) + RowCents(rows, open \ W)
      /\ RowCents(rows, W) \in Nat /\ RowCents(rows, open \ W) \in Nat
  <2>1. W \in SUBSET DOMAIN rows /\ open \ W \in SUBSET DOMAIN rows
    BY <1>1
  <2>2. OpenCents(now) = RowCents(rows, open \ W)
    BY <1>3, <1>4, <2>1 DEF OpenCents
  <2>3. OpenCents(rows) = RowCents(rows, W) + RowCents(rows, open \ W)
    BY <1>1, RowsSplit DEF OpenCents
  <2>4. QED
    BY <2>1, <2>2, <2>3, RowsSum
<1>6. ClosedCents(now) = ClosedCents(rows) + RowCents(rows, W)
  <2> DEFINE closed == DOMAIN rows \ (open \ W)
  <2>1. closed \in SUBSET DOMAIN rows /\ W \in SUBSET closed /\ closed \ W = DOMAIN rows \ open
    BY <1>1
  <2>2. ClosedCents(now) = RowCents(rows, closed)
    BY <1>1, <1>3, <1>4, <2>1 DEF ClosedCents
  <2>3. RowCents(rows, closed) = RowCents(rows, W) + RowCents(rows, closed \ W)
    <3> HIDE DEF closed
    <3>1. QED
      BY <2>1, RowsSplit
  <2>4. RowCents(rows, W) \in Nat /\ RowCents(rows, DOMAIN rows \ open) \in Nat
    BY <1>1, RowsSum
  <2>5. ClosedCents(now) = RowCents(rows, W) + ClosedCents(rows)
    BY <2>1, <2>2, <2>3 DEF ClosedCents
  <2>6. QED
    BY <2>4, <2>5 DEF ClosedCents
<1>7. HasOverage(now) <=> HasOverage(rows)
  BY <1>1 DEF HasOverage
<1>8. Overages(now) = Overages(rows)
  <2>1. {i \in DOMAIN now : now[i].over} = {i \in DOMAIN rows : rows[i].over}
    BY <1>1
  <2>2. QED
    BY <1>4, <2>1 DEF Overages
<1>9. RowCents(rows, W) <= OpenCents(rows) /\ OpenCents(now) = OpenCents(rows) - RowCents(rows, W)
  <2>1. PICK a, b \in Nat : a = RowCents(rows, W) /\ b = RowCents(rows, open \ W)
    BY <1>5
  <2>2. OpenCents(rows) = a + b /\ OpenCents(now) = b
    BY <1>5, <2>1
  <2>3. a <= a + b /\ b = (a + b) - a
    OBVIOUS
  <2>4. QED
    BY <2>1, <2>2, <2>3
<1>10. QED
  BY <1>1, <1>2, <1>5, <1>6, <1>7, <1>8, <1>9 DEF now

\* A reference with a row has a book with charges.
LEMMA SomeRows ==
  ASSUME NEW rows \in Seq(Row), \A i \in DOMAIN rows : rows[i].cents >= 1, rows /= <<>>
  PROVE  RowCents(rows, DOMAIN rows) >= 1
<1>1. 1 \in DOMAIN rows
  OBVIOUS
<1>2. RowCents(rows, DOMAIN rows) = rows[1].cents + RowCents(rows, DOMAIN rows \ {1})
  BY <1>1, RowsWith
<1>3. rows[1].cents \in Nat /\ RowCents(rows, DOMAIN rows \ {1}) \in Nat
  BY <1>1, RowsSum
<1>4. QED
  BY <1>1, <1>2, <1>3

USE BillingAssumption

(***************************************************************************)
(* The invariant. Shape says that a transaction has its six fields, not    *)
(* what is in them: cents are sums.                                        *)
(***************************************************************************)
Shape ==
  /\ proc = [p \in Procs |-> proc[p]]
  /\ \A p \in Procs :
       proc[p] = [pc |-> proc[p].pc, ref |-> proc[p].ref, cents |-> proc[p].cents,
                  seen |-> proc[p].seen, auth |-> proc[p].auth, bal |-> proc[p].bal]

Inv == Shape /\ LocksHeld

\* A process moves on, the other ones stay where they are.
LEMMA GotoOthers ==
  ASSUME Shape, NEW p \in Procs, NEW pc, Goto(p, pc)
  PROVE  /\ Shape'
         /\ proc'[p].pc = pc /\ proc'[p].bal = proc[p].bal
         /\ \A q \in Procs \ {p} : proc'[q] = proc[q]
<1>1. proc' = [proc EXCEPT ![p] = [proc[p] EXCEPT !.pc = pc]]
  BY DEF Goto
<1>2. [proc[p] EXCEPT !.pc = pc] =
        [pc |-> pc, ref |-> proc[p].ref, cents |-> proc[p].cents,
         seen |-> proc[p].seen, auth |-> proc[p].auth, bal |-> proc[p].bal]
  BY DEF Shape
<1>3. /\ proc' = [q \in Procs |-> proc'[q]]
      /\ proc'[p] = [proc[p] EXCEPT !.pc = pc]
      /\ \A q \in Procs \ {p} : proc'[q] = proc[q]
  BY <1>1 DEF Shape
<1>4. QED
  BY <1>2, <1>3 DEF Shape

\* A process that moves on without touching a lock or the wallet keeps the
\* invariant where it goes to a place that needs no more and allows as much.
LEMMA GotoKeepsInv ==
  ASSUME Inv, NEW p \in Procs, NEW pc, Goto(p, pc),
         UNCHANGED <<wallet, walletLock, projectLock>>,
         pc \notin HoldsWallet, pc \notin {"charge", "chargeWrite"},
         pc \in {"refused", "closing"} \/ (walletLock /= p /\ projectLock /= p)
  PROVE  Inv'
<1>1. /\ Shape' /\ proc'[p].pc = pc
      /\ \A q \in Procs \ {p} : proc'[q] = proc[q]
  BY GotoOthers DEF Inv
<1>2. LocksHeld'
  BY <1>1 DEF Inv, LocksHeld
<1>3. QED
  BY <1>1, <1>2 DEF Inv

\* A transaction that ends releases its locks; if it has written the wallet it
\* held the row, so nobody else has a balance that is stale now.
LEMMA EndKeepsInv ==
  ASSUME Inv, NEW p \in Procs, End(p), wallet' = wallet \/ walletLock = p
  PROVE  Inv'
<1>1. /\ proc' = [q \in Procs |-> proc'[q]]
      /\ proc'[p] = NoTransaction
      /\ \A q \in Procs \ {p} : proc'[q] = proc[q]
  BY DEF End, Inv, Shape
<1>2. Shape'
  BY <1>1 DEF Inv, Shape, NoTransaction
<1>3. proc'[p].pc = "idle" /\ walletLock' /= p /\ projectLock' /= p
  BY <1>1 DEF End, NoTransaction
<1>4. ASSUME NEW q \in Procs, q /= p
      PROVE  /\ walletLock' = q <=> walletLock = q
             /\ projectLock' = q <=> projectLock = q
  BY <1>4 DEF End
<1>5. ASSUME NEW q \in Procs, proc'[q].pc \in HoldsWallet
      PROVE  walletLock' = q /\ proc'[q].bal = wallet'
  <2>1. q /= p
    BY <1>3, <1>5 DEF HoldsWallet
  <2>2. walletLock = q /\ proc[q].bal = wallet
    BY <1>1, <1>5, <2>1 DEF Inv, LocksHeld
  <2>3. QED
    BY <1>1, <1>4, <2>1, <2>2
<1>6. ASSUME NEW q \in Procs, proc'[q].pc \in {"charge", "chargeWrite"}
      PROVE  projectLock' = q
  <2>1. q /= p
    BY <1>3, <1>6
  <2>2. QED
    BY <1>1, <1>4, <1>6, <2>1 DEF Inv, LocksHeld
<1>7. ASSUME NEW q \in Procs, walletLock' = q
      PROVE  proc'[q].pc \in HoldsWallet \cup {"refused", "closing"}
  BY <1>1, <1>3, <1>4, <1>7 DEF Inv, LocksHeld
<1>8. ASSUME NEW q \in Procs, projectLock' = q
      PROVE  proc'[q].pc \in {"charge", "chargeWrite", "refused", "closing"}
  BY <1>1, <1>3, <1>4, <1>8 DEF Inv, LocksHeld
<1>9. LocksHeld'
  BY <1>5, <1>6, <1>7, <1>8 DEF LocksHeld
<1>10. QED
  BY <1>2, <1>9 DEF Inv

(***************************************************************************)
(* Actions.                                                                *)
(***************************************************************************)
\* A new transaction holds nothing.
LEMMA BeginKeepsInv ==
  ASSUME Inv, NEW p \in Procs,
         NEW pc \in {"project", "refund", "settleCheck", "deposit"},
         NEW r, NEW cents, NEW seen, NEW auth, Begin(p, pc, r, cents, seen, auth),
         UNCHANGED <<wallet, walletLock, projectLock>>
  PROVE  Inv'
<1>1. /\ proc' = [q \in Procs |-> proc'[q]]
      /\ proc'[p] = [pc |-> pc, ref |-> r, cents |-> cents, seen |-> seen,
                     auth |-> auth, bal |-> 0]
      /\ \A q \in Procs \ {p} : proc'[q] = proc[q]
  BY DEF Begin, Inv, Shape
<1>2. Shape'
  BY <1>1 DEF Inv, Shape
<1>3. walletLock /= p /\ projectLock /= p
  BY DEF Begin, Inv, LocksHeld, HoldsWallet
<1>4. LocksHeld'
  BY <1>1, <1>3 DEF Inv, LocksHeld, HoldsWallet
<1>5. QED
  BY <1>2, <1>4 DEF Inv

\* Every new transaction.
LEMMA CallKeepsInv ==
  ASSUME Inv, NEW p \in Procs, Call(p) PROVE Inv'
<1>1. CASE \E c \in Cents : BeginDeposit(p, c)
  BY <1>1, BeginKeepsInv DEF BeginDeposit
<1>2. CASE \E r \in Refs : BeginRefund(p, r)
  BY <1>2, BeginKeepsInv DEF BeginRefund
<1>3. CASE \E r \in Refs, c \in Cents : BeginCharge(p, r, c)
  BY <1>3, BeginKeepsInv DEF BeginCharge
<1>4. CASE \E r \in Refs, actual \in 0..MaxActual : BeginSettle(p, r, actual)
  BY <1>4, BeginKeepsInv DEF BeginSettle
<1>5. QED
  BY <1>1, <1>2, <1>3, <1>4 DEF Call

\* The project row is locked while it is free.
LEMMA LockProjectKeepsInv ==
  ASSUME Inv, NEW p \in Procs, LockProject(p) PROVE Inv'
<1>1. PICK pc \in {"charge", "refused"} : Goto(p, pc)
  BY DEF LockProject
<1>2. /\ Shape' /\ proc'[p].pc = pc
      /\ \A q \in Procs \ {p} : proc'[q] = proc[q]
  BY <1>1, GotoOthers DEF Inv
<1>3. \A q \in Procs : proc[q].pc \notin {"charge", "chargeWrite"}
  BY DEF LockProject, TakeProject, Inv, LocksHeld
<1>4. walletLock /= p
  BY DEF LockProject, Inv, LocksHeld, HoldsWallet
<1>5. LocksHeld'
  BY <1>2, <1>3, <1>4 DEF LockProject, Inv, LocksHeld, HoldsWallet
<1>6. QED
  BY <1>2, <1>5 DEF Inv

\* The wallet row is locked while it is free, and read under the lock.
LEMMA LockWalletKeepsInv ==
  ASSUME Inv, NEW p \in Procs, NEW from, NEW to \in HoldsWallet,
         LockWallet(p, from, to), from \notin {"refused", "closing"},
         to = "chargeWrite" <=> from = "charge", from /= "chargeWrite"
  PROVE  Inv'
<1>1. proc' = [proc EXCEPT ![p] = [proc[p] EXCEPT !.pc = to, !.bal = wallet]]
  BY DEF LockWallet
<1>2. [proc[p] EXCEPT !.pc = to, !.bal = wallet] =
        [pc |-> to, ref |-> proc[p].ref, cents |-> proc[p].cents,
         seen |-> proc[p].seen, auth |-> proc[p].auth, bal |-> wallet]
  <2> DEFINE moved == [proc[p] EXCEPT !.pc = to]
  <2>1. moved =
          [pc |-> to, ref |-> proc[p].ref, cents |-> proc[p].cents,
           seen |-> proc[p].seen, auth |-> proc[p].auth, bal |-> proc[p].bal]
    BY DEF Inv, Shape
  <2>2. [moved EXCEPT !.bal = wallet] =
          [pc |-> to, ref |-> proc[p].ref, cents |-> proc[p].cents,
           seen |-> proc[p].seen, auth |-> proc[p].auth, bal |-> wallet]
    <3> HIDE DEF moved
    <3> QED BY <2>1
  <2>3. QED
    BY <2>2, Zenon
<1>3. /\ proc' = [q \in Procs |-> proc'[q]]
      /\ proc'[p].pc = to /\ proc'[p].bal = wallet
      /\ \A q \in Procs \ {p} : proc'[q] = proc[q]
  BY <1>1, <1>2 DEF Inv, Shape
<1>4. Shape'
  BY <1>1, <1>2, <1>3 DEF Inv, Shape
<1>5. \A q \in Procs : proc[q].pc \notin HoldsWallet
  BY DEF LockWallet, TakeWallet, Inv, LocksHeld
<1>6. LocksHeld'
  BY <1>3, <1>5 DEF LockWallet, Inv, LocksHeld, HoldsWallet
<1>7. QED
  BY <1>4, <1>6 DEF Inv

\* Every lock.
LEMMA LockKeepsInv ==
  ASSUME Inv, NEW p \in Procs, Lock(p) PROVE Inv'
<1>1. CASE LockProject(p)
  BY <1>1, LockProjectKeepsInv
<1>2. CASE LockWallet(p, "charge", "chargeWrite")
  BY <1>2, LockWalletKeepsInv DEF HoldsWallet
<1>3. CASE LockWallet(p, "refund", "refundWrite")
  BY <1>3, LockWalletKeepsInv DEF HoldsWallet
<1>4. CASE LockWallet(p, "settle", "settleWrite")
  BY <1>4, LockWalletKeepsInv DEF HoldsWallet
<1>5. CASE LockWallet(p, "deposit", "depositWrite")
  BY <1>5, LockWalletKeepsInv DEF HoldsWallet
<1>6. QED
  BY <1>1, <1>2, <1>3, <1>4, <1>5 DEF Lock

\* Every read, refusal and write.
LEMMA WriteKeepsInv ==
  ASSUME Inv, NEW p \in Procs, Write(p) PROVE Inv'
<1>1. CASE CheckSettled(p)
  <2>1. walletLock /= p /\ projectLock /= p
    BY <1>1 DEF CheckSettled, Inv, LocksHeld, HoldsWallet
  <2>2. CASE End(p)
    BY <1>1, <2>2, EndKeepsInv DEF CheckSettled
  <2>3. CASE Goto(p, "settle") /\ UNCHANGED <<walletLock, projectLock>>
    BY <1>1, <2>1, <2>3, GotoKeepsInv DEF CheckSettled, HoldsWallet
  <2>4. QED
    BY <1>1, <2>2, <2>3 DEF CheckSettled
<1>2. CASE Insufficient(p)
  BY <1>2, GotoKeepsInv DEF Insufficient, HoldsWallet
<1>3. CASE Refused(p)
  <2>1. CASE End(p)
    BY <1>3, <2>1, EndKeepsInv DEF Refused
  <2>2. CASE Goto(p, "closing") /\ UNCHANGED <<walletLock, projectLock>>
    BY <1>3, <2>2, GotoKeepsInv DEF Refused, HoldsWallet
  <2>3. QED
    BY <1>3, <2>1, <2>2 DEF Refused
<1>4. CASE WriteCharge(p) \/ WriteDeposit(p) \/ WriteRefund(p) \/ WriteSettlement(p)
  <2>1. End(p)
    BY <1>4, Zenon DEF WriteCharge, WriteDeposit, WriteRefund, WriteSettlement
  <2>2. proc[p].pc \in HoldsWallet
    BY <1>4, Zenon DEF WriteCharge, WriteDeposit, WriteRefund, WriteSettlement, HoldsWallet
  <2>3. walletLock = p
    BY <2>2 DEF Inv, LocksHeld
  <2>4. QED
    BY <2>1, <2>3, EndKeepsInv, Zenon
<1>5. CASE DuplicateSettlement(p)
  BY <1>5, EndKeepsInv DEF DuplicateSettlement
<1>6. QED
  BY <1>1, <1>2, <1>3, <1>4, <1>5 DEF Write

(***************************************************************************)
(* The invariant is inductive.                                             *)
(***************************************************************************)
\* No transaction has begun.
LEMMA InitInv == Init => Inv
<1> SUFFICES ASSUME Init PROVE Inv
  OBVIOUS
<1>1. \A p \in Procs : proc[p] = NoTransaction /\ walletLock /= p /\ projectLock /= p
  BY DEF Init
<1>2. Shape
  <2>1. proc = [p \in Procs |-> proc[p]]
    BY DEF Init
  <2>2. NoTransaction =
          [pc |-> NoTransaction.pc, ref |-> NoTransaction.ref,
           cents |-> NoTransaction.cents, seen |-> NoTransaction.seen,
           auth |-> NoTransaction.auth, bal |-> NoTransaction.bal]
    BY DEF NoTransaction
  <2>3. QED
    BY <1>1, <2>1, <2>2 DEF Shape
<1>3. NoTransaction.pc = "idle"
  BY DEF NoTransaction
<1>4. LocksHeld
  BY <1>1, <1>3 DEF LocksHeld, HoldsWallet
<1>5. QED
  BY <1>2, <1>4 DEF Inv

\* Every step keeps the invariant.
LEMMA NextKeepsInv == Inv /\ [Next]_vars => Inv'
<1> SUFFICES ASSUME Inv, [Next]_vars PROVE Inv'
  OBVIOUS
<1>1. ASSUME NEW p \in Procs, Call(p) PROVE Inv'
  BY <1>1, CallKeepsInv
<1>2. ASSUME NEW p \in Procs, Lock(p) PROVE Inv'
  BY <1>2, LockKeepsInv
<1>3. ASSUME NEW p \in Procs, Write(p) PROVE Inv'
  BY <1>3, WriteKeepsInv
<1>4. ASSUME NEW p \in Procs, Close(p) \/ Abort(p) PROVE Inv'
  BY <1>4, EndKeepsInv DEF Close, Abort
<1>5. CASE UNCHANGED vars
  BY <1>5 DEF vars, Inv, Shape, LocksHeld
<1>6. QED
  BY <1>1, <1>2, <1>3, <1>4, <1>5 DEF Next

\* The balance a transaction writes back is computed from the balance that is
\* there: the row lock of the wallet is held from the read to the write, for any
\* number of processes, references and charges (add_ledger_entry,
\* refund_feature_charges, settle_feature_charge).
THEOREM LocksAreHeld == Spec => []LocksHeld
<1>1. Inv => LocksHeld
  BY DEF Inv
<1>2. QED
  BY <1>1, InitInv, NextKeepsInv, PTL DEF Spec

(***************************************************************************)
(* The types of all variables, and what the transactions know: a price or  *)
(* a payment is at least a cent, a row too; a settlement has found a row,  *)
(* and what it found outstanding has been charged.                         *)
(***************************************************************************)
Transaction ==
  [pc : PCs, ref : Refs, cents : Nat, seen : Nat, auth : Nat, bal : Int]

TotalCents(r) == RowCents(usage[r], DOMAIN usage[r])

RowsCount == \A r \in Refs : \A i \in DOMAIN usage[r] : usage[r][i].cents >= 1

Sound(t) ==
  /\ t.pc \in {"project", "charge", "chargeWrite", "deposit", "depositWrite"} => t.cents >= 1
  /\ t.pc \in {"settleCheck", "settle", "settleWrite"} =>
       usage[t.ref] /= <<>> /\ t.auth <= TotalCents(t.ref)
  /\ t.pc \in {"settle", "settleWrite"} => t.auth /= t.cents

Books == TypeOK /\ RowsCount /\ \A p \in Procs : Sound(proc[p])

\* The rows of r are written: its book becomes b, its overages grow by cents.
Written(r, b, cents) ==
  /\ usage' \in [Refs -> Seq(Row)] /\ settlement' \in [Refs -> Nat] /\ RowsCount'
  /\ \A q \in Refs \ {r} : usage'[q] = usage[q] /\ settlement'[q] = settlement[q]
  /\ \A q \in Refs : TotalCents(q) <= TotalCents(q)' /\ (usage[q] /= <<>> => usage'[q] /= <<>>)
  /\ BookOf(r)' = b
  /\ Overages(usage'[r]) = Overages(usage[r]) + cents

\* What the book of a reference is made of.
LEMMA BookIs ==
  ASSUME TypeOK, NEW r \in Refs
  PROVE  /\ BookOf(r) = [open |-> OpenCents(usage[r]), closed |-> ClosedCents(usage[r]),
                         setl |-> settlement[r], over |-> HasOverage(usage[r])]
         /\ BookOf(r) \in Book
         /\ BookOf(r).open + BookOf(r).closed = TotalCents(r) /\ TotalCents(r) \in Nat
         /\ Overages(usage[r]) \in Nat
<1>1. usage[r] \in Seq(Row) /\ settlement[r] \in Nat
  BY DEF TypeOK
<1>2. BookOf(r) = [open |-> OpenCents(usage[r]), closed |-> ClosedCents(usage[r]),
                   setl |-> settlement[r], over |-> HasOverage(usage[r])]
  BY DEF BookOf, OpenCents, ClosedCents, HasOverage
<1>3. /\ OpenCents(usage[r]) \in Nat /\ ClosedCents(usage[r]) \in Nat
      /\ Overages(usage[r]) \in Nat /\ HasOverage(usage[r]) \in BOOLEAN
      /\ OpenCents(usage[r]) + ClosedCents(usage[r]) = TotalCents(r)
  BY <1>1, BookOfRows DEF TotalCents
<1>4. TotalCents(r) \in Nat
  BY <1>3
<1>5. QED
  BY <1>1, <1>2, <1>3, <1>4 DEF Book

\* A row is appended.
LEMMA RowIsWritten ==
  ASSUME TypeOK, RowsCount, NEW r \in Refs, NEW row \in Row, row.cents >= 1, ~row.refunded,
         usage' = [usage EXCEPT ![r] = Append(@, row)], UNCHANGED settlement
  PROVE  Written(r,
           [open |-> BookOf(r).open + row.cents, closed |-> BookOf(r).closed,
            setl |-> BookOf(r).setl, over |-> BookOf(r).over \/ row.over],
           IF row.over THEN row.cents ELSE 0)
<1> DEFINE rows == usage[r]
           more == Append(rows, row)
<1>1. rows \in Seq(Row) /\ row.cents \in Nat /\ usage \in [Refs -> Seq(Row)]
  BY DEF TypeOK, Row
<1>2. /\ more \in Seq(Row)
      /\ OpenCents(more) = OpenCents(rows) + row.cents
      /\ ClosedCents(more) = ClosedCents(rows)
      /\ HasOverage(more) <=> HasOverage(rows) \/ row.over
      /\ Overages(more) = Overages(rows) + (IF row.over THEN row.cents ELSE 0)
  BY <1>1, RowAppended
<1>3. usage'[r] = more /\ \A q \in Refs \ {r} : usage'[q] = usage[q]
  BY <1>1
<1>4. usage' \in [Refs -> Seq(Row)] /\ settlement' \in [Refs -> Nat]
  <2>1. usage' \in [Refs -> Seq(Row)]
    <3> HIDE DEF more
    <3>1. usage' = [usage EXCEPT ![r] = more]
      BY DEF more
    <3>2. QED
      BY <1>1, <1>2, <3>1
  <2>2. QED
    BY <2>1 DEF TypeOK
<1>5. more /= <<>> /\ \A i \in DOMAIN more : more[i].cents >= 1
  <2>1. /\ more /= <<>>
        /\ \A i \in DOMAIN more : more[i] = row \/ (i \in DOMAIN rows /\ more[i] = rows[i])
    BY <1>1
  <2>2. \A i \in DOMAIN rows : rows[i].cents >= 1
    BY DEF RowsCount
  <2>3. QED
    BY <2>1, <2>2
<1> HIDE DEF more
<1>6. RowsCount'
  BY <1>3, <1>5 DEF RowsCount
<1>7. BookOf(r)' = [open |-> OpenCents(more), closed |-> ClosedCents(more),
                    setl |-> settlement[r], over |-> HasOverage(more)]
  BY <1>3 DEF BookOf, OpenCents, ClosedCents, HasOverage
<1>8. BookOf(r)' = [open |-> BookOf(r).open + row.cents, closed |-> BookOf(r).closed,
                    setl |-> BookOf(r).setl, over |-> BookOf(r).over \/ row.over]
  <2>1. /\ BookOf(r).open = OpenCents(rows) /\ BookOf(r).closed = ClosedCents(rows)
        /\ BookOf(r).setl = settlement[r] /\ BookOf(r).over = HasOverage(rows)
    BY BookIs
  <2>2. HasOverage(more) = (HasOverage(rows) \/ row.over)
    BY <1>2 DEF HasOverage, Row
  <2>3. QED
    BY <1>2, <1>7, <2>1, <2>2
<1>9. TotalCents(r) <= TotalCents(r)'
  <2>1. TotalCents(r)' = OpenCents(more) + ClosedCents(more)
    BY <1>2, <1>3, BookOfRows DEF TotalCents
  <2>2. TotalCents(r) = OpenCents(rows) + ClosedCents(rows)
    BY <1>1, BookOfRows DEF TotalCents
  <2>3. OpenCents(rows) \in Nat /\ ClosedCents(rows) \in Nat
    BY <1>1, BookOfRows
  <2>4. QED
    BY <1>1, <1>2, <2>1, <2>2, <2>3
<1>10. \A q \in Refs : TotalCents(q) <= TotalCents(q)' /\ (usage[q] /= <<>> => usage'[q] /= <<>>)
  <2>1. ASSUME NEW q \in Refs, q /= r PROVE TotalCents(q)' = TotalCents(q) /\ TotalCents(q) \in Nat
    BY <1>3, <2>1, BookIs DEF TotalCents
  <2>2. QED
    BY <1>3, <1>5, <1>9, <2>1
<1>11. QED
  BY <1>2, <1>3, <1>4, <1>6, <1>8, <1>10 DEF Written

\* Rows are refunded.
LEMMA RefundIsWritten ==
  ASSUME TypeOK, RowsCount, NEW r \in Refs, NEW W \in SUBSET Unrefunded(usage[r]),
         usage' = [usage EXCEPT ![r] = Returning(usage[r], W)], UNCHANGED settlement
  PROVE  /\ RowCents(usage[r], W) \in Nat /\ RowCents(usage[r], W) <= BookOf(r).open
         /\ Written(r,
              [open |-> BookOf(r).open - RowCents(usage[r], W),
               closed |-> BookOf(r).closed + RowCents(usage[r], W),
               setl |-> BookOf(r).setl, over |-> BookOf(r).over], 0)
<1> DEFINE rows == usage[r]
           now == Returning(rows, W)
           cents == RowCents(rows, W)
<1>1. rows \in Seq(Row) /\ usage \in [Refs -> Seq(Row)]
  BY DEF TypeOK
<1>2. /\ now \in Seq(Row) /\ DOMAIN now = DOMAIN rows
      /\ \A i \in DOMAIN rows : now[i].cents = rows[i].cents
      /\ cents \in Nat /\ cents <= OpenCents(rows)
      /\ OpenCents(now) = OpenCents(rows) - cents
      /\ ClosedCents(now) = ClosedCents(rows) + cents
      /\ HasOverage(now) <=> HasOverage(rows)
      /\ Overages(now) = Overages(rows)
  BY <1>1, RowsReturned
<1> HIDE DEF now, cents
<1>3. usage'[r] = now /\ \A q \in Refs \ {r} : usage'[q] = usage[q]
  BY <1>1 DEF now
<1>4. usage' \in [Refs -> Seq(Row)] /\ settlement' \in [Refs -> Nat]
  <2>1. usage' = [usage EXCEPT ![r] = now]
    BY DEF now
  <2>2. QED
    BY <1>1, <1>2, <2>1 DEF TypeOK
<1>5. RowsCount'
  BY <1>2, <1>3 DEF RowsCount
<1>6. BookOf(r)' = [open |-> OpenCents(now), closed |-> ClosedCents(now),
                    setl |-> settlement[r], over |-> HasOverage(now)]
  BY <1>3 DEF BookOf, OpenCents, ClosedCents, HasOverage
<1>7. /\ BookOf(r).open = OpenCents(rows) /\ BookOf(r).closed = ClosedCents(rows)
      /\ BookOf(r).setl = settlement[r] /\ BookOf(r).over = HasOverage(rows)
      /\ OpenCents(rows) \in Nat /\ ClosedCents(rows) \in Nat /\ Overages(rows) \in Nat
  BY <1>1, BookIs, BookOfRows
<1>8. BookOf(r)' = [open |-> BookOf(r).open - cents, closed |-> BookOf(r).closed + cents,
                    setl |-> BookOf(r).setl, over |-> BookOf(r).over]
  <2>1. HasOverage(now) = HasOverage(rows)
    BY <1>2 DEF HasOverage
  <2>2. QED
    BY <1>2, <1>6, <1>7, <2>1
<1>9. TotalCents(r) <= TotalCents(r)'
  <2>1. TotalCents(r)' = OpenCents(now) + ClosedCents(now)
    BY <1>2, <1>3, BookOfRows DEF TotalCents
  <2>2. TotalCents(r) = OpenCents(rows) + ClosedCents(rows)
    BY <1>1, BookOfRows DEF TotalCents
  <2>3. QED
    BY <1>2, <1>7, <2>1, <2>2
<1>10. \A q \in Refs : TotalCents(q) <= TotalCents(q)' /\ (usage[q] /= <<>> => usage'[q] /= <<>>)
  <2>1. ASSUME NEW q \in Refs, q /= r PROVE TotalCents(q)' = TotalCents(q) /\ TotalCents(q) \in Nat
    BY <1>3, <2>1, BookIs DEF TotalCents
  <2>2. rows /= <<>> => now /= <<>>
    BY <1>1, <1>2
  <2>3. QED
    BY <1>3, <1>9, <2>1, <2>2
<1>11. Overages(usage'[r]) = Overages(usage[r]) + 0
  BY <1>2, <1>3, <1>7
<1>12. QED
  BY <1>2, <1>3, <1>4, <1>5, <1>7, <1>8, <1>10, <1>11 DEF Written, cents

\* The row led_set_ is written.
LEMMA SurplusIsWritten ==
  ASSUME TypeOK, RowsCount, NEW r \in Refs, NEW cents \in Nat,
         settlement' = [settlement EXCEPT ![r] = cents], UNCHANGED usage
  PROVE  Written(r, [BookOf(r) EXCEPT !.setl = cents], 0)
<1>1. /\ usage' \in [Refs -> Seq(Row)] /\ settlement' \in [Refs -> Nat] /\ RowsCount'
      /\ settlement'[r] = cents
      /\ \A q \in Refs \ {r} : usage'[q] = usage[q] /\ settlement'[q] = settlement[q]
  BY DEF TypeOK, RowsCount
<1>2. \A q \in Refs : TotalCents(q) <= TotalCents(q)' /\ (usage[q] /= <<>> => usage'[q] /= <<>>)
  <2>1. ASSUME NEW q \in Refs PROVE TotalCents(q)' = TotalCents(q) /\ TotalCents(q) \in Nat
    BY BookIs DEF TotalCents
  <2>2. QED
    BY <2>1
<1>3. BookOf(r)' = [BookOf(r) EXCEPT !.setl = cents]
  <2>1. BookOf(r)' = [open |-> OpenCents(usage[r]), closed |-> ClosedCents(usage[r]),
                      setl |-> cents, over |-> HasOverage(usage[r])]
    BY <1>1 DEF BookOf, OpenCents, ClosedCents, HasOverage
  <2>2. BookOf(r) = [open |-> OpenCents(usage[r]), closed |-> ClosedCents(usage[r]),
                     setl |-> settlement[r], over |-> HasOverage(usage[r])]
    BY BookIs
  <2>3. QED
    BY <2>1, <2>2
<1>4. Overages(usage'[r]) = Overages(usage[r]) + 0
  <2>1. Overages(usage[r]) \in Nat
    BY BookIs
  <2>2. QED
    BY <2>1
<1>5. QED
  BY <1>1, <1>2, <1>3, <1>4 DEF Written

(***************************************************************************)
(* Actions keep them.                                                      *)
(***************************************************************************)
\* Nothing is known of no transaction.
LEMMA NoTransactionIsSound == NoTransaction \in Transaction /\ Sound(NoTransaction)
<1>1. (CHOOSE r \in Refs : TRUE) \in Refs
  OBVIOUS
<1>2. QED
  BY <1>1 DEF NoTransaction, Transaction, PCs, Sound

\* What a transaction knows stays true while rows are added.
LEMMA SoundLasts ==
  ASSUME TypeOK, NEW t \in Transaction, Sound(t),
         \A q \in Refs : TotalCents(q) <= TotalCents(q)' /\ TotalCents(q)' \in Nat
                          /\ (usage[q] /= <<>> => usage'[q] /= <<>>)
  PROVE  Sound(t)'
<1>1. t.ref \in Refs /\ t.auth \in Nat
  BY DEF Transaction
<1>2. TotalCents(t.ref) \in Nat
  BY <1>1, BookIs
<1>3. t.auth <= TotalCents(t.ref) => t.auth <= TotalCents(t.ref)'
  BY <1>1, <1>2
<1>4. QED
  BY <1>1, <1>3 DEF Sound

\* A transaction that moves on and writes no row.
LEMMA MoveKeepsBooks ==
  ASSUME Books, NEW p \in Procs, NEW t \in Transaction, Sound(t),
         proc' = [proc EXCEPT ![p] = t], UNCHANGED <<usage, settlement>>,
         wallet' \in Int, deposits' \in Int,
         walletLock' \in Procs \cup {Nobody}, projectLock' \in Procs \cup {Nobody}
  PROVE  Books'
<1>1. proc \in [Procs -> Transaction]
  BY DEF Books, TypeOK, Transaction
<1>2. TypeOK'
  <2>1. proc' \in [Procs -> Transaction]
    BY <1>1
  <2>2. QED
    BY <2>1 DEF Books, TypeOK, Transaction
<1>3. RowsCount'
  BY DEF Books, RowsCount
<1>4. ASSUME NEW q \in Procs PROVE Sound(proc[q])'
  <2>1. Sound(proc'[q])
    BY <1>1 DEF Books
  <2>2. QED
    BY <2>1 DEF Sound, TotalCents
<1>5. QED
  BY <1>2, <1>3, <1>4 DEF Books

\* A transaction that ends without a row.
LEMMA EndKeepsBooks ==
  ASSUME Books, NEW p \in Procs, End(p), UNCHANGED <<usage, settlement>>,
         wallet' \in Int, deposits' \in Int
  PROVE  Books'
<1>1. walletLock' \in Procs \cup {Nobody} /\ projectLock' \in Procs \cup {Nobody}
  BY DEF End, Books, TypeOK
<1>2. QED
  BY <1>1, NoTransactionIsSound, MoveKeepsBooks DEF End

\* A transaction that ends with a row.
LEMMA WriteKeepsBooks ==
  ASSUME Books, NEW p \in Procs, End(p), NEW r \in Refs, NEW b, NEW cents,
         Written(r, b, cents), wallet' \in Int, deposits' \in Int
  PROVE  Books'
<1>1. proc \in [Procs -> Transaction]
  BY DEF Books, TypeOK, Transaction
<1>2. TypeOK'
  <2>1. proc' \in [Procs -> Transaction]
    BY <1>1, NoTransactionIsSound DEF End
  <2>2. walletLock' \in Procs \cup {Nobody} /\ projectLock' \in Procs \cup {Nobody}
    BY DEF End, Books, TypeOK
  <2>3. QED
    BY <2>1, <2>2 DEF TypeOK, Transaction, Written
<1>3. \A q \in Refs : TotalCents(q) <= TotalCents(q)' /\ TotalCents(q)' \in Nat
                       /\ (usage[q] /= <<>> => usage'[q] /= <<>>)
  <2>1. \A q \in Refs : TotalCents(q)' \in Nat
    <3>1. \A q \in Refs : usage'[q] \in Seq(Row)
      BY DEF Written
    <3>2. QED
      BY <3>1, RowsSum DEF TotalCents
  <2>2. QED
    BY <2>1 DEF Written
<1>4. ASSUME NEW q \in Procs PROVE Sound(proc[q])'
  <2>1. proc'[q] \in Transaction /\ Sound(proc'[q])
    BY <1>1, NoTransactionIsSound DEF End, Books
  <2>2. TypeOK
    BY DEF Books
  <2>3. \A t \in Transaction : Sound(t) => Sound(t)'
    BY <1>3, <2>2, SoundLasts
  <2>4. PICK t \in Transaction : t = proc'[q] /\ Sound(t)'
    BY <2>1, <2>3
  <2>5. QED
    BY <2>4 DEF Sound
<1>5. QED
  BY <1>2, <1>4 DEF Books, Written

\* A process that goes on keeps what it knows.
LEMMA GotoKeepsBooks ==
  ASSUME Books, NEW p \in Procs, NEW pc \in PCs, Goto(p, pc),
         UNCHANGED <<wallet, usage, settlement, deposits>>,
         Sound([proc[p] EXCEPT !.pc = pc]),
         walletLock' \in Procs \cup {Nobody}, projectLock' \in Procs \cup {Nobody}
  PROVE  Books'
<1>1. proc[p] \in Transaction
  BY DEF Books, TypeOK, Transaction
<1>2. [proc[p] EXCEPT !.pc = pc] \in Transaction
  BY <1>1 DEF Transaction
<1>3. proc' = [proc EXCEPT ![p] = [proc[p] EXCEPT !.pc = pc]]
  BY DEF Goto
<1>4. wallet' \in Int /\ deposits' \in Int
  BY DEF Books, TypeOK
<1>5. QED
  BY <1>2, <1>3, <1>4, MoveKeepsBooks

\* Every new transaction.
LEMMA CallKeepsBooks ==
  ASSUME Books, NEW p \in Procs, Call(p) PROVE Books'
<1>1. /\ wallet \in Int /\ deposits \in Int
      /\ walletLock \in Procs \cup {Nobody} /\ projectLock \in Procs \cup {Nobody}
      /\ \A r \in Refs : usage[r] \in Seq(Row)
  BY DEF Books, TypeOK
<1>2. ASSUME NEW pc \in PCs, NEW r \in Refs, NEW cents \in Nat, NEW seen \in Nat,
             NEW auth \in Nat, Begin(p, pc, r, cents, seen, auth),
             UNCHANGED <<wallet, walletLock, projectLock, usage, settlement, deposits>>,
             Sound([pc |-> pc, ref |-> r, cents |-> cents, seen |-> seen, auth |-> auth,
                    bal |-> 0])
      PROVE  Books'
  <2> DEFINE t == [pc |-> pc, ref |-> r, cents |-> cents, seen |-> seen, auth |-> auth,
                   bal |-> 0]
  <2>1. t \in Transaction
    BY DEF Transaction
  <2>2. proc' = [proc EXCEPT ![p] = t]
    BY <1>2 DEF Begin
  <2>3. Sound(t)
    BY <1>2
  <2> HIDE DEF t
  <2>4. QED
    BY <1>1, <1>2, <2>1, <2>2, <2>3, MoveKeepsBooks
<1>3. \A c \in Cents : c \in Nat /\ c >= 1
  BY DEF Cents
<1>4. ASSUME NEW c \in Cents, BeginDeposit(p, c) PROVE Books'
  <2>1. NoTransaction.ref \in Refs
    BY NoTransactionIsSound DEF Transaction
  <2>2. Sound([pc |-> "deposit", ref |-> NoTransaction.ref, cents |-> c, seen |-> 0,
               auth |-> 0, bal |-> 0])
    BY <1>3 DEF Sound
  <2>3. QED
    BY <1>2, <1>3, <1>4, <2>1, <2>2 DEF BeginDeposit, PCs
<1>5. ASSUME NEW r \in Refs, BeginRefund(p, r) PROVE Books'
  <2>1. Len(usage[r]) \in Nat
    BY <1>1
  <2>2. Sound([pc |-> "refund", ref |-> r, cents |-> 0, seen |-> Len(usage[r]),
               auth |-> 0, bal |-> 0])
    BY DEF Sound
  <2>3. QED
    BY <1>2, <1>5, <2>1, <2>2 DEF BeginRefund, PCs
<1>6. ASSUME NEW r \in Refs, NEW c \in Cents, BeginCharge(p, r, c) PROVE Books'
  <2>1. Sound([pc |-> "project", ref |-> r, cents |-> c, seen |-> 0, auth |-> 0, bal |-> 0])
    BY <1>3 DEF Sound
  <2>2. QED
    BY <1>2, <1>3, <1>6, <2>1 DEF BeginCharge, PCs
<1>7. ASSUME NEW r \in Refs, NEW actual \in 0..MaxActual, BeginSettle(p, r, actual)
      PROVE  Books'
  <2> DEFINE auth == Outstanding(BookOf(r))
  <2>1. BookOf(r) \in Book /\ BookOf(r).open + BookOf(r).closed = TotalCents(r)
    BY BookIs DEF Books
  <2>2. auth \in Nat /\ auth <= TotalCents(r)
    <3>1. BookOf(r).open \in Nat /\ BookOf(r).closed \in Nat /\ BookOf(r).setl \in Nat
      BY <2>1 DEF Book
    <3>2. auth <= BookOf(r).open /\ auth \in Nat
      BY <3>1 DEF Outstanding, Net
    <3> HIDE DEF auth
    <3>3. QED
      BY <2>1, <3>1, <3>2
  <2> HIDE DEF auth
  <2>3. actual \in Nat
    OBVIOUS
  <2>4. Sound([pc |-> "settleCheck", ref |-> r, cents |-> actual, seen |-> 0, auth |-> auth,
               bal |-> 0])
    BY <1>7, <2>2 DEF BeginSettle, Sound
  <2>5. Begin(p, "settleCheck", r, actual, 0, auth)
    BY <1>7 DEF BeginSettle, auth
  <2>6. QED
    BY <1>2, <1>7, <2>2, <2>3, <2>4, <2>5 DEF BeginSettle, PCs
<1>8. QED
  BY <1>4, <1>5, <1>6, <1>7 DEF Call

\* Every lock.
LEMMA LockKeepsBooks ==
  ASSUME Books, NEW p \in Procs, Lock(p) PROVE Books'
<1>1. /\ wallet \in Int /\ deposits \in Int
      /\ walletLock \in Procs \cup {Nobody} /\ projectLock \in Procs \cup {Nobody}
      /\ proc[p] \in Transaction /\ Sound(proc[p])
  BY DEF Books, TypeOK, Transaction
<1>2. CASE LockProject(p)
  <2>1. PICK pc \in {"charge", "refused"} : Goto(p, pc)
    BY <1>2 DEF LockProject
  <2>2. Sound([proc[p] EXCEPT !.pc = pc])
    BY <1>1, <1>2 DEF LockProject, Sound, Transaction
  <2>3. QED
    BY <1>1, <1>2, <2>1, <2>2, GotoKeepsBooks DEF LockProject, PCs
<1>3. ASSUME NEW from, NEW to, LockWallet(p, from, to),
             <<from, to>> \in {<<"charge", "chargeWrite">>, <<"refund", "refundWrite">>,
                               <<"settle", "settleWrite">>, <<"deposit", "depositWrite">>}
      PROVE  Books'
  <2> DEFINE t == [[proc[p] EXCEPT !.pc = to] EXCEPT !.bal = wallet]
  <2>1. t \in Transaction
    BY <1>1, <1>3 DEF Transaction, PCs
  <2>2. Sound(t)
    BY <1>1, <1>3 DEF LockWallet, Sound, Transaction
  <2>3. proc' = [proc EXCEPT ![p] = t]
    BY <1>3 DEF LockWallet
  <2> HIDE DEF t
  <2>4. QED
    BY <1>1, <1>3, <2>1, <2>2, <2>3, MoveKeepsBooks DEF LockWallet
<1>4. QED
  BY <1>2, <1>3 DEF Lock

(***************************************************************************)
(* What the four writes do to the wallet and to the book of a reference.   *)
(***************************************************************************)
ChargeTaken(r, cents) ==
  /\ cents >= 1 /\ wallet' = wallet - cents /\ wallet' >= 0
  /\ Written(r, [open |-> BookOf(r).open + cents, closed |-> BookOf(r).closed,
                 setl |-> BookOf(r).setl, over |-> BookOf(r).over], 0)

RefundGiven(r, cents) ==
  /\ cents <= BookOf(r).open /\ wallet' = wallet + cents
  /\ Written(r, [open |-> BookOf(r).open - cents, closed |-> BookOf(r).closed + cents,
                 setl |-> BookOf(r).setl, over |-> BookOf(r).over], 0)

SurplusGiven(r, cents) ==
  /\ cents >= 1 /\ cents <= BookOf(r).open + BookOf(r).closed /\ wallet' = wallet + cents
  /\ BookOf(r).setl = 0
  /\ Written(r, [BookOf(r) EXCEPT !.setl = cents], 0)

OverageTaken(r, cents) ==
  /\ cents >= 1 /\ wallet' = wallet - cents /\ HasCharges(BookOf(r)) /\ ~BookOf(r).over
  /\ Written(r, [open |-> BookOf(r).open + cents, closed |-> BookOf(r).closed,
                 setl |-> BookOf(r).setl, over |-> TRUE], cents)

\* The transaction of a process, field by field.
LEMMA TransactionIs ==
  ASSUME Books, NEW p \in Procs
  PROVE  /\ proc[p].ref \in Refs /\ proc[p].cents \in Nat /\ proc[p].auth \in Nat
         /\ proc[p].bal \in Int /\ wallet \in Int /\ deposits \in Int
         /\ usage[proc[p].ref] \in Seq(Row) /\ usage \in [Refs -> Seq(Row)]
         /\ settlement \in [Refs -> Nat] /\ settlement[proc[p].ref] \in Nat
         /\ TypeOK /\ RowsCount /\ Sound(proc[p])
BY DEF Books, TypeOK

\* A charge.
LEMMA ChargeTakes ==
  ASSUME Inv, Books, NEW p \in Procs, WriteCharge(p)
  PROVE  ChargeTaken(proc[p].ref, proc[p].cents)
<1> DEFINE r == proc[p].ref
           cents == proc[p].cents
           row == [cents |-> cents, over |-> FALSE, refunded |-> FALSE]
<1>1. cents >= 1 /\ cents \in Nat /\ r \in Refs
  BY TransactionIs DEF WriteCharge, Sound
<1>2. proc[p].bal = wallet
  BY DEF WriteCharge, Inv, LocksHeld, HoldsWallet
<1>3. wallet' = wallet - cents /\ wallet' >= 0
  BY <1>2 DEF WriteCharge, Covered
<1>4. row \in Row /\ row.cents = cents /\ ~row.over /\ ~row.refunded
  BY <1>1 DEF Row
<1>5. usage' = [usage EXCEPT ![r] = Append(@, row)] /\ UNCHANGED settlement
  BY DEF WriteCharge
<1> HIDE DEF row
<1>6. Written(r,
        [open |-> BookOf(r).open + row.cents, closed |-> BookOf(r).closed,
         setl |-> BookOf(r).setl, over |-> BookOf(r).over \/ row.over],
        IF row.over THEN row.cents ELSE 0)
  BY <1>1, <1>4, <1>5, TransactionIs, RowIsWritten
<1>7. BookOf(r).over \in BOOLEAN
  BY <1>1, TransactionIs, BookIs DEF Book
<1>8. /\ (BookOf(r).over \/ row.over) = BookOf(r).over
      /\ (IF row.over THEN row.cents ELSE 0) = 0
  BY <1>4, <1>7
<1>9. Written(r,
        [open |-> BookOf(r).open + cents, closed |-> BookOf(r).closed,
         setl |-> BookOf(r).setl, over |-> BookOf(r).over], 0)
  BY <1>4, <1>6, <1>8
<1>10. QED
  BY <1>1, <1>3, <1>9 DEF ChargeTaken

\* A refund.
LEMMA RefundGives ==
  ASSUME Inv, Books, NEW p \in Procs, WriteRefund(p)
  PROVE  \E cents \in Nat : RefundGiven(proc[p].ref, cents)
<1> DEFINE r == proc[p].ref
           W == Returnable(p)
           cents == RowCents(usage[r], W)
<1>1. r \in Refs /\ W \in SUBSET Unrefunded(usage[r])
  BY TransactionIs DEF Returnable
<1>2. proc[p].bal = wallet
  <2>1. proc[p].pc \in HoldsWallet
    BY Zenon DEF WriteRefund, HoldsWallet
  <2>2. QED
    BY <2>1 DEF Inv, LocksHeld
<1>3. wallet' = wallet + cents
  <2>1. wallet' = proc[p].bal + cents
    BY DEF WriteRefund
  <2>2. QED
    BY <1>2, <2>1, Zenon
<1>4. usage' = [usage EXCEPT ![r] = Returning(usage[r], W)] /\ UNCHANGED settlement
  BY DEF WriteRefund
<1> HIDE DEF W
<1>5. /\ cents \in Nat /\ cents <= BookOf(r).open
      /\ Written(r,
           [open |-> BookOf(r).open - cents, closed |-> BookOf(r).closed + cents,
            setl |-> BookOf(r).setl, over |-> BookOf(r).over], 0)
  BY <1>1, <1>4, TransactionIs, RefundIsWritten
<1>6. QED
  BY <1>3, <1>5 DEF RefundGiven

\* A settlement.
LEMMA SettlementMoves ==
  ASSUME Inv, Books, NEW p \in Procs, WriteSettlement(p)
  PROVE  \/ \E cents \in Nat : SurplusGiven(proc[p].ref, cents)
         \/ \E cents \in Nat : OverageTaken(proc[p].ref, cents)
<1> DEFINE r == proc[p].ref
           auth == proc[p].auth
           actual == proc[p].cents
           b == BookOf(r)
<1>1. /\ r \in Refs /\ auth \in Nat /\ actual \in Nat /\ wallet \in Int
      /\ usage[r] /= <<>> /\ auth <= TotalCents(r) /\ auth /= actual
  BY TransactionIs DEF WriteSettlement, Sound
<1>2. proc[p].bal = wallet
  BY DEF WriteSettlement, Inv, LocksHeld, HoldsWallet
<1>3. wallet' = wallet + (auth - actual)
  BY <1>2 DEF WriteSettlement
<1>4. /\ b \in Book /\ b.open + b.closed = TotalCents(r) /\ TotalCents(r) \in Nat
      /\ b.setl = settlement[r]
  BY <1>1, TransactionIs, BookIs
<1>5. CASE auth > actual
  <2> DEFINE cents == auth - actual
  <2>1. cents \in Nat /\ cents >= 1 /\ cents <= auth
    BY <1>1, <1>5
  <2>2. b.setl = 0
    BY <1>1, <1>4, <1>5, TransactionIs DEF WriteSettlement, AlreadySettled
  <2>3. settlement' = [settlement EXCEPT ![r] = cents] /\ UNCHANGED usage
    BY <1>5 DEF WriteSettlement
  <2>4. wallet' = wallet + cents
    BY <1>3
  <2>5. cents <= b.open + b.closed
    BY <1>1, <1>4, <2>1
  <2> HIDE DEF cents
  <2>6. Written(r, [BookOf(r) EXCEPT !.setl = cents], 0)
    BY <1>1, <2>1, <2>3, TransactionIs, SurplusIsWritten
  <2>7. QED
    BY <2>1, <2>2, <2>4, <2>5, <2>6 DEF SurplusGiven
<1>6. CASE ~(auth > actual)
  <2> DEFINE cents == actual - auth
             row == [cents |-> cents, over |-> TRUE, refunded |-> FALSE]
  <2>1. cents \in Nat /\ cents >= 1 /\ wallet' = wallet - cents
    BY <1>1, <1>3, <1>6
  <2>2. ~b.over
    BY <1>6 DEF WriteSettlement, AlreadySettled
  <2>3. HasCharges(b)
    <3>1. TotalCents(r) >= 1
      BY <1>1, TransactionIs, SomeRows DEF TotalCents, RowsCount
    <3>2. QED
      BY <1>4, <3>1 DEF HasCharges
  <2>4. row \in Row /\ row.cents = cents /\ row.over = TRUE /\ ~row.refunded
    BY <2>1 DEF Row
  <2>5. usage' = [usage EXCEPT ![r] = Append(@, row)] /\ UNCHANGED settlement
    BY <1>6 DEF WriteSettlement
  <2> HIDE DEF row, cents
  <2>6. Written(r,
          [open |-> BookOf(r).open + row.cents, closed |-> BookOf(r).closed,
           setl |-> BookOf(r).setl, over |-> BookOf(r).over \/ row.over],
          IF row.over THEN row.cents ELSE 0)
    BY <1>1, <2>1, <2>4, <2>5, TransactionIs, RowIsWritten
  <2>7. /\ (BookOf(r).over \/ row.over) = TRUE
        /\ (IF row.over THEN row.cents ELSE 0) = cents
    BY <2>4
  <2>8. Written(r,
          [open |-> BookOf(r).open + cents, closed |-> BookOf(r).closed,
           setl |-> BookOf(r).setl, over |-> TRUE], cents)
    BY <2>4, <2>6, <2>7
  <2>9. QED
    BY <2>1, <2>2, <2>3, <2>8 DEF OverageTaken
<1>7. QED
  BY <1>5, <1>6

\* Every read, refusal and write.
LEMMA WriteTypes ==
  ASSUME Inv, Books, NEW p \in Procs, Write(p) PROVE Books'
<1>1. /\ proc[p] \in Transaction /\ Sound(proc[p])
      /\ walletLock \in Procs \cup {Nobody} /\ projectLock \in Procs \cup {Nobody}
  BY DEF Books, TypeOK, Transaction
<1>2. CASE CheckSettled(p)
  <2>1. CASE End(p)
    BY <1>2, <2>1, EndKeepsBooks, TransactionIs DEF CheckSettled
  <2>2. CASE ~End(p)
    <3>1. proc[p].auth /= proc[p].cents /\ Goto(p, "settle") /\ proc[p].pc = "settleCheck"
      BY <1>2, <2>2 DEF CheckSettled
    <3>2. Sound([proc[p] EXCEPT !.pc = "settle"])
      BY <1>1, <3>1 DEF Sound, Transaction
    <3>3. UNCHANGED <<walletLock, projectLock>>
      BY <1>2, <2>2 DEF CheckSettled
    <3>4. QED
      BY <1>1, <1>2, <3>1, <3>2, <3>3, GotoKeepsBooks DEF CheckSettled, PCs
  <2>3. QED
    BY <2>1, <2>2
<1>3. CASE Insufficient(p)
  <2>1. Sound([proc[p] EXCEPT !.pc = "refused"])
    BY <1>1 DEF Sound, Transaction
  <2>2. QED
    BY <1>1, <1>3, <2>1, GotoKeepsBooks DEF Insufficient, PCs
<1>4. CASE Refused(p)
  <2>1. CASE End(p)
    BY <1>4, <2>1, EndKeepsBooks, TransactionIs DEF Refused
  <2>2. CASE Goto(p, "closing") /\ UNCHANGED <<walletLock, projectLock>>
    <3>1. Sound([proc[p] EXCEPT !.pc = "closing"])
      BY <1>1 DEF Sound, Transaction
    <3>2. QED
      BY <1>1, <1>4, <2>2, <3>1, GotoKeepsBooks DEF Refused, PCs
  <2>3. QED
    BY <1>4, <2>1, <2>2 DEF Refused
<1>5. CASE WriteCharge(p)
  <2>1. ChargeTaken(proc[p].ref, proc[p].cents)
    BY <1>5, ChargeTakes
  <2>2. wallet' \in Int /\ deposits' \in Int /\ End(p)
    BY <1>5, <2>1, TransactionIs DEF ChargeTaken, WriteCharge
  <2>3. QED
    BY <2>1, <2>2, TransactionIs, WriteKeepsBooks DEF ChargeTaken
<1>6. CASE WriteDeposit(p)
  <2>1. wallet' \in Int /\ deposits' \in Int
    BY <1>6, TransactionIs DEF WriteDeposit
  <2>2. QED
    BY <1>6, <2>1, EndKeepsBooks DEF WriteDeposit
<1>7. CASE WriteRefund(p)
  <2>1. PICK cents \in Nat : RefundGiven(proc[p].ref, cents)
    BY <1>7, RefundGives
  <2>2. wallet' \in Int
    BY <2>1, TransactionIs DEF RefundGiven
  <2>3. End(p) /\ deposits' \in Int
    BY <1>7, TransactionIs, Zenon DEF WriteRefund
  <2>4. QED
    BY <2>1, <2>2, <2>3, TransactionIs, WriteKeepsBooks DEF RefundGiven
<1>8. CASE DuplicateSettlement(p)
  BY <1>8, EndKeepsBooks, TransactionIs DEF DuplicateSettlement
<1>9. CASE WriteSettlement(p)
  <2>1. End(p) /\ deposits' \in Int
    BY <1>9, TransactionIs, Zenon DEF WriteSettlement
  <2>2. CASE \E cents \in Nat : SurplusGiven(proc[p].ref, cents)
    <3>1. PICK cents \in Nat : SurplusGiven(proc[p].ref, cents)
      BY <2>2
    <3>2. wallet' \in Int
      BY <3>1, TransactionIs DEF SurplusGiven
    <3>3. QED
      BY <2>1, <3>1, <3>2, TransactionIs, WriteKeepsBooks DEF SurplusGiven
  <2>3. CASE \E cents \in Nat : OverageTaken(proc[p].ref, cents)
    <3>1. PICK cents \in Nat : OverageTaken(proc[p].ref, cents)
      BY <2>3
    <3>2. wallet' \in Int
      BY <3>1, TransactionIs DEF OverageTaken
    <3>3. QED
      BY <2>1, <3>1, <3>2, TransactionIs, WriteKeepsBooks DEF OverageTaken
  <2>4. QED
    BY <1>9, <2>2, <2>3, SettlementMoves
<1>10. QED
  BY <1>2, <1>3, <1>4, <1>5, <1>6, <1>7, <1>8, <1>9 DEF Write

\* Nothing has been charged.
LEMMA InitBooks == Init => Books
<1> SUFFICES ASSUME Init PROVE Books
  OBVIOUS
<1>1. TypeOK
  BY NoTransactionIsSound DEF Init, TypeOK, Transaction
<1>2. RowsCount
  BY DEF Init, RowsCount
<1>3. \A p \in Procs : Sound(proc[p])
  BY NoTransactionIsSound DEF Init
<1>4. QED
  BY <1>1, <1>2, <1>3 DEF Books

\* Every step keeps the types and what the transactions know.
LEMMA NextKeepsBooks == Inv /\ Books /\ [Next]_vars => Books'
<1> SUFFICES ASSUME Inv, Books, [Next]_vars PROVE Books'
  OBVIOUS
<1>1. ASSUME NEW p \in Procs, Call(p) PROVE Books'
  BY <1>1, CallKeepsBooks
<1>2. ASSUME NEW p \in Procs, Lock(p) PROVE Books'
  BY <1>2, LockKeepsBooks
<1>3. ASSUME NEW p \in Procs, Write(p) PROVE Books'
  BY <1>3, WriteTypes
<1>4. ASSUME NEW p \in Procs, Close(p) \/ Abort(p) PROVE Books'
  BY <1>4, EndKeepsBooks, TransactionIs DEF Close, Abort
<1>5. CASE UNCHANGED vars
  <2>1. TypeOK' /\ RowsCount'
    BY <1>5 DEF vars, Books, TypeOK, RowsCount
  <2>2. \A p \in Procs : Sound(proc[p])'
    BY <1>5 DEF vars, Books, Sound, TotalCents
  <2>3. QED
    BY <2>1, <2>2 DEF Books
<1>6. QED
  BY <1>1, <1>2, <1>3, <1>4, <1>5 DEF Next

\* All variables keep their types: rows are cents that were taken, no settlement
\* is negative, whatever overlaps (models.py, CreditLedger).
THEOREM TypeCorrect == Spec => []TypeOK
<1>1. Init => Inv /\ Books
  BY InitInv, InitBooks
<1>2. Inv /\ Books /\ [Next]_vars => (Inv /\ Books)'
  BY NextKeepsInv, NextKeepsBooks
<1>3. Books => TypeOK
  BY DEF Books
<1>4. QED
  BY <1>1, <1>2, <1>3, PTL DEF Spec

(***************************************************************************)
(* The refinement: every commit of a row is one step of the abstract       *)
(* wallet, every other step none.                                          *)
(***************************************************************************)
TheBook == [r \in Refs |-> BookOf(r)]

\* A write changes one book.
LEMMA OneBook ==
  ASSUME NEW r \in Refs, NEW b, NEW cents, Written(r, b, cents)
  PROVE  TheBook' = [TheBook EXCEPT ![r] = b]
<1>1. ASSUME NEW q \in Refs, q /= r PROVE BookOf(q)' = BookOf(q)
  BY <1>1 DEF Written, BookOf
<1>2. BookOf(r)' = b
  BY DEF Written
<1>3. TheBook' = [q \in Refs |-> BookOf(q)']
  BY DEF TheBook
<1>4. QED
  BY <1>1, <1>2, <1>3 DEF TheBook

\* Without a row no book changes.
LEMMA SameBooks == UNCHANGED <<usage, settlement>> => UNCHANGED TheBook
BY DEF TheBook, BookOf

\* The cents that a step moves are those that the wallet gains or loses.
LEMMA MovedIs ==
  ASSUME NEW cents \in Nat, cents >= 1, wallet \in Int
  PROVE  /\ wallet' = wallet + cents =>
              Abstract!Moved = cents /\ Abstract!Receives(cents)
         /\ wallet' = wallet - cents => Abstract!Moved = cents /\ Abstract!Pays(cents)
BY DEF Abstract!Moved, Abstract!Receives, Abstract!Pays

\* A charge is the abstract one.
LEMMA ChargeImplements ==
  ASSUME Books, NEW r \in Refs, NEW cents \in Nat, ChargeTaken(r, cents)
  PROVE  Abstract!Next
<1>1. wallet \in Int /\ BookOf(r) \in Book /\ TheBook[r] = BookOf(r)
  BY BookIs DEF Books, TypeOK, TheBook
<1>2. Abstract!Moved = cents /\ Abstract!Pays(cents) /\ wallet' >= 0
  BY <1>1, MovedIs DEF ChargeTaken
<1>3. Abstract!Charged(BookOf(r), cents) =
        [open |-> BookOf(r).open + cents, closed |-> BookOf(r).closed,
         setl |-> BookOf(r).setl, over |-> BookOf(r).over]
  BY <1>1 DEF Abstract!Charged, Book
<1>4. TheBook' = [TheBook EXCEPT ![r] = Abstract!Charged(TheBook[r], cents)]
  BY <1>1, <1>3, OneBook DEF ChargeTaken
<1>5. Abstract!Charge(r, cents)
  BY <1>2, <1>4 DEF Abstract!Charge, TheBook
<1>6. QED
  BY <1>2, <1>5 DEF Abstract!Next

\* So is a refund; one that finds nothing to return changes nothing.
LEMMA RefundImplements ==
  ASSUME Books, NEW r \in Refs, NEW cents \in Nat, RefundGiven(r, cents)
  PROVE  Abstract!Next \/ UNCHANGED <<wallet, TheBook>>
<1>1. wallet \in Int /\ BookOf(r) \in Book /\ TheBook[r] = BookOf(r)
  BY BookIs DEF Books, TypeOK, TheBook
<1>2. TheBook' = [TheBook EXCEPT ![r] =
        [open |-> BookOf(r).open - cents, closed |-> BookOf(r).closed + cents,
         setl |-> BookOf(r).setl, over |-> BookOf(r).over]]
  BY OneBook DEF RefundGiven
<1>3. CASE cents = 0
  <2>1. wallet' = wallet
    BY <1>1, <1>3 DEF RefundGiven
  <2>2. BookOf(r) = [open |-> BookOf(r).open - cents, closed |-> BookOf(r).closed + cents,
                     setl |-> BookOf(r).setl, over |-> BookOf(r).over]
    BY <1>1, <1>3 DEF Book
  <2>3. TheBook' = TheBook
    <3>1. BookOf(r)' = BookOf(r)
      BY <2>2 DEF RefundGiven, Written
    <3>2. \A q \in Refs \ {r} : BookOf(q)' = BookOf(q)
      BY DEF RefundGiven, Written, BookOf
    <3>3. QED
      BY <3>1, <3>2 DEF TheBook
  <2>4. QED
    BY <2>1, <2>3
<1>4. CASE cents >= 1
  <2>1. Abstract!Moved = cents /\ Abstract!Receives(cents)
    BY <1>1, <1>4, MovedIs DEF RefundGiven
  <2>2. Abstract!Returned(BookOf(r), cents) =
          [open |-> BookOf(r).open - cents, closed |-> BookOf(r).closed + cents,
           setl |-> BookOf(r).setl, over |-> BookOf(r).over]
    <3>1. ASSUME NEW b \in Book
          PROVE  Abstract!Returned(b, cents) =
                   [open |-> b.open - cents, closed |-> b.closed + cents,
                    setl |-> b.setl, over |-> b.over]
      <4>1. b = [open |-> b.open, closed |-> b.closed, setl |-> b.setl, over |-> b.over]
        BY DEF Book
      <4> DEFINE less == [b EXCEPT !.open = b.open - cents]
      <4>2. less = [open |-> b.open - cents, closed |-> b.closed, setl |-> b.setl,
                    over |-> b.over]
        BY <4>1
      <4>3. [less EXCEPT !.closed = b.closed + cents] =
              [open |-> b.open - cents, closed |-> b.closed + cents, setl |-> b.setl,
               over |-> b.over]
        <5> HIDE DEF less
        <5>1. QED
          BY <4>2
      <4>4. QED
        BY <4>3, Zenon DEF Abstract!Returned
    <3>2. QED
      BY <1>1, <3>1
  <2>3. TheBook' = [TheBook EXCEPT ![r] = Abstract!Returned(TheBook[r], cents)]
    BY <1>1, <1>2, <2>2
  <2>4. cents <= TheBook[r].open
    BY <1>1 DEF RefundGiven
  <2>5. Abstract!Refund(r, cents)
    BY <2>1, <2>3, <2>4 DEF Abstract!Refund, TheBook
  <2>6. QED
    BY <2>1, <2>5 DEF Abstract!Next
<1>5. QED
  BY <1>3, <1>4

\* So is a settlement that gives back.
LEMMA SurplusImplements ==
  ASSUME Books, NEW r \in Refs, NEW cents \in Nat, SurplusGiven(r, cents)
  PROVE  Abstract!Next
<1>1. wallet \in Int /\ BookOf(r) \in Book /\ TheBook[r] = BookOf(r)
  BY BookIs DEF Books, TypeOK, TheBook
<1>2. Abstract!Moved = cents /\ Abstract!Receives(cents)
  BY <1>1, MovedIs DEF SurplusGiven
<1>3. /\ cents >= 1 /\ cents <= BookOf(r).open + BookOf(r).closed /\ BookOf(r).setl = 0
      /\ BookOf(r).open \in Nat /\ BookOf(r).closed \in Nat
  BY <1>1 DEF SurplusGiven, Book
<1>4. Abstract!Settled(BookOf(r), cents, 0) = [BookOf(r) EXCEPT !.setl = cents]
  <2>1. Abstract!HasCharges(BookOf(r)) /\ cents > 0 /\ cents - 0 = cents
    BY <1>3 DEF Abstract!HasCharges
  <2>2. QED
    BY <1>3, <2>1 DEF Abstract!Settled
<1>5. TheBook' = [TheBook EXCEPT ![r] = Abstract!Settled(TheBook[r], cents, 0)]
  BY <1>1, <1>4, OneBook DEF SurplusGiven
<1>6. Abstract!Surplus(r, cents)
  <2>1. cents <= TheBook[r].open + TheBook[r].closed /\ TheBook[r].setl = 0
    BY <1>1, <1>3
  <2>2. QED
    BY <1>2, <1>5, <2>1 DEF Abstract!Surplus, TheBook
<1>7. QED
  BY <1>2, <1>6 DEF Abstract!Next

\* So is one that takes the overage.
LEMMA OverageImplements ==
  ASSUME Books, NEW r \in Refs, NEW cents \in Nat, OverageTaken(r, cents)
  PROVE  Abstract!Next
<1>1. wallet \in Int /\ BookOf(r) \in Book /\ TheBook[r] = BookOf(r)
  BY BookIs DEF Books, TypeOK, TheBook
<1>2. Abstract!Moved = cents /\ Abstract!Pays(cents)
  BY <1>1, MovedIs DEF OverageTaken
<1>3. /\ cents >= 1 /\ ~BookOf(r).over
      /\ Abstract!HasCharges(BookOf(r))
  BY DEF OverageTaken, HasCharges, Abstract!HasCharges
<1>4. Abstract!Settled(BookOf(r), 0, cents) =
        [open |-> BookOf(r).open + cents, closed |-> BookOf(r).closed,
         setl |-> BookOf(r).setl, over |-> TRUE]
  <2>1. ~(0 > cents) /\ cents > 0 /\ cents - 0 = cents
    BY <1>3
  <2>2. Abstract!Settled(BookOf(r), 0, cents) =
          [BookOf(r) EXCEPT !.open = BookOf(r).open + cents, !.over = TRUE]
    BY <1>1, <1>3, <2>1 DEF Abstract!Settled
  <2>3. QED
    BY <1>1, <2>2 DEF Book
<1>5. TheBook' = [TheBook EXCEPT ![r] = Abstract!Settled(TheBook[r], 0, cents)]
  BY <1>1, <1>4, OneBook DEF OverageTaken
<1>6. Abstract!Overage(r, cents)
  <2>1. Abstract!HasCharges(TheBook[r]) /\ ~TheBook[r].over
    BY <1>1, <1>3
  <2>2. QED
    BY <1>2, <1>5, <2>1 DEF Abstract!Overage, TheBook
<1>7. QED
  BY <1>2, <1>6 DEF Abstract!Next

\* So is a deposit.
LEMMA DepositImplements ==
  ASSUME Inv, Books, NEW p \in Procs, WriteDeposit(p)
  PROVE  Abstract!Next
<1> DEFINE cents == proc[p].cents
<1>1. cents \in Nat /\ cents >= 1 /\ wallet \in Int
  BY TransactionIs DEF WriteDeposit, Sound
<1>2. proc[p].bal = wallet
  BY DEF WriteDeposit, Inv, LocksHeld, HoldsWallet
<1>3. wallet' = wallet + cents /\ wallet' >= 0 /\ UNCHANGED <<usage, settlement>>
  BY <1>2 DEF WriteDeposit, Covered
<1> HIDE DEF cents
<1>4. Abstract!Moved = cents /\ Abstract!Receives(cents)
  BY <1>1, <1>3, MovedIs
<1>5. UNCHANGED TheBook
  BY <1>3, SameBooks
<1>6. Abstract!Deposit(cents)
  BY <1>3, <1>4, <1>5 DEF Abstract!Deposit, TheBook
<1>7. QED
  BY <1>4, <1>6 DEF Abstract!Next

\* The empty ledger is the abstract one.
LEMMA InitBook == ASSUME Init, NEW r \in Refs PROVE BookOf(r) = NoCharges
<1>1. usage[r] = <<>> /\ settlement[r] = 0 /\ DOMAIN usage[r] = {}
  BY DEF Init
<1>2. Unrefunded(usage[r]) = {}
  BY <1>1 DEF Unrefunded
<1>3. RowCents(usage[r], {}) = 0
  BY FS_EmptySet, SumFirst DEF RowCents, Sum
<1>4. QED
  BY <1>1, <1>2, <1>3 DEF BookOf, NoCharges

\* So the initial states are abstract ones.
LEMMA InitImplements == Init => Abstract!Init
BY InitBook DEF Init, Abstract!Init, NoCharges, Abstract!NoCharges

\* Every step is an abstract one or none.
LEMMA NextImplements ==
  Inv /\ Books /\ [Next]_vars => [Abstract!Next]_(Abstract!vars)
<1> SUFFICES ASSUME Inv, Books, [Next]_vars
             PROVE  Abstract!Next \/ UNCHANGED <<wallet, TheBook>>
  BY DEF Abstract!vars, TheBook
<1>1. ASSUME UNCHANGED <<wallet, usage, settlement>> PROVE UNCHANGED <<wallet, TheBook>>
  BY <1>1, SameBooks
<1>2. ASSUME NEW p \in Procs, Call(p) PROVE UNCHANGED <<wallet, usage, settlement>>
  BY <1>2 DEF Call, BeginDeposit, BeginRefund, BeginCharge, BeginSettle
<1>3. ASSUME NEW p \in Procs, Lock(p) PROVE UNCHANGED <<wallet, usage, settlement>>
  BY <1>3 DEF Lock, LockProject, LockWallet
<1>4. ASSUME NEW p \in Procs, Close(p) \/ Abort(p)
      PROVE  UNCHANGED <<wallet, usage, settlement>>
  BY <1>4 DEF Close, Abort
<1>5. ASSUME NEW p \in Procs, Write(p)
      PROVE  Abstract!Next \/ UNCHANGED <<wallet, TheBook>>
  <2>1. proc[p].ref \in Refs /\ proc[p].cents \in Nat
    BY TransactionIs
  <2>2. CASE CheckSettled(p) \/ Insufficient(p) \/ Refused(p) \/ DuplicateSettlement(p)
    <3>1. UNCHANGED <<wallet, usage, settlement>>
      BY <2>2 DEF CheckSettled, Insufficient, Refused, DuplicateSettlement
    <3>2. QED
      BY <1>1, <3>1
  <2>3. CASE WriteCharge(p)
    BY <2>1, <2>3, ChargeTakes, ChargeImplements
  <2>4. CASE WriteDeposit(p)
    BY <2>4, DepositImplements
  <2>5. CASE WriteRefund(p)
    BY <2>1, <2>5, RefundGives, RefundImplements
  <2>6. CASE WriteSettlement(p)
    BY <2>1, <2>6, SettlementMoves, SurplusImplements, OverageImplements
  <2>7. QED
    BY <1>5, <2>2, <2>3, <2>4, <2>5, <2>6 DEF Write
<1>6. CASE UNCHANGED vars
  BY <1>1, <1>6 DEF vars
<1>7. QED
  BY <1>1, <1>2, <1>3, <1>4, <1>5, <1>6 DEF Next

\* The transactions, which lock rows, read and write in steps of their own,
\* implement the abstract wallet, for any number of processes, references and
\* rows: no cent is lost, made or returned twice, a charge never takes what is
\* not there, and a settlement gives back or takes once (billing.py).
THEOREM WalletImplemented == Spec => ImplementsWallet
<1>1. Init => Inv /\ Books
  BY InitInv, InitBooks
<1>2. Inv /\ Books /\ [Next]_vars => (Inv /\ Books)'
  BY NextKeepsInv, NextKeepsBooks
<1>3. QED
  BY <1>1, <1>2, InitImplements, NextImplements, PTL DEF Spec, ImplementsWallet, Abstract!Spec


(***************************************************************************)
(* The budget. Room is what the project may still be charged; overages do  *)
(* not use it up.                                                          *)
(***************************************************************************)
Room == BudgetCents + NetOf(Refs) + OverageCents

\* The sums of the project are sums over a finite set of integers.
LEMMA RoomIs ==
  ASSUME TypeOK
  PROVE  /\ NetOf(Refs) = Sum([r \in Refs |-> Net(BookOf(r))], Refs) /\ NetOf(Refs) \in Int
         /\ OverageCents = Sum([r \in Refs |-> Overages(usage[r])], Refs)
         /\ OverageCents \in Nat
         /\ Room \in Int
<1> DEFINE net == [r \in Refs |-> Net(BookOf(r))]
           over == [r \in Refs |-> Overages(usage[r])]
<1>1. \A r \in Refs : Net(BookOf(r)) \in Int /\ Overages(usage[r]) \in Nat
  BY BookIs, BookTypes
<1>2. NetOf(Refs) = Sum(net, Refs)
  BY SumOfFunction DEF NetOf
<1>3. OverageCents = Sum(over, Refs)
  BY SumOfFunction DEF OverageCents, OverRows, Overages
<1>4. (\A r \in Refs : net[r] \in Int) /\ (\A r \in Refs : over[r] \in Nat)
  BY <1>1
<1> HIDE DEF net, over
<1>5. Sum(net, Refs) \in Int
  BY <1>4, SumType
<1>6. Sum(over, Refs) \in Nat
  BY <1>4, SumNat
<1>7. Room \in Int
  BY <1>2, <1>3, <1>5, <1>6 DEF Room
<1>8. QED
  BY <1>2, <1>3, <1>5, <1>6, <1>7 DEF net, over

\* A write uses up as much room as its book pays more, but for the overages.
LEMMA RoomMoves ==
  ASSUME TypeOK, NEW r \in Refs, NEW b \in Book, NEW cents \in Nat, Written(r, b, cents)
  PROVE  Room' = Room + (Net(b) - Net(BookOf(r))) + cents
<1> DEFINE net == [q \in Refs |-> Net(BookOf(q))]
           over == [q \in Refs |-> Overages(usage[q])]
           netNow == [q \in Refs |-> Net(BookOf(q)')]
           overNow == [q \in Refs |-> Overages(usage'[q])]
<1>1. /\ \A q \in Refs : Net(BookOf(q)) \in Int /\ Overages(usage[q]) \in Nat
      /\ BookOf(r)' = b /\ Net(b) \in Int
      /\ \A q \in Refs \ {r} : BookOf(q)' = BookOf(q) /\ usage'[q] = usage[q]
      /\ Overages(usage'[r]) = Overages(usage[r]) + cents
  <2>1. \A q \in Refs : Net(BookOf(q)) \in Int /\ Overages(usage[q]) \in Nat
    BY BookIs, BookTypes
  <2>2. BookOf(r)' = b /\ Overages(usage'[r]) = Overages(usage[r]) + cents
    BY DEF Written
  <2>3. \A q \in Refs \ {r} : BookOf(q)' = BookOf(q) /\ usage'[q] = usage[q]
    BY DEF Written, BookOf
  <2>4. QED
    BY <2>1, <2>2, <2>3, BookTypes
<1>2. NetOf(Refs)' = Sum(netNow, Refs)
  BY SumOfFunction DEF NetOf
<1>3. OverageCents' = Sum(overNow, Refs)
  BY SumOfFunction DEF OverageCents, OverRows, Overages
<1>4. Sum(netNow, Refs) = Sum(net, Refs) + (Net(b) - Net(BookOf(r)))
  <2>1. /\ \A q \in Refs : net[q] \in Int
        /\ \A q \in Refs \ {r} : netNow[q] = net[q]
        /\ netNow[r] = Net(b) /\ net[r] = Net(BookOf(r))
    BY <1>1
  <2> HIDE DEF net, netNow
  <2>2. Sum(netNow, Refs) = Sum(net, Refs) + (netNow[r] - net[r])
    BY <1>1, <2>1, SumChange
  <2>3. QED
    BY <2>1, <2>2
<1>5. Sum(overNow, Refs) = Sum(over, Refs) + cents
  <2>1. /\ \A q \in Refs : over[q] \in Nat
        /\ \A q \in Refs \ {r} : overNow[q] = over[q]
        /\ overNow[r] = over[r] + cents
    BY <1>1
  <2> HIDE DEF over, overNow
  <2>2. /\ overNow[r] \in Int /\ overNow[r] - over[r] = cents
        /\ \A q \in Refs : over[q] \in Int
    BY <2>1
  <2>3. Sum(overNow, Refs) = Sum(over, Refs) + (overNow[r] - over[r])
    BY <2>1, <2>2, SumChange
  <2>4. QED
    BY <2>2, <2>3
<1>6. /\ NetOf(Refs) = Sum(net, Refs) /\ NetOf(Refs) \in Int
      /\ OverageCents = Sum(over, Refs) /\ OverageCents \in Nat
  BY RoomIs
<1>7. PICK n, o \in Int : n = NetOf(Refs) /\ o = OverageCents
  BY <1>6
<1>8. PICK x, y \in Int : x = Net(b) /\ y = Net(BookOf(r))
  BY <1>1
<1>9. NetOf(Refs)' = n + (x - y) /\ OverageCents' = o + cents
  BY <1>2, <1>3, <1>4, <1>5, <1>6, <1>7, <1>8
<1>10. Room = BudgetCents + n + o /\ Room' = BudgetCents + (n + (x - y)) + (o + cents)
  BY <1>7, <1>9 DEF Room
<1>11. BudgetCents + (n + (x - y)) + (o + cents) = BudgetCents + n + o + (x - y) + cents
  OBVIOUS
<1>12. QED
  BY <1>8, <1>10, <1>11

\* Without a row there is as much room as before.
LEMMA RoomStays == UNCHANGED <<usage, settlement>> => UNCHANGED Room
<1> SUFFICES ASSUME UNCHANGED <<usage, settlement>> PROVE UNCHANGED Room
  OBVIOUS
<1>1. \A r \in Refs : BookOf(r)' = BookOf(r)
  BY DEF BookOf
<1>2. NetOf(Refs)' = NetOf(Refs)
  BY <1>1 DEF NetOf
<1>3. OverageCents' = OverageCents
  BY DEF OverageCents, OverRows
<1>4. QED
  BY <1>2, <1>3 DEF Room

Budgeted ==
  BudgetCents > 0 =>
    /\ Room >= 0
    /\ \A p \in Procs : proc[p].pc \in {"charge", "chargeWrite"} => proc[p].cents <= Room

\* A step that leaves no less room and lets nobody through keeps the budget.
LEMMA BudgetStays ==
  ASSUME Books, Budgeted, Room' \in Int, Room' >= Room,
         \A q \in Procs : proc'[q].pc \in {"charge", "chargeWrite"} =>
           proc[q].pc \in {"charge", "chargeWrite"} /\ proc'[q].cents = proc[q].cents
  PROVE  Budgeted'
<1>1. Room \in Int /\ \A q \in Procs : proc[q].cents \in Nat
  BY RoomIs, TransactionIs DEF Books
<1>2. QED
  BY <1>1 DEF Budgeted

\* Without a row there is no less room.
LEMMA QuietStep ==
  ASSUME Books, UNCHANGED <<usage, settlement>> PROVE Room' \in Int /\ Room' >= Room
<1>1. Room \in Int
  BY RoomIs DEF Books
<1>2. QED
  BY <1>1, RoomStays

\* A process that ends is not between the check of the budget and its charge.
LEMMA EndIsElsewhere ==
  ASSUME Books, NEW p \in Procs, End(p)
  PROVE  \A q \in Procs : proc'[q].pc \in {"charge", "chargeWrite"} =>
           q /= p /\ proc'[q] = proc[q]
BY DEF End, NoTransaction, Books, TypeOK

\* Nor is one that goes on elsewhere.
LEMMA GotoIsElsewhere ==
  ASSUME Inv, NEW p \in Procs, NEW pc, Goto(p, pc), pc \notin {"charge", "chargeWrite"}
  PROVE  \A q \in Procs : proc'[q].pc \in {"charge", "chargeWrite"} => proc'[q] = proc[q]
<1>1. proc'[p].pc = pc /\ \A q \in Procs \ {p} : proc'[q] = proc[q]
  BY GotoOthers DEF Inv
<1>2. QED
  BY <1>1

\* Every new transaction.
LEMMA CallKeepsBudget ==
  ASSUME Books, Budgeted, NEW p \in Procs, Call(p) PROVE Budgeted'
<1>1. UNCHANGED <<usage, settlement>>
  BY DEF Call, BeginDeposit, BeginRefund, BeginCharge, BeginSettle
<1>2. ASSUME NEW pc \in {"project", "refund", "settleCheck", "deposit"}, NEW r, NEW cents,
             NEW seen, NEW auth, Begin(p, pc, r, cents, seen, auth)
      PROVE  /\ proc'[p].pc \notin {"charge", "chargeWrite"}
             /\ \A q \in Procs \ {p} : proc'[q] = proc[q]
  BY <1>2 DEF Begin, Books, TypeOK
<1>3. /\ proc'[p].pc \notin {"charge", "chargeWrite"}
      /\ \A q \in Procs \ {p} : proc'[q] = proc[q]
  BY <1>2 DEF Call, BeginDeposit, BeginRefund, BeginCharge, BeginSettle
<1>4. \A q \in Procs : proc'[q].pc \in {"charge", "chargeWrite"} =>
        proc[q].pc \in {"charge", "chargeWrite"} /\ proc'[q].cents = proc[q].cents
  BY <1>3
<1>5. QED
  BY <1>1, <1>4, QuietStep, BudgetStays

\* Who is let through by the budget finds room.
LEMMA LockProjectKeepsBudget ==
  ASSUME Inv, Books, Budgeted, NEW p \in Procs, LockProject(p) PROVE Budgeted'
<1>1. UNCHANGED <<usage, settlement>>
  BY DEF LockProject
<1>2. Room' = Room /\ Room \in Int
  BY <1>1, RoomStays, RoomIs DEF Books
<1>3. PICK pc \in {"charge", "refused"} :
        Goto(p, pc) /\ (pc = "charge" => WithinBudget(proc[p].cents))
  BY DEF LockProject
<1>4. /\ proc'[p].pc = pc /\ proc'[p].cents = proc[p].cents
      /\ \A q \in Procs \ {p} : proc'[q] = proc[q]
  BY <1>3, GotoOthers DEF Inv, Goto, Shape
<1>5. ASSUME BudgetCents > 0, pc = "charge" PROVE proc[p].cents <= Room
  <2>1. Spent + proc[p].cents <= BudgetCents
    BY <1>3, <1>5 DEF WithinBudget
  <2>2. PICK n \in Int, o \in Nat, c \in Nat :
          n = NetOf(Refs) /\ o = OverageCents /\ c = proc[p].cents
    BY RoomIs, TransactionIs DEF Books
  <2>3. (IF n < 0 THEN -n ELSE 0) + c <= BudgetCents
    BY <2>1, <2>2 DEF Spent
  <2>4. c <= BudgetCents + n + o
    BY <2>3
  <2>5. QED
    BY <2>2, <2>4 DEF Room
<1>6. ASSUME BudgetCents > 0, NEW q \in Procs, proc'[q].pc \in {"charge", "chargeWrite"}
      PROVE  proc'[q].cents <= Room
  <2>1. CASE q = p
    BY <1>3, <1>4, <1>5, <1>6, <2>1
  <2>2. CASE q /= p
    BY <1>4, <1>6, <2>2 DEF Budgeted
  <2>3. QED
    BY <2>1, <2>2
<1>7. QED
  BY <1>2, <1>6 DEF Budgeted

\* Every lock.
LEMMA LockKeepsBudget ==
  ASSUME Inv, Books, Budgeted, NEW p \in Procs, Lock(p) PROVE Budgeted'
<1>1. CASE LockProject(p)
  BY <1>1, LockProjectKeepsBudget
<1>2. ASSUME NEW from, NEW to, LockWallet(p, from, to),
             to = "chargeWrite" => from = "charge", to /= "charge"
      PROVE  Budgeted'
  <2>1. UNCHANGED <<usage, settlement>>
    BY <1>2 DEF LockWallet
  <2>2. \A q \in Procs : proc'[q].pc \in {"charge", "chargeWrite"} =>
          proc[q].pc \in {"charge", "chargeWrite"} /\ proc'[q].cents = proc[q].cents
    <3>1. proc' = [proc EXCEPT ![p] = [proc[p] EXCEPT !.pc = to, !.bal = wallet]]
      BY <1>2 DEF LockWallet
    <3>2. proc'[p].pc = to /\ proc'[p].cents = proc[p].cents
          /\ \A q \in Procs \ {p} : proc'[q] = proc[q]
      BY <3>1 DEF Books, TypeOK
    <3>3. QED
      BY <1>2, <3>2 DEF LockWallet
  <2>3. QED
    BY <2>1, <2>2, QuietStep, BudgetStays
<1>3. QED
  BY <1>1, <1>2 DEF Lock

\* A charge uses up the room that was kept for it: the project row is locked,
\* so nobody else has been let through.
LEMMA ChargeKeepsBudget ==
  ASSUME Inv, Books, Budgeted, NEW p \in Procs, WriteCharge(p) PROVE Budgeted'
<1> DEFINE r == proc[p].ref
           cents == proc[p].cents
<1>1. /\ r \in Refs /\ cents \in Nat /\ TypeOK /\ ChargeTaken(r, cents) /\ Room \in Int
      /\ BookOf(r) \in Book
  BY TransactionIs, ChargeTakes, RoomIs, BookIs
<1>2. Room' = Room - cents
  <2> DEFINE b == [open |-> BookOf(r).open + cents, closed |-> BookOf(r).closed,
                   setl |-> BookOf(r).setl, over |-> BookOf(r).over]
  <2>1. PICK o, c, s \in Nat :
          o = BookOf(r).open /\ c = BookOf(r).closed /\ s = BookOf(r).setl
    BY <1>1 DEF Book
  <2>2. b \in Book /\ Net(b) = s - (o + cents) /\ Net(BookOf(r)) = s - o
    BY <1>1, <2>1 DEF Book, Net
  <2>3. Written(r, b, 0)
    BY <1>1 DEF ChargeTaken
  <2> HIDE DEF b, cents
  <2>4. Room' = Room + (Net(b) - Net(BookOf(r))) + 0
    BY <1>1, <2>2, <2>3, RoomMoves
  <2>5. QED
    BY <1>1, <2>1, <2>2, <2>4
<1>3. \A q \in Procs \ {p} : proc[q].pc \notin {"charge", "chargeWrite"}
  BY DEF WriteCharge, Inv, LocksHeld
<1>4. \A q \in Procs : proc'[q].pc \notin {"charge", "chargeWrite"}
  BY <1>3, EndIsElsewhere DEF WriteCharge
<1>5. BudgetCents > 0 => cents <= Room
  BY DEF WriteCharge, Budgeted
<1>6. QED
  BY <1>1, <1>2, <1>4, <1>5 DEF Budgeted

\* A refund gives room back.
LEMMA RefundKeepsBudget ==
  ASSUME Inv, Books, Budgeted, NEW p \in Procs, WriteRefund(p) PROVE Budgeted'
<1> DEFINE r == proc[p].ref
<1>1. PICK cents \in Nat : RefundGiven(r, cents)
  BY RefundGives
<1>2. r \in Refs /\ TypeOK /\ Room \in Int /\ BookOf(r) \in Book
  BY TransactionIs, RoomIs, BookIs
<1>3. Room' = Room + cents
  <2> DEFINE b == [open |-> BookOf(r).open - cents, closed |-> BookOf(r).closed + cents,
                   setl |-> BookOf(r).setl, over |-> BookOf(r).over]
  <2>1. PICK o, c, s \in Nat :
          o = BookOf(r).open /\ c = BookOf(r).closed /\ s = BookOf(r).setl
    BY <1>2 DEF Book
  <2>2. b \in Book /\ Net(b) = s - (o - cents) /\ Net(BookOf(r)) = s - o
    BY <1>1, <1>2, <2>1 DEF Book, Net, RefundGiven
  <2>3. Written(r, b, 0)
    BY <1>1 DEF RefundGiven
  <2> HIDE DEF b
  <2>4. Room' = Room + (Net(b) - Net(BookOf(r))) + 0
    BY <1>2, <2>2, <2>3, RoomMoves
  <2>5. QED
    BY <1>2, <2>1, <2>2, <2>4
<1>4. End(p)
  BY Zenon DEF WriteRefund
<1>5. QED
  BY <1>2, <1>3, <1>4, EndIsElsewhere, BudgetStays

\* A settlement gives room back, or takes an overage.
LEMMA SettlementKeepsBudget ==
  ASSUME Inv, Books, Budgeted, NEW p \in Procs, WriteSettlement(p) PROVE Budgeted'
<1> DEFINE r == proc[p].ref
<1>1. r \in Refs /\ TypeOK /\ Room \in Int /\ BookOf(r) \in Book
  BY TransactionIs, RoomIs, BookIs
<1>2. PICK o, c, s \in Nat :
        o = BookOf(r).open /\ c = BookOf(r).closed /\ s = BookOf(r).setl
  BY <1>1 DEF Book
<1>3. ASSUME NEW cents \in Nat, SurplusGiven(r, cents) PROVE Room' = Room + cents
  <2> DEFINE b == [BookOf(r) EXCEPT !.setl = cents]
  <2>1. b \in Book /\ Net(b) = cents - o /\ Net(BookOf(r)) = 0 - o
    BY <1>1, <1>2, <1>3 DEF Book, Net, SurplusGiven
  <2>2. Written(r, b, 0)
    BY <1>3 DEF SurplusGiven
  <2> HIDE DEF b
  <2>3. Room' = Room + (Net(b) - Net(BookOf(r))) + 0
    BY <1>1, <2>1, <2>2, RoomMoves
  <2>4. QED
    BY <1>1, <1>2, <2>1, <2>3
<1>4. ASSUME NEW cents \in Nat, OverageTaken(r, cents) PROVE Room' = Room
  <2> DEFINE b == [open |-> BookOf(r).open + cents, closed |-> BookOf(r).closed,
                   setl |-> BookOf(r).setl, over |-> TRUE]
  <2>1. b \in Book /\ Net(b) = s - (o + cents) /\ Net(BookOf(r)) = s - o
    BY <1>1, <1>2 DEF Book, Net
  <2>2. Written(r, b, cents)
    BY <1>4 DEF OverageTaken
  <2> HIDE DEF b
  <2>3. Room' = Room + (Net(b) - Net(BookOf(r))) + cents
    BY <1>1, <2>1, <2>2, RoomMoves
  <2>4. QED
    BY <1>1, <1>2, <2>1, <2>3
<1>5. Room' \in Int /\ Room' >= Room
  BY <1>1, <1>3, <1>4, SettlementMoves
<1>6. End(p)
  BY Zenon DEF WriteSettlement
<1>7. QED
  BY <1>5, <1>6, EndIsElsewhere, BudgetStays

\* Every read, refusal and write.
LEMMA WriteKeepsBudget ==
  ASSUME Inv, Books, Budgeted, NEW p \in Procs, Write(p) PROVE Budgeted'
<1>1. ASSUME End(p), UNCHANGED <<usage, settlement>> PROVE Budgeted'
  BY <1>1, EndIsElsewhere, QuietStep, BudgetStays
<1>2. ASSUME NEW pc, Goto(p, pc), pc \notin {"charge", "chargeWrite"},
             UNCHANGED <<usage, settlement>>
      PROVE  Budgeted'
  BY <1>2, GotoIsElsewhere, QuietStep, BudgetStays
<1>3. CASE CheckSettled(p)
  BY <1>1, <1>2, <1>3 DEF CheckSettled
<1>4. CASE Insufficient(p)
  BY <1>2, <1>4 DEF Insufficient
<1>5. CASE Refused(p)
  BY <1>1, <1>2, <1>5 DEF Refused
<1>6. CASE WriteDeposit(p) \/ DuplicateSettlement(p)
  BY <1>1, <1>6 DEF WriteDeposit, DuplicateSettlement
<1>7. QED
  BY <1>3, <1>4, <1>5, <1>6, ChargeKeepsBudget, RefundKeepsBudget, SettlementKeepsBudget
     DEF Write

\* Nothing has been spent.
LEMMA InitBudget == Init => Budgeted
<1> SUFFICES ASSUME Init PROVE Budgeted
  OBVIOUS
<1> DEFINE net == [r \in Refs |-> Net(BookOf(r))]
<1>1. Books
  BY InitBooks
<1>2. ASSUME NEW r \in Refs PROVE Net(BookOf(r)) = 0
  BY InitBook DEF NoCharges, Net
<1>3. NetOf(Refs) \in Nat
  <2>1. \A r \in Refs : net[r] \in Nat
    BY <1>2
  <2>2. Sum(net, Refs) \in Nat
    <3> HIDE DEF net
    <3>1. QED
      BY <2>1, SumNat
  <2>3. QED
    BY <1>1, <2>2, RoomIs DEF Books
<1>4. OverageCents \in Nat
  BY <1>1, RoomIs DEF Books
<1>5. Room >= 0
  BY <1>3, <1>4 DEF Room
<1>6. \A p \in Procs : proc[p].pc = "idle"
  BY DEF Init, NoTransaction
<1>7. QED
  BY <1>5, <1>6 DEF Budgeted

\* Every step keeps the budget.
LEMMA NextKeepsBudget == Inv /\ Books /\ Budgeted /\ [Next]_vars => Budgeted'
<1> SUFFICES ASSUME Inv, Books, Budgeted, [Next]_vars PROVE Budgeted'
  OBVIOUS
<1>1. ASSUME NEW p \in Procs, Call(p) PROVE Budgeted'
  BY <1>1, CallKeepsBudget
<1>2. ASSUME NEW p \in Procs, Lock(p) PROVE Budgeted'
  BY <1>2, LockKeepsBudget
<1>3. ASSUME NEW p \in Procs, Write(p) PROVE Budgeted'
  BY <1>3, WriteKeepsBudget
<1>4. ASSUME NEW p \in Procs, Close(p) \/ Abort(p) PROVE Budgeted'
  <2>1. End(p) /\ UNCHANGED <<usage, settlement>>
    BY <1>4 DEF Close, Abort
  <2>2. QED
    BY <2>1, EndIsElsewhere, QuietStep, BudgetStays
<1>5. CASE UNCHANGED vars
  <2>1. UNCHANGED <<usage, settlement, proc>>
    BY <1>5 DEF vars
  <2>2. QED
    BY <2>1, QuietStep, BudgetStays
<1>6. QED
  BY <1>1, <1>2, <1>3, <1>4, <1>5 DEF Next

\* The project pays more than its budget by overages only, for any number of
\* processes and references: between the check and the charge the project row
\* is locked (enforce_project_budget), and what else moves the sums meanwhile,
\* refunds and settlements, takes nothing but overages.
THEOREM BudgetIsRespected == Spec => []BudgetRespected
<1>1. Init => Inv /\ Books /\ Budgeted
  BY InitInv, InitBooks, InitBudget
<1>2. Inv /\ Books /\ Budgeted /\ [Next]_vars => (Inv /\ Books /\ Budgeted)'
  BY NextKeepsInv, NextKeepsBooks, NextKeepsBudget
<1>3. Books /\ Budgeted => BudgetRespected
  <2> SUFFICES ASSUME Books, Budgeted, BudgetCents > 0
               PROVE  -NetOf(Refs) <= BudgetCents + OverageCents
    BY DEF BudgetRespected
  <2>1. PICK n, o \in Int : n = NetOf(Refs) /\ o = OverageCents
    BY RoomIs DEF Books
  <2>2. BudgetCents + n + o >= 0
    BY <2>1 DEF Budgeted, Room
  <2>3. -n <= BudgetCents + o
    BY <2>2
  <2>4. QED
    BY <2>1, <2>3
<1>4. QED
  BY <1>1, <1>2, <1>3, PTL DEF Spec
=============================================================================
