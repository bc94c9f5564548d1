----------------------------- MODULE DataLemmas -----------------------------
(***************************************************************************)
(* Lemmas on the data of the models: selections of a sequence and sums     *)
(* over a finite set.  Both are recursive, so each lemma looks at its      *)
(* smallest counterexample.                                                *)
(***************************************************************************)
EXTENDS Selection, FiniteSets, Functions, FiniteSetTheorems, WellFoundedInduction, TLAPS

Less == {p \in Nat \X Nat : p[1] < p[2]}

LEMMA LessWellFounded == IsWellFoundedOn(Less, Nat)
<1>1. Less = OpToRel(<, Nat)
  BY DEF Less, OpToRel
<1> QED
  BY <1>1, NatLessThanWellFounded, Zenon

\* A set of naturals that is not empty has a least element.
LEMMA LeastExists ==
    ASSUME NEW S \in SUBSET Nat, S # {}
    PROVE  \E i \in S : \A j \in S : i <= j
<1>1. PICK x \in S : \A y \in S : ~ (<<y, x>> \in Less)
  BY LessWellFounded, WFMin, Zenon
<1>2. ASSUME NEW y \in S PROVE x <= y
  <2>1. <<y, x>> \notin Less
    BY <1>1
  <2>2. <<y, x>> \in Nat \X Nat
    OBVIOUS
  <2> QED
    BY <2>1, <2>2 DEF Less
<1> QED
  BY <1>2

-----------------------------------------------------------------------------
(* Selections *)

\* One more place of a selection.
Extended(s, S, n, before) ==
    IF n = 0 THEN <<>> ELSE IF s[n] \in S THEN Append(before, s[n]) ELSE before

\* f has the selections of the first places of s, up to n.
Selections(s, S, f, n) == f = [i \in 0 .. n |-> Extended(s, S, i, f[i - 1])]

\* They depend on those places only.
LEMMA SelectionsAgree ==
    ASSUME NEW S, NEW s, NEW f, NEW n \in Nat, Selections(s, S, f, n),
           NEW t, NEW g, NEW k \in Nat, Selections(t, S, g, k),
           NEW i \in Nat, i <= n, i <= k, \A j \in 1 .. i : s[j] = t[j]
    PROVE  f[i] = g[i]
<1> DEFINE bad == {m \in 0 .. i : f[m] # g[m]}
<1>1. SUFFICES ASSUME bad # {} PROVE FALSE
  OBVIOUS
<1>2. PICK m \in bad : \A l \in bad : ~ (<<l, m>> \in Less)
  <2>1. bad \subseteq Nat
    OBVIOUS
  <2> HIDE DEF bad
  <2> QED
    BY <1>1, <2>1, LessWellFounded, WFMin, Zenon
<1>3. m \in 0 .. n /\ m \in 0 .. k /\ m \in 0 .. i /\ f[m] # g[m]
  OBVIOUS
<1>4. f[m] = Extended(s, S, m, f[m - 1]) /\ g[m] = Extended(t, S, m, g[m - 1])
  BY <1>3 DEF Selections
<1>5. m # 0
  BY <1>3, <1>4 DEF Extended
<1>6. m - 1 \in 0 .. i /\ <<m - 1, m>> \in Less /\ s[m] = t[m]
  BY <1>3, <1>5 DEF Less
<1>7. f[m - 1] = g[m - 1]
  BY <1>2, <1>6
<1> QED
  BY <1>3, <1>4, <1>5, <1>6, <1>7 DEF Extended

\* They exist.
LEMMA SelectionsExist ==
    ASSUME NEW s, NEW S, NEW n \in Nat
    PROVE  \E f : Selections(s, S, f, n)
<1> DEFINE bad == {m \in Nat : ~ \E f : Selections(s, S, f, m)}
<1>1. SUFFICES ASSUME bad # {} PROVE FALSE
  OBVIOUS
<1>2. PICK m \in bad : \A k \in bad : ~ (<<k, m>> \in Less)
  <2>1. bad \subseteq Nat
    OBVIOUS
  <2> HIDE DEF bad
  <2> QED
    BY <1>1, <2>1, LessWellFounded, WFMin, Zenon
<1>3. m \in Nat /\ ~ \E f : Selections(s, S, f, m)
  OBVIOUS
<1>4. m # 0
  <2>1. Selections(s, S, [i \in 0 .. 0 |-> <<>>], 0)
    BY DEF Selections, Extended
  <2> QED
    BY <1>3, <2>1
<1>5. m - 1 \in Nat /\ <<m - 1, m>> \in Less
  BY <1>3, <1>4 DEF Less
<1>6. PICK f : Selections(s, S, f, m - 1)
  BY <1>2, <1>5
<1> DEFINE g == [i \in 0 .. m |-> IF i = m THEN Extended(s, S, m, f[m - 1]) ELSE f[i]]
<1>7. ASSUME NEW i \in 0 .. m PROVE g[i] = Extended(s, S, i, g[i - 1])
  <2>1. CASE i = m
    <3>1. m - 1 \in 0 .. m /\ m - 1 # m
      BY <1>5
    <3> QED
      BY <2>1, <3>1
  <2>2. CASE i # m
    <3>1. i \in 0 .. m - 1 /\ g[i] = f[i]
      BY <1>3, <2>2
    <3>2. f[i] = Extended(s, S, i, f[i - 1])
      BY <1>6, <3>1 DEF Selections
    <3>3. CASE i = 0
      BY <3>1, <3>2, <3>3 DEF Extended
    <3>4. CASE i # 0
      <4>1. i - 1 \in 0 .. m /\ i - 1 # m
        BY <1>3, <3>4
      <4>2. g[i - 1] = f[i - 1]
        BY <4>1
      <4> HIDE DEF g
      <4> QED
        BY <3>1, <3>2, <4>2
    <3> QED
      BY <3>3, <3>4
  <2> QED
    BY <2>1, <2>2
<1>8. Selections(s, S, g, m)
  <2>1. g = [i \in 0 .. m |-> g[i]]
    OBVIOUS
  <2> HIDE DEF g
  <2> QED
    BY <1>7, <2>1 DEF Selections
<1> QED
  BY <1>3, <1>8

\* What a selection is the last of.
LEMMA SelectedForm ==
    ASSUME NEW T, NEW s \in Seq(T), NEW S
    PROVE  \E f : Selections(s, S, f, Len(s)) /\ Selected(s, S) = f[Len(s)]
<1>0. Len(s) \in Nat
  OBVIOUS
<1>1. PICK g : Selections(s, S, g, Len(s))
  BY <1>0, SelectionsExist
<1> QED
  BY <1>1 DEF Selections, Extended, Selected

\* A row at the end of the table is selected last, if at all.
LEMMA SelectedAppend ==
    ASSUME NEW T, NEW s \in Seq(T), NEW x \in T, NEW S
    PROVE  Selected(Append(s, x), S) =
              IF x \in S THEN Append(Selected(s, S), x) ELSE Selected(s, S)
<1> DEFINE t == Append(s, x)
           n == Len(s)
<1>1. /\ t \in Seq(T) /\ Len(t) = n + 1 /\ n \in Nat /\ t[n + 1] = x
      /\ \A j \in 1 .. n : s[j] = t[j]
  OBVIOUS
<1>2. PICK f : Selections(s, S, f, n) /\ Selected(s, S) = f[n]
  BY SelectedForm
<1>3. PICK g : Selections(t, S, g, n + 1) /\ Selected(t, S) = g[n + 1]
  BY <1>1, SelectedForm
<1> HIDE DEF t, n
<1>4. f[n] = g[n]
  BY <1>1, <1>2, <1>3, SelectionsAgree
<1>5. g[n + 1] = Extended(t, S, n + 1, g[n + 1 - 1])
  BY <1>1, <1>3 DEF Selections
<1>6. n + 1 # 0 /\ n + 1 - 1 = n
  BY <1>1
<1> QED
  BY <1>1, <1>2, <1>3, <1>4, <1>5, <1>6 DEF Extended, t

LEMMA SelectedEmpty == \A S : Selected(<<>>, S) = <<>>
<1> TAKE S
<1>1. <<>> \in Seq({}) /\ Len(<<>>) = 0
  OBVIOUS
<1>2. PICK f : Selections(<<>>, S, f, 0) /\ Selected(<<>>, S) = f[0]
  BY <1>1, SelectedForm
<1> QED
  BY <1>2 DEF Selections, Extended

\* What is selected is of the table.
LEMMA SelectedMembers ==
    ASSUME NEW T, NEW s \in Seq(T), NEW S
    PROVE  /\ Selected(s, S) \in Seq(T)
           /\ \A i \in DOMAIN Selected(s, S) : \E j \in DOMAIN s : Selected(s, S)[i] = s[j]
<1> DEFINE rows == {s[j] : j \in DOMAIN s}
<1>1. PICK f : Selections(s, S, f, Len(s)) /\ Selected(s, S) = f[Len(s)]
  BY SelectedForm
<1> DEFINE bad == {m \in 0 .. Len(s) : f[m] \notin Seq(rows)}
<1>2. bad = {}
  <2> SUFFICES ASSUME bad # {} PROVE FALSE
    OBVIOUS
  <2>1. PICK m \in bad : \A k \in bad : ~ (<<k, m>> \in Less)
    <3>1. bad \subseteq Nat
      OBVIOUS
    <3> HIDE DEF bad
    <3> QED
      BY <3>1, LessWellFounded, WFMin, Zenon
  <2>2. m \in 0 .. Len(s) /\ f[m] \notin Seq(rows)
    OBVIOUS
  <2>3. f[m] = Extended(s, S, m, f[m - 1])
    BY <1>1, <2>2 DEF Selections
  <2>4. m # 0
    <3>1. <<>> \in Seq(rows)
      OBVIOUS
    <3> QED
      BY <2>2, <2>3, <3>1 DEF Extended
  <2>5. m - 1 \in 0 .. Len(s) /\ m \in DOMAIN s /\ <<m - 1, m>> \in Less
    BY <2>2, <2>4 DEF Less
  <2>6. f[m - 1] \in Seq(rows)
    BY <2>1, <2>5
  <2>7. s[m] \in rows
    BY <2>5
  <2> HIDE DEF rows
  <2>8. Append(f[m - 1], s[m]) \in Seq(rows)
    BY <2>6, <2>7
  <2> QED
    BY <2>2, <2>3, <2>4, <2>6, <2>8 DEF Extended
<1>3. Selected(s, S) \in Seq(rows)
  BY <1>1, <1>2
<1>4. rows \subseteq T
  OBVIOUS
<1>5. \A r \in rows : \E j \in DOMAIN s : r = s[j]
  OBVIOUS
<1> HIDE DEF rows
<1> QED
  BY <1>3, <1>4, <1>5

LEMMA ConcatAppend ==
    ASSUME NEW T, NEW s \in Seq(T), NEW t \in Seq(T), NEW x \in T
    PROVE  s \o Append(t, x) = Append(s \o t, x) /\ s \o t \in Seq(T)
  OBVIOUS

\* Rows that are all selected are added as they come.
LEMMA SelectedConcat ==
    ASSUME NEW T, NEW s \in Seq(T), NEW S, NEW t \in Seq(T), \A i \in DOMAIN t : t[i] \in S
    PROVE  Selected(s \o t, S) = Selected(s, S) \o t
<1> DEFINE Until(n) == SubSeq(t, 1, n)
           Good(n) == Selected(s \o Until(n), S) = Selected(s, S) \o Until(n)
           bad == {n \in 0 .. Len(t) : ~ Good(n)}
<1>0. Selected(s, S) \in Seq(T)
  BY SelectedMembers
<1>1. bad = {}
  <2> SUFFICES ASSUME bad # {} PROVE FALSE
    OBVIOUS
  <2>1. PICK n \in bad : \A k \in bad : ~ (<<k, n>> \in Less)
    <3>1. bad \subseteq Nat
      OBVIOUS
    <3> HIDE DEF bad
    <3> QED
      BY <3>1, LessWellFounded, WFMin, Zenon
  <2>2. n \in 0 .. Len(t) /\ ~ Good(n)
    OBVIOUS
  <2>3. CASE n = 0
    <3>1. Until(n) = <<>>
      BY <2>3
    <3>2. s \o <<>> = s /\ Selected(s, S) \o <<>> = Selected(s, S)
      BY <1>0
    <3> QED
      BY <2>2, <3>1, <3>2
  <2>4. CASE n # 0
    <3>1. n - 1 \in 0 .. Len(t) /\ <<n - 1, n>> \in Less /\ n \in DOMAIN t
      BY <2>2, <2>4 DEF Less
    <3>2. Good(n - 1)
      BY <2>1, <3>1
    <3>3. /\ Until(n - 1) \in Seq(T) /\ t[n] \in T /\ t[n] \in S
          /\ Until(n) = Append(Until(n - 1), t[n])
      BY <2>2, <2>4, <3>1
    <3> DEFINE u == Until(n - 1)
               x == t[n]
    <3>4. u \in Seq(T) /\ x \in T /\ x \in S /\ Until(n) = Append(u, x)
      BY <3>3
    <3>5. Selected(s \o u, S) = Selected(s, S) \o u
      BY <3>2
    <3> HIDE DEF u, x, Until
    <3>6. s \o Until(n) = Append(s \o u, x) /\ s \o u \in Seq(T)
      BY <3>4, ConcatAppend
    <3>7. Selected(s \o Until(n), S) = Append(Selected(s \o u, S), x)
      BY <3>4, <3>6, SelectedAppend
    <3>8. Append(Selected(s, S) \o u, x) = Selected(s, S) \o Until(n)
      <4>1. Selected(s, S) \o Append(u, x) = Append(Selected(s, S) \o u, x)
        BY <1>0, <3>4, ConcatAppend
      <4> QED
        BY <3>4, <4>1
    <3> QED
      BY <2>2, <3>5, <3>7, <3>8
  <2> QED
    BY <2>3, <2>4
<1>2. Good(Len(t)) /\ Until(Len(t)) = t
  <2>1. Len(t) \in 0 .. Len(t) /\ Until(Len(t)) = t
    OBVIOUS
  <2> HIDE DEF Good
  <2> QED
    BY <1>1, <2>1
<1> HIDE DEF Until
<1> QED
  BY <1>2

-----------------------------------------------------------------------------
(* Sums over finite sets *)

Pick(S) == CHOOSE x \in S : TRUE

\* f has the sum of c over each set of subsets, as the fold computes it.
Sums(c, S, f) ==
    f = [T \in SUBSET S |-> IF T = {} THEN 0 ELSE c[Pick(T)] + f[T \ {Pick(T)}]]

LEMMA PickRemoved ==
    ASSUME NEW S, IsFiniteSet(S), S # {}
    PROVE  /\ Pick(S) \in S
           /\ IsFiniteSet(S \ {Pick(S)})
           /\ Cardinality(S) \in Nat /\ Cardinality(S \ {Pick(S)}) \in Nat
           /\ Cardinality(S \ {Pick(S)}) < Cardinality(S)
<1>1. Pick(S) \in S
  BY DEF Pick
<1>2. /\ IsFiniteSet(S \ {Pick(S)})
      /\ Cardinality(S \ {Pick(S)}) = Cardinality(S) - 1
  BY <1>1, FS_RemoveElement
<1>3. Cardinality(S) \in Nat /\ Cardinality(S \ {Pick(S)}) \in Nat
  BY <1>2, FS_CardinalityType
<1> QED
  BY <1>1, <1>2, <1>3

\* Two such functions agree where both are defined.
LEMMA SumsAgree ==
    ASSUME NEW c, NEW S, NEW f, Sums(c, S, f), NEW T, NEW g, Sums(c, T, g),
           NEW U, U \subseteq S, U \subseteq T, IsFiniteSet(U)
    PROVE  f[U] = g[U]
<1> DEFINE bad == {n \in Nat : \E V \in SUBSET U : Cardinality(V) = n /\ f[V] # g[V]}
<1>1. \A V \in SUBSET U : IsFiniteSet(V) /\ Cardinality(V) \in Nat
  BY FS_Subset, FS_CardinalityType
<1>2. SUFFICES ASSUME bad # {} PROVE FALSE
  BY <1>1
<1>3. PICK m \in bad : \A k \in bad : ~ (<<k, m>> \in Less)
  <2>1. bad \subseteq Nat
    OBVIOUS
  <2> HIDE DEF bad
  <2> QED
    BY <1>2, <2>1, LessWellFounded, WFMin, Zenon
<1>4. PICK V \in SUBSET U : Cardinality(V) = m /\ f[V] # g[V]
  OBVIOUS
<1> DEFINE W == V \ {Pick(V)}
<1>5. V \in SUBSET S /\ V \in SUBSET T
  OBVIOUS
<1>6. V # {}
  BY <1>4, <1>5 DEF Sums
<1>7. f[V] = c[Pick(V)] + f[W] /\ g[V] = c[Pick(V)] + g[W]
  BY <1>5, <1>6 DEF Sums
<1>8. f[W] # g[W]
  BY <1>4, <1>7
<1>9. /\ W \in SUBSET U
      /\ Cardinality(W) \in Nat /\ m \in Nat /\ Cardinality(W) < m
  BY <1>1, <1>4, <1>6, PickRemoved
<1>10. Cardinality(W) \in bad /\ <<Cardinality(W), m>> \in Less
  BY <1>8, <1>9 DEF Less
<1> QED
  BY <1>3, <1>10

\* Such a function exists over every finite set.
LEMMA SumsExist ==
    ASSUME NEW c, NEW S, IsFiniteSet(S)
    PROVE  \E f : Sums(c, S, f)
<1> DEFINE bad == {n \in Nat : \E V \in SUBSET S : Cardinality(V) = n /\ ~ \E f : Sums(c, V, f)}
<1>1. \A V \in SUBSET S : IsFiniteSet(V) /\ Cardinality(V) \in Nat
  BY FS_Subset, FS_CardinalityType
<1>2. SUFFICES ASSUME bad # {} PROVE FALSE
  BY <1>1
<1>3. PICK m \in bad : \A k \in bad : ~ (<<k, m>> \in Less)
  <2>1. bad \subseteq Nat
    OBVIOUS
  <2> HIDE DEF bad
  <2> QED
    BY <1>2, <2>1, LessWellFounded, WFMin, Zenon
<1>4. PICK V \in SUBSET S : Cardinality(V) = m /\ ~ \E f : Sums(c, V, f)
  OBVIOUS
<1> DEFINE Of(T) == CHOOSE f : Sums(c, T, f)
           g == [T \in SUBSET V |->
                    IF T = {} THEN 0 ELSE c[Pick(T)] + Of(T \ {Pick(T)})[T \ {Pick(T)}]]
<1>5. ASSUME NEW T \in SUBSET V, T # V PROVE Sums(c, T, Of(T))
  <2>1. Cardinality(T) \in Nat /\ Cardinality(T) < m /\ m \in Nat
    BY <1>1, <1>4, <1>5, FS_Subset, FS_CardinalityType
  <2>2. <<Cardinality(T), m>> \in Less
    BY <2>1 DEF Less
  <2>3. Cardinality(T) \notin bad
    BY <1>3, <2>2
  <2>4. \E f : Sums(c, T, f)
    BY <2>1, <2>3
  <2> QED
    BY <2>4
<1> HIDE DEF Of
<1>6. ASSUME NEW T \in SUBSET V, T # V PROVE g[T] = Of(T)[T]
  <2>1. CASE T = {}
    BY <1>5, <1>6, <2>1 DEF Sums
  <2>2. CASE T # {}
    <3> DEFINE W == T \ {Pick(T)}
    <3>1. IsFiniteSet(T) /\ W \in SUBSET T /\ W \in SUBSET V /\ W # V /\ IsFiniteSet(W)
      BY <1>1, <1>6, <2>2, PickRemoved
    <3>2. Sums(c, T, Of(T)) /\ Sums(c, W, Of(W))
      BY <1>5, <1>6, <3>1
    <3>3. Of(T)[W] = Of(W)[W]
      BY <3>1, <3>2, SumsAgree
    <3>4. Of(T)[T] = c[Pick(T)] + Of(T)[W]
      BY <2>2, <3>2 DEF Sums
    <3> QED
      BY <2>2, <3>3, <3>4
  <2> QED
    BY <2>1, <2>2
<1>7. ASSUME NEW T \in SUBSET V
      PROVE  g[T] = IF T = {} THEN 0 ELSE c[Pick(T)] + g[T \ {Pick(T)}]
  <2>1. CASE T = {}
    BY <2>1
  <2>2. CASE T # {}
    <3>1. IsFiniteSet(T) /\ T \ {Pick(T)} \in SUBSET V /\ T \ {Pick(T)} # V
      BY <1>1, <2>2, PickRemoved
    <3>2. g[T \ {Pick(T)}] = Of(T \ {Pick(T)})[T \ {Pick(T)}]
      BY <1>6, <3>1
    <3> QED
      BY <2>2, <3>2
  <2> QED
    BY <2>1, <2>2
<1>8. Sums(c, V, g)
  <2>1. g = [T \in SUBSET V |-> g[T]]
    OBVIOUS
  <2> HIDE DEF g
  <2> QED
    BY <1>7, <2>1 DEF Sums
<1> QED
  BY <1>4, <1>8

\* The sum over a set is that of the member the fold takes and of the others.
LEMMA SumUnfolds ==
    ASSUME NEW c, NEW S, IsFiniteSet(S)
    PROVE  SumFunctionOnSet(c, S) =
              IF S = {} THEN 0 ELSE c[Pick(S)] + SumFunctionOnSet(c, S \ {Pick(S)})
<1>1. ASSUME NEW T, IsFiniteSet(T)
      PROVE  \E f : Sums(c, T, f) /\ SumFunctionOnSet(c, T) = f[T]
  <2>1. PICK g : Sums(c, T, g)
    BY <1>1, SumsExist
  <2> QED
    BY <2>1 DEF Sums, Pick, SumFunctionOnSet, FoldFunctionOnSet, MapThenFoldSet
<1>2. PICK f : Sums(c, S, f) /\ SumFunctionOnSet(c, S) = f[S]
  BY <1>1
<1>3. CASE S = {}
  BY <1>2, <1>3 DEF Sums
<1>4. CASE S # {}
  <2> DEFINE W == S \ {Pick(S)}
  <2>1. IsFiniteSet(W) /\ W \subseteq S
    BY <1>4, PickRemoved
  <2>2. PICK g : Sums(c, W, g) /\ SumFunctionOnSet(c, W) = g[W]
    BY <1>1, <2>1
  <2>3. f[W] = g[W]
    BY <1>2, <2>1, <2>2, SumsAgree
  <2>4. f[S] = c[Pick(S)] + f[W]
    BY <1>2, <1>4 DEF Sums
  <2> QED
    BY <1>2, <1>4, <2>2, <2>3, <2>4
<1> QED
  BY <1>3, <1>4

\* Which member goes first does not matter.
LEMMA SumRemoves ==
    ASSUME NEW S, IsFiniteSet(S), NEW c, \A x \in S : c[x] \in Nat
    PROVE  /\ SumFunctionOnSet(c, S) \in Nat
           /\ \A a \in S : SumFunctionOnSet(c, S) = c[a] + SumFunctionOnSet(c, S \ {a})
<1> DEFINE Sum(T) == SumFunctionOnSet(c, T)
           Good(T) == Sum(T) \in Nat /\ \A a \in T : Sum(T) = c[a] + Sum(T \ {a})
           bad == {n \in Nat : \E V \in SUBSET S : Cardinality(V) = n /\ ~ Good(V)}
<1>1. \A V \in SUBSET S : IsFiniteSet(V) /\ Cardinality(V) \in Nat
  BY FS_Subset, FS_CardinalityType
<1>2. SUFFICES ASSUME bad # {} PROVE FALSE
  BY <1>1
<1>3. PICK m \in bad : \A k \in bad : ~ (<<k, m>> \in Less)
  <2>1. bad \subseteq Nat
    OBVIOUS
  <2> HIDE DEF bad
  <2> QED
    BY <1>2, <2>1, LessWellFounded, WFMin, Zenon
<1>4. PICK V \in SUBSET S : Cardinality(V) = m /\ ~ Good(V)
  OBVIOUS
<1>5. ASSUME NEW T \in SUBSET V, T # V PROVE Good(T)
  <2>1. Cardinality(T) \in Nat /\ Cardinality(T) < m /\ m \in Nat
    BY <1>1, <1>4, <1>5, FS_Subset, FS_CardinalityType
  <2>2. <<Cardinality(T), m>> \in Less
    BY <2>1 DEF Less
  <2>3. Cardinality(T) \notin bad
    BY <1>3, <2>2
  <2> HIDE DEF Good
  <2> QED
    BY <2>1, <2>3
<1>6. \A T \in SUBSET S : Sum(T) = IF T = {} THEN 0 ELSE c[Pick(T)] + Sum(T \ {Pick(T)})
  BY <1>1, SumUnfolds
<1> HIDE DEF Sum
<1>7. V # {}
  BY <1>4, <1>6
<1> DEFINE x == Pick(V)
<1>8. x \in V /\ c[x] \in Nat /\ Sum(V) = c[x] + Sum(V \ {x})
  BY <1>1, <1>6, <1>7, PickRemoved
<1> HIDE DEF x
<1>9. Good(V \ {x})
  BY <1>5, <1>8
<1>10. Sum(V) \in Nat
  BY <1>8, <1>9
<1>11. ASSUME NEW a \in V PROVE Sum(V) = c[a] + Sum(V \ {a})
  <2>1. CASE a = x
    BY <1>8, <2>1
  <2>2. CASE a # x
    <3>1. Good(V \ {a})
      BY <1>5
    <3>2. /\ Sum(V \ {a}) = c[x] + Sum((V \ {a}) \ {x})
          /\ Sum(V \ {x}) = c[a] + Sum((V \ {x}) \ {a})
      BY <1>8, <1>9, <2>2, <3>1
    <3>3. (V \ {a}) \ {x} = (V \ {x}) \ {a}
      OBVIOUS
    <3>4. Good((V \ {x}) \ {a})
      BY <1>5, <1>8
    <3>5. c[a] \in Nat /\ Sum((V \ {x}) \ {a}) \in Nat
      BY <3>4
    <3>6. Sum(V) = c[x] + (c[a] + Sum((V \ {x}) \ {a}))
      BY <1>8, <3>2
    <3>7. Sum(V \ {a}) = c[x] + Sum((V \ {x}) \ {a})
      BY <3>2, <3>3
    <3> HIDE DEF Good
    <3> QED
      BY <1>8, <3>5, <3>6, <3>7
  <2> QED
    BY <2>1, <2>2
<1> QED
  BY <1>4, <1>10, <1>11

\* A sum depends on its terms only.
LEMMA SumSame ==
    ASSUME NEW S, IsFiniteSet(S), NEW c, NEW d, \A x \in S : c[x] = d[x]
    PROVE  SumFunctionOnSet(c, S) = SumFunctionOnSet(d, S)
<1> DEFINE bad == {n \in Nat : \E V \in SUBSET S :
                      Cardinality(V) = n /\ SumFunctionOnSet(c, V) # SumFunctionOnSet(d, V)}
<1>1. \A V \in SUBSET S : IsFiniteSet(V) /\ Cardinality(V) \in Nat
  BY FS_Subset, FS_CardinalityType
<1>2. SUFFICES ASSUME bad # {} PROVE FALSE
  BY <1>1
<1>3. PICK m \in bad : \A k \in bad : ~ (<<k, m>> \in Less)
  <2>1. bad \subseteq Nat
    OBVIOUS
  <2> HIDE DEF bad
  <2> QED
    BY <1>2, <2>1, LessWellFounded, WFMin, Zenon
<1>4. PICK V \in SUBSET S :
         Cardinality(V) = m /\ SumFunctionOnSet(c, V) # SumFunctionOnSet(d, V)
  OBVIOUS
<1> DEFINE W == V \ {Pick(V)}
<1>5. /\ SumFunctionOnSet(c, V) = IF V = {} THEN 0 ELSE c[Pick(V)] + SumFunctionOnSet(c, W)
      /\ SumFunctionOnSet(d, V) = IF V = {} THEN 0 ELSE d[Pick(V)] + SumFunctionOnSet(d, W)
  BY <1>1, SumUnfolds
<1>6. V # {}
  BY <1>4, <1>5
<1>7. /\ Pick(V) \in S /\ W \in SUBSET S
      /\ Cardinality(W) \in Nat /\ m \in Nat /\ Cardinality(W) < m
  BY <1>1, <1>4, <1>6, PickRemoved
<1>8. SumFunctionOnSet(c, W) # SumFunctionOnSet(d, W)
  BY <1>4, <1>5, <1>6, <1>7
<1>9. Cardinality(W) \in bad /\ <<Cardinality(W), m>> \in Less
  BY <1>7, <1>8 DEF Less
<1> QED
  BY <1>3, <1>9

=============================================================================
