--------------------------- MODULE Answers_proofs ---------------------------
(* What a query says of its figures, for any groups, amounts and row       *)
(* limits, what a governed statement answers and what a calculation makes  *)
(* of two answers, for any tables, metrics and questions.                  *)
EXTENDS Calculations, Decomposition, FiniteSetTheorems, WellFoundedInduction, TLAPS

-----------------------------------------------------------------------------
(* Sums over a finite set.  A fold takes its elements in the order of      *)
(* CHOOSE; a sum of integers does not depend on it.                        *)
LEMMA LeastOf ==
  ASSUME NEW S \in SUBSET Nat, S # {}
  PROVE  \E x \in S : \A y \in S : x <= y
<1> DEFINE R == {ss \in Nat \X Nat : ss[1] < ss[2]}
<1>1. IsWellFoundedOn(R, Nat)
  BY NatLessThanWellFounded DEF OpToRel
<1> HIDE DEF R
<1>2. PICK x \in S : \A y \in S : <<y, x>> \notin R
  BY <1>1, WFMin
<1>3. \A y \in S : x \in Nat /\ y \in Nat /\ ~(y < x)
  BY <1>2 DEF R
<1> QED
  BY <1>3

(* Induction over the naturals and over a finite set, for a set in the     *)
(* place of a predicate.                                                   *)
LEMMA Counting ==
  ASSUME NEW G, 0 \in G, \A n \in Nat : n \in G => n + 1 \in G
  PROVE  Nat \subseteq G
<1> SUFFICES ASSUME Nat \ G # {} PROVE FALSE
  OBVIOUS
<1>1. PICK n \in Nat \ G : \A m \in Nat \ G : n <= m
  BY LeastOf
<1>2. n - 1 \in Nat /\ n - 1 \in G
  BY <1>1
<1> QED
  BY <1>1, <1>2

LEMMA Growing ==
  ASSUME NEW S, IsFiniteSet(S), NEW G, {} \in G,
         \A T \in SUBSET S : \A x \in S \ T : T \in G => T \cup {x} \in G
  PROVE  S \in G
<1> DEFINE Bad == {T \in SUBSET S : T \notin G}
           Sizes == {Cardinality(T) : T \in Bad}
<1> SUFFICES ASSUME S \notin G PROVE FALSE
  OBVIOUS
<1>1. \A T \in SUBSET S : IsFiniteSet(T) /\ Cardinality(T) \in Nat
  BY FS_Subset, FS_CardinalityType
<1>2. Sizes \in SUBSET Nat /\ Sizes # {}
  BY <1>1
<1> HIDE DEF Sizes
<1>3. PICK n \in Sizes : \A m \in Sizes : n <= m
  BY <1>2, LeastOf
<1>4. PICK T \in Bad : Cardinality(T) = n
  BY <1>3 DEF Sizes
<1>5. PICK x \in T : TRUE
  BY <1>4
<1>6. T \ {x} \in SUBSET S /\ Cardinality(T \ {x}) = n - 1 /\ n \in Nat
  BY <1>1, <1>4, <1>5, FS_RemoveElement
<1>7. T \ {x} \in G
  <2>1. SUFFICES ASSUME T \ {x} \in Bad PROVE FALSE
    BY <1>6
  <2>2. n - 1 \in Sizes
    BY <1>6, <2>1 DEF Sizes
  <2> QED
    BY <1>3, <1>6, <2>2
<1>8. x \in S \ (T \ {x}) /\ (T \ {x}) \cup {x} = T
  BY <1>4, <1>5
<1> QED
  BY <1>4, <1>6, <1>7, <1>8

Ints(f) == /\ f = [x \in DOMAIN f |-> f[x]] /\ IsFiniteSet(DOMAIN f)
           /\ \A x \in DOMAIN f : f[x] \in Int
First(s) == CHOOSE x \in s : TRUE
Folds(f, g) == g = [s \in SUBSET DOMAIN f |->
                      IF s = {} THEN 0 ELSE f[CHOOSE x \in s : TRUE] + g[s \ {CHOOSE x \in s : TRUE}]]
TheFold(f) == CHOOSE g : Folds(f, g)
Restricted(f, U) == [x \in U |-> f[x]]

LEMMA SumIsFold ==
  ASSUME NEW f
  PROVE  Sum(f) = TheFold(f)[DOMAIN f]
BY DEF Sum, MapThenSumSet, MapThenFoldSet, TheFold, Folds

(* The fold exists: on the subsets of at most n elements, for every n.     *)
LEMMA FoldExists ==
  ASSUME NEW f, Ints(f)
  PROVE  \E g \in [SUBSET DOMAIN f -> Int] : Folds(f, g)
<1> DEFINE S == DOMAIN f
           Upto(n) == {s \in SUBSET S : Cardinality(s) <= n}
           Below(n) == {g \in [Upto(n) -> Int] :
                          \A s \in Upto(n) :
                            g[s] = IF s = {} THEN 0 ELSE f[First(s)] + g[s \ {First(s)}]}
           G == {n \in Nat : Below(n) # {}}
<1>1. \A s \in SUBSET S : IsFiniteSet(s) /\ Cardinality(s) \in Nat
  BY FS_Subset, FS_CardinalityType DEF Ints
<1>2. \A s \in SUBSET S : s # {} => /\ First(s) \in s /\ First(s) \in S
                                    /\ Cardinality(s \ {First(s)}) = Cardinality(s) - 1
  BY <1>1, FS_RemoveElement DEF First
<1>3. 0 \in G
  <2>1. Upto(0) = {{}}
    BY <1>1, FS_EmptySet
  <2> DEFINE z == [s \in Upto(0) |-> 0]
  <2>2. z \in [Upto(0) -> Int] /\ \A s \in Upto(0) : s = {} /\ z[s] = 0
    BY <2>1
  <2> HIDE DEF z
  <2>3. z \in Below(0)
    BY <2>2
  <2> QED
    BY <2>3
<1>4. ASSUME NEW n \in Nat, n \in G
      PROVE  n + 1 \in G
  <2>1. PICK g \in Below(n) : TRUE
    BY <1>4
  <2> DEFINE h == [s \in Upto(n + 1) |->
                     IF s = {} THEN 0 ELSE f[First(s)] + g[s \ {First(s)}]]
  <2>2. \A s \in Upto(n + 1) : s # {} => s \ {First(s)} \in Upto(n)
    BY <1>1, <1>2
  <2>3. h \in [Upto(n + 1) -> Int]
    BY <1>2, <2>1, <2>2 DEF Ints
  <2>4. \A s \in Upto(n) : s \in Upto(n + 1) /\ h[s] = g[s]
    BY <1>1, <2>1
  <2>5. h \in Below(n + 1)
    BY <2>2, <2>3, <2>4
  <2> HIDE DEF h, Upto, Below
  <2>6. Below(n + 1) # {} /\ n + 1 \in Nat
    BY <2>5
  <2> QED
    BY <2>6
<1> HIDE DEF Upto, Below, G
<1>5. Nat \subseteq G
  BY <1>3, <1>4, Counting
<1>6. Cardinality(S) \in G
  BY <1>1, <1>5
<1>7. PICK g \in Below(Cardinality(S)) : TRUE
  BY <1>6 DEF G
<1>8. Upto(Cardinality(S)) = SUBSET S
  BY FS_Subset DEF Upto, Ints
<1>9. g \in [SUBSET S -> Int]
  BY <1>7, <1>8 DEF Below
<1>10. Folds(f, g)
  BY <1>7, <1>8, <1>9 DEF Below, Folds, First
<1> QED
  BY <1>9, <1>10

LEMMA TheFoldIs ==
  ASSUME NEW f, Ints(f)
  PROVE  /\ TheFold(f)[{}] = 0
         /\ \A s \in SUBSET DOMAIN f :
              s # {} => TheFold(f)[s] = f[First(s)] + TheFold(f)[s \ {First(s)}]
<1>1. Folds(f, TheFold(f))
  BY FoldExists DEF TheFold
<1> QED
  BY <1>1 DEF Folds, First

Part(s, f) == s \in SUBSET DOMAIN f

(* Any element may be taken off first.                                     *)
LEMMA FoldStep ==
  ASSUME NEW f, Ints(f), NEW s, Part(s, f), NEW x \in s
  PROVE  /\ TheFold(f)[s] \in Int
         /\ TheFold(f)[s] = f[x] + TheFold(f)[s \ {x}]
<1> DEFINE S == DOMAIN f
           g == TheFold(f)
           Steps(t) == /\ g[t] \in Int
                       /\ \A y \in t : g[t] = f[y] + g[t \ {y}]
           G == {n \in Nat : \A t \in SUBSET S : Cardinality(t) <= n => Steps(t)}
<1>1. \A t \in SUBSET S : IsFiniteSet(t) /\ Cardinality(t) \in Nat
  BY FS_Subset, FS_CardinalityType DEF Ints
<1>2. \A t \in SUBSET S : \A y \in t : Cardinality(t \ {y}) = Cardinality(t) - 1
  BY <1>1, FS_RemoveElement
<1>3. g[{}] = 0 /\ \A t \in SUBSET S : t # {} =>
        First(t) \in t /\ g[t] = f[First(t)] + g[t \ {First(t)}]
  BY TheFoldIs DEF First
<1>4. \A y \in S : f[y] \in Int
  BY DEF Ints
<1> HIDE DEF g
<1>5. 0 \in G
  <2>1. \A t \in SUBSET S : Cardinality(t) <= 0 => t = {}
    BY <1>1, FS_EmptySet
  <2>2. Steps({})
    BY <1>3
  <2> HIDE DEF Steps
  <2> QED
    BY <2>1, <2>2
<1>6. ASSUME NEW n \in Nat, n \in G
      PROVE  n + 1 \in G
  <2>1. ASSUME NEW t \in SUBSET S, Cardinality(t) <= n + 1, t # {}
        PROVE  Steps(t)
    <3> DEFINE c == First(t)
               r == t \ {c}
    <3>1. c \in t /\ g[t] = f[c] + g[r]
      BY <1>3, <2>1
    <3> HIDE DEF c
    <3>2. r \in SUBSET S /\ Cardinality(r) <= n
      BY <1>1, <1>2, <2>1, <3>1
    <3>3. Steps(r)
      BY <1>6, <3>2
    <3>4. ASSUME NEW y \in t
          PROVE  g[t] = f[y] + g[t \ {y}]
      <4>1. CASE y = c
        BY <3>1, <4>1
      <4>2. CASE y # c
        <5>1. y \in r /\ g[r] = f[y] + g[r \ {y}]
          BY <3>3, <4>2
        <5>2. t \ {y} \in SUBSET S /\ Cardinality(t \ {y}) <= n /\ c \in t \ {y}
          BY <1>1, <1>2, <2>1, <3>1, <4>2
        <5>3. Steps(t \ {y})
          BY <1>6, <5>2
        <5>4. g[t \ {y}] = f[c] + g[(t \ {y}) \ {c}]
          BY <5>2, <5>3
        <5>5. (t \ {y}) \ {c} = r \ {y}
          OBVIOUS
        <5>6. Cardinality(r \ {y}) <= n /\ r \ {y} \in SUBSET S
          BY <1>1, <1>2, <3>2, <5>1
        <5>7. g[r \ {y}] \in Int
          BY <1>6, <5>6
        <5>8. f[y] \in Int /\ f[c] \in Int
          BY <1>4, <2>1, <3>1
        <5>9. g[t \ {y}] = f[c] + g[r \ {y}]
          BY <5>4, <5>5
        <5> HIDE DEF r
        <5> QED
          BY <3>1, <5>1, <5>7, <5>8, <5>9
      <4> QED
        BY <4>1, <4>2
    <3>5. g[t] \in Int
      BY <1>4, <3>1, <3>3
    <3> QED
      BY <3>4, <3>5
  <2>2. Steps({})
    BY <1>3
  <2>3. \A t \in SUBSET S : Cardinality(t) <= n + 1 => Steps(t)
    BY <2>1, <2>2
  <2> QED
    BY <2>3
<1> HIDE DEF Steps, G
<1>7. Cardinality(s) \in G
  BY <1>1, <1>5, <1>6, Counting DEF Part
<1>8. Steps(s)
  BY <1>1, <1>7 DEF G, Part
<1> QED
  BY <1>8 DEF Steps, g

LEMMA FoldAdds ==
  ASSUME NEW f, Ints(f)
  PROVE  /\ \A T \in SUBSET DOMAIN f : TheFold(f)[T] \in Int
         /\ \A T \in SUBSET DOMAIN f : \A x \in DOMAIN f \ T :
              TheFold(f)[T \cup {x}] = f[x] + TheFold(f)[T]
<1>1. ASSUME NEW T \in SUBSET DOMAIN f
      PROVE  TheFold(f)[T] \in Int
  <2>1. CASE T = {}
    BY <2>1, TheFoldIs
  <2>2. CASE T # {}
    BY <2>2, FoldStep DEF Part
  <2> QED
    BY <2>1, <2>2
<1>2. ASSUME NEW T \in SUBSET DOMAIN f, NEW x \in DOMAIN f \ T
      PROVE  TheFold(f)[T \cup {x}] = f[x] + TheFold(f)[T]
  <2> DEFINE V == T \cup {x}
  <2>1. Part(V, f) /\ x \in V /\ V \ {x} = T
    BY DEF Part
  <2> HIDE DEF V
  <2>2. TheFold(f)[V] = f[x] + TheFold(f)[V \ {x}]
    BY ZenonT(60), <2>1, FoldStep
  <2>3. TheFold(f)[V] = f[x] + TheFold(f)[T]
    BY <2>1, <2>2
  <2> QED
    BY <2>3 DEF V
<1> QED
  BY <1>1, <1>2

LEMMA SumType ==
  ASSUME NEW f, Ints(f)
  PROVE  Sum(f) \in Int /\ (DOMAIN f = {} => Sum(f) = 0)
<1>1. CASE DOMAIN f = {}
  BY <1>1, SumIsFold, TheFoldIs
<1>2. CASE DOMAIN f # {}
  BY <1>2, SumIsFold, FoldStep DEF Part
<1> QED
  BY <1>1, <1>2

LEMMA PartIsInts ==
  ASSUME NEW f, Ints(f), NEW U \in SUBSET DOMAIN f
  PROVE  Ints(Restricted(f, U)) /\ DOMAIN Restricted(f, U) = U
BY FS_Subset DEF Ints, Restricted

(* The sum of a part is what the fold of the whole gives for it.           *)
LEMMA SumOfPart ==
  ASSUME NEW f, Ints(f), NEW U \in SUBSET DOMAIN f
  PROVE  Sum(Restricted(f, U)) = TheFold(f)[U]
<1> DEFINE h == Restricted(f, U)
           G == {T \in SUBSET U : TheFold(h)[T] = TheFold(f)[T]}
<1>1. Ints(h) /\ DOMAIN h = U /\ \A x \in U : h[x] = f[x]
  BY PartIsInts DEF Restricted
<1> HIDE DEF h
<1>2. {} \in G
  BY <1>1, TheFoldIs
<1>3. ASSUME NEW T \in SUBSET U, NEW x \in U \ T, T \in G
      PROVE  T \cup {x} \in G
  <2> DEFINE V == T \cup {x}
  <2>1. Part(V, f) /\ Part(V, h) /\ x \in V /\ V \ {x} = T
    BY <1>1, <1>3 DEF Part
  <2> HIDE DEF V
  <2>2. TheFold(h)[V] = h[x] + TheFold(h)[T] /\ TheFold(f)[V] = f[x] + TheFold(f)[T]
    BY <1>1, <2>1, FoldStep
  <2>3. V \in G
    BY <1>1, <1>3, <2>1, <2>2 DEF Part
  <2> QED
    BY <2>3 DEF V
<1>4. IsFiniteSet(U)
  BY FS_Subset DEF Ints
<1>5. U \in G
  <2> HIDE DEF G
  <2> QED
    BY <1>2, <1>3, <1>4, Growing
<1> QED
  BY <1>1, <1>5, SumIsFold DEF h

(* What adds nothing may be left out.                                      *)
LEMMA SumWithoutZeros ==
  ASSUME NEW f, Ints(f), NEW U \in SUBSET DOMAIN f,
         \A x \in DOMAIN f \ U : f[x] = 0
  PROVE  Sum(f) = Sum(Restricted(f, U))
<1> DEFINE R == DOMAIN f \ U
           G == {T \in SUBSET R : TheFold(f)[U \cup T] = TheFold(f)[U]}
<1>1. {} \in G
  BY U \cup {} = U
<1>2. ASSUME NEW T \in SUBSET R, NEW x \in R \ T, T \in G
      PROVE  T \cup {x} \in G
  <2>1. U \cup T \in SUBSET DOMAIN f /\ x \in DOMAIN f \ (U \cup T) /\ f[x] = 0
    BY <1>2
  <2>2. TheFold(f)[(U \cup T) \cup {x}] = f[x] + TheFold(f)[U \cup T]
    BY <2>1, FoldAdds
  <2>3. TheFold(f)[U \cup T] \in Int
    BY <2>1, FoldAdds
  <2>4. (U \cup T) \cup {x} = U \cup (T \cup {x})
    OBVIOUS
  <2>5. TheFold(f)[(U \cup T) \cup {x}] = TheFold(f)[U \cup T]
    BY <2>1, <2>2, <2>3
  <2>6. TheFold(f)[U \cup (T \cup {x})] = TheFold(f)[U]
    BY <1>2, <2>4, <2>5
  <2> QED
    BY <1>2, <2>6
<1>3. IsFiniteSet(R)
  BY FS_Subset DEF Ints
<1>4. R \in G
  <2> HIDE DEF G
  <2> QED
    BY <1>1, <1>2, <1>3, Growing
<1>5. U \cup R = DOMAIN f
  OBVIOUS
<1> QED
  BY <1>4, <1>5, SumIsFold, SumOfPart

(* A sum of naturals is one, and no part of it is more.                    *)
LEMMA SumOfNaturals ==
  ASSUME NEW f, Ints(f), \A x \in DOMAIN f : f[x] >= 0, NEW U \in SUBSET DOMAIN f
  PROVE  0 <= Sum(Restricted(f, U)) /\ Sum(Restricted(f, U)) <= Sum(f)
<1> DEFINE Up(V) == {T \in SUBSET DOMAIN f :
                       V \cup T \in SUBSET DOMAIN f => /\ TheFold(f)[V \cup T] \in Int
                                                       /\ TheFold(f)[V \cup T] >= TheFold(f)[V]}
<1>1. \A V \in SUBSET DOMAIN f : TheFold(f)[V] \in Int
  <2> TAKE V \in SUBSET DOMAIN f
  <2>1. CASE V = {}
    BY <2>1, TheFoldIs
  <2>2. CASE V # {}
    BY <2>2, FoldStep DEF Part
  <2> QED
    BY <2>1, <2>2
<1>2. ASSUME NEW V \in SUBSET DOMAIN f
      PROVE  DOMAIN f \in Up(V)
  <2>1. {} \in Up(V)
    BY <1>1, V \cup {} = V
  <2>2. ASSUME NEW T \in SUBSET DOMAIN f, NEW x \in DOMAIN f \ T, T \in Up(V)
        PROVE  T \cup {x} \in Up(V)
    <3> DEFINE W == V \cup (T \cup {x})
    <3>1. V \cup T \in SUBSET DOMAIN f /\ W \in SUBSET DOMAIN f
      OBVIOUS
    <3>2. TheFold(f)[W] \in Int /\ TheFold(f)[V \cup T] \in Int
      BY <1>1, <3>1
    <3>3. TheFold(f)[W] >= TheFold(f)[V \cup T]
      <4>1. CASE x \in V
        <5>1. W = V \cup T
          BY <4>1
        <5> QED
          BY <3>2, <5>1
      <4>2. CASE x \notin V
        <5>1. x \in W /\ W \ {x} = V \cup T /\ f[x] \in Int /\ f[x] >= 0
          BY <2>2, <4>2 DEF Ints
        <5>2. Part(W, f)
          BY <3>1 DEF Part
        <5> HIDE DEF W
        <5>3. TheFold(f)[W] = f[x] + TheFold(f)[W \ {x}]
          BY <5>1, <5>2, FoldStep
        <5> QED
          BY <3>2, <5>1, <5>3
      <4> QED
        BY <4>1, <4>2
    <3>4. TheFold(f)[V \cup T] >= TheFold(f)[V]
      BY <2>2, <3>1
    <3>5. TheFold(f)[V] \in Int
      BY <1>1
    <3>6. TheFold(f)[W] >= TheFold(f)[V]
      BY <3>2, <3>3, <3>4, <3>5
    <3> QED
      BY <3>1, <3>2, <3>6
  <2>3. IsFiniteSet(DOMAIN f)
    BY DEF Ints
  <2> HIDE DEF Up
  <2> QED
    BY <2>1, <2>2, <2>3, Growing
<1>3. {} \cup U = U /\ U \in SUBSET DOMAIN f /\ U \cup DOMAIN f = DOMAIN f
  OBVIOUS
<1>4. TheFold(f)[DOMAIN f] >= TheFold(f)[U]
  BY <1>2, <1>3
<1>5. TheFold(f)[U] >= 0
  <2> DEFINE h == Restricted(f, U)
  <2>1. TheFold(f)[{}] = 0
    BY TheFoldIs
  <2> DEFINE G == {T \in SUBSET U : TheFold(f)[T] >= 0}
  <2>2. {} \in G
    BY <2>1
  <2>3. ASSUME NEW T \in SUBSET U, NEW x \in U \ T, T \in G
        PROVE  T \cup {x} \in G
    <3>1. Part(T \cup {x}, f) /\ x \in T \cup {x} /\ (T \cup {x}) \ {x} = T
      BY <2>3 DEF Part
    <3>2. TheFold(f)[T \cup {x}] = f[x] + TheFold(f)[T]
      BY <3>1, FoldStep
    <3>3. f[x] \in Int /\ f[x] >= 0 /\ TheFold(f)[T] \in Int /\ TheFold(f)[T] >= 0
      BY <1>1, <2>3 DEF Ints
    <3> QED
      BY <2>3, <3>2, <3>3
  <2>4. IsFiniteSet(U)
    BY FS_Subset DEF Ints
  <2>5. U \in G
    <3> HIDE DEF G
    <3> QED
      BY <2>2, <2>3, <2>4, Growing
  <2> QED
    BY <2>5
<1> QED
  BY <1>4, <1>5, SumOfPart, SumIsFold

LEMMA NothingInSum ==
  ASSUME NEW f, Ints(f), \A x \in DOMAIN f : f[x] >= 0, Sum(f) = 0
  PROVE  \A x \in DOMAIN f : f[x] = 0
<1> TAKE x \in DOMAIN f
<1>1. Sum(Restricted(f, {x})) = TheFold(f)[{x}]
  BY SumOfPart
<1>2. TheFold(f)[{x}] = f[x]
  <2>1. {} \in SUBSET DOMAIN f /\ x \in DOMAIN f \ {} /\ {} \cup {x} = {x}
    OBVIOUS
  <2>2. TheFold(f)[{} \cup {x}] = f[x] + TheFold(f)[{}]
    BY <2>1, FoldAdds
  <2> QED
    BY <2>1, <2>2, TheFoldIs DEF Ints
<1>3. f[x] \in Int /\ f[x] >= 0 /\ Sum(Restricted(f, {x})) <= Sum(f)
  BY SumOfNaturals DEF Ints
<1> QED
  BY <1>1, <1>2, <1>3

LEMMA SumOfDifferences ==
  ASSUME NEW f, NEW g, NEW h, Ints(f), Ints(g), Ints(h),
         DOMAIN g = DOMAIN f, DOMAIN h = DOMAIN f,
         \A x \in DOMAIN f : h[x] = f[x] - g[x]
  PROVE  Sum(h) = Sum(f) - Sum(g)
<1> DEFINE G == {T \in SUBSET DOMAIN f :
                   /\ TheFold(f)[T] \in Int /\ TheFold(g)[T] \in Int
                   /\ TheFold(h)[T] = TheFold(f)[T] - TheFold(g)[T]}
<1>1. {} \in G
  BY TheFoldIs
<1>2. ASSUME NEW T \in SUBSET DOMAIN f, NEW x \in DOMAIN f \ T, T \in G
      PROVE  T \cup {x} \in G
  <2>1. TheFold(f)[T \cup {x}] = f[x] + TheFold(f)[T]
    BY <1>2, FoldAdds
  <2>2. TheFold(g)[T \cup {x}] = g[x] + TheFold(g)[T]
    BY <1>2, FoldAdds
  <2>3. TheFold(h)[T \cup {x}] = h[x] + TheFold(h)[T]
    BY <1>2, FoldAdds
  <2>4. f[x] \in Int /\ g[x] \in Int /\ h[x] = f[x] - g[x]
    BY <1>2 DEF Ints
  <2> QED
    BY <1>2, <2>1, <2>2, <2>3, <2>4
<1>3. DOMAIN f \in G
  <2> HIDE DEF G
  <2> QED
    BY <1>1, <1>2, Growing DEF Ints
<1> QED
  BY <1>3, SumIsFold

-----------------------------------------------------------------------------
(* What each stage of a pair knows.                                        *)
Filled == [Members -> Pairs]
OverallOf(T) == Result("success", Marker, Members, [x \in {"overall"} |-> Totals(T)])
RowsOf(T, scope) == [g \in Present(T, scope) |-> T[g]]
Cut(T, scope) == Cardinality(Present(T, scope)) > limit
PartitionOf(T, scope, R) ==
    [Result("success", Marker, scope, [g \in R |-> RowsOf(T, scope)[g]])
       EXCEPT !.truncated = Cut(T, scope),
              !.proof = IF Cut(T, scope) THEN Proof(RowsOf(T, scope), limit) ELSE Null]
Chosen(T, scope, R) ==
    /\ scope \in Scopes /\ R \in SUBSET Present(T, scope)
    /\ Cardinality(R) = IF Cut(T, scope) THEN limit ELSE Cardinality(Present(T, scope))

OverallKnown ==
    \/ overall = Refused("failed") /\ read.overall = Null
    \/ /\ read.overall \in Filled /\ overall = OverallOf(read.overall)
       /\ kind = "complete" => allowed
PartitionKnown ==
    \/ partition = Refused("failed") /\ read.partition = Null
    \/ /\ read.partition \in Filled
       /\ \E scope \in SUBSET Members, R \in SUBSET Members :
            Chosen(read.partition, scope, R) /\ partition = PartitionOf(read.partition, scope, R)
       /\ grouped => Succeeded(overall) /\ read.overall = read.partition
Declined ==
    /\ kind = "complete" /\ ~allowed
    /\ overall = Refused("unsupported") /\ partition = Refused("unsupported")

HasRead(s) == \/ /\ s = "overall" /\ overall = NoResult /\ partition = NoResult
                  /\ read.overall = Null /\ read.partition = Null
               \/ /\ s = "partition" /\ OverallKnown /\ read.partition = Null
                  /\ grouped /\ Succeeded(overall) => table = read.overall
               \/ /\ s \notin {"overall", "partition"}
                  /\ Declined \/ (OverallKnown /\ PartitionKnown)
Judged == pending = IF MayRelate(overall, partition) THEN Sealed(overall, partition) ELSE Null
SealedOne ==
    recon = IF pending # Null /\ pending.drivers # {} THEN pending
            ELSE IF kind = "complete" THEN [reason |-> Reason(overall, partition)]
            ELSE Null
Projected ==
    wire = IF ~Succeeded(partition) THEN [status |-> "failed", relation |-> Null]
           ELSE IF IsSealed(recon) /\ ~Validated(partition, recon)
                THEN [status |-> "invalid", relation |-> Null]
           ELSE [status |-> "success", relation |-> recon]

WellAsked ==
    /\ kind \in {"complete", "linked"} /\ (kind = "complete" => grouped)
    /\ allowed \in BOOLEAN /\ comparable \in BOOLEAN /\ grouped \in BOOLEAN
    /\ limit \in Limits /\ table \in Filled
Stages == {"overall", "partition", "authorize", "seal", "project", "done"}
IInv ==
    /\ WellAsked /\ stage \in Stages /\ DOMAIN read = {"overall", "partition"}
    /\ HasRead(stage)
    /\ stage \in {"seal", "project", "done"} => Judged
    /\ IF stage \in {"project", "done"} THEN SealedOne ELSE recon = Null
    /\ stage = "done" => Projected

-----------------------------------------------------------------------------
LEMMA InitOK == Init => IInv
BY DEF Init, IInv, WellAsked, Stages, Filled, HasRead

LEMMA UnsupportedStep == IInv /\ Unsupported => IInv'
<1> SUFFICES ASSUME IInv, Unsupported PROVE IInv'
  OBVIOUS
<1>1. WellAsked' /\ stage' \in Stages /\ (DOMAIN read = {"overall", "partition"})'
  BY DEF IInv, Unsupported, WellAsked, Stages, Filled, fixed
<1>2. Declined' /\ stage' = "authorize" /\ recon' = Null
  BY DEF IInv, Unsupported, Declined, Refused, NoResult, Result, NoRows, Totals, Column, Sum, fixed
<1> QED
  BY <1>1, <1>2 DEF IInv, HasRead

LEMMA AskOverallStep == IInv /\ AskOverall => IInv'
<1> SUFFICES ASSUME IInv, AskOverall PROVE IInv'
  OBVIOUS
<1>1. WellAsked' /\ stage' \in Stages /\ (DOMAIN read = {"overall", "partition"})'
  BY DEF IInv, AskOverall, WellAsked, Stages, Filled, fixed
<1>2. stage = "overall" /\ stage' = "partition" /\ recon' = Null
  BY DEF IInv, AskOverall
<1>3. CASE overall' = Refused("failed") /\ UNCHANGED read
  <2>1. OverallKnown'
    BY <1>2, <1>3 DEF OverallKnown, IInv, HasRead
  <2>2. ~Succeeded(overall') /\ read'.partition = Null
    BY <1>2, <1>3 DEF IInv, HasRead, Succeeded, Refused, NoResult, Result
  <2> QED
    BY <1>1, <1>2, <2>1, <2>2 DEF IInv, HasRead
<1>4. CASE overall' = OverallOf(table) /\ read' = [read EXCEPT !.overall = table]
  <2>1. OverallKnown'
    BY <1>4 DEF OverallKnown, IInv, AskOverall, WellAsked, OverallOf, Marker, fixed, Filled
  <2>2. read'.partition = Null /\ read'.overall = table'
    BY <1>2, <1>4 DEF IInv, HasRead, AskOverall
  <2> QED
    BY <1>1, <1>2, <2>1, <2>2 DEF IInv, HasRead
<1> QED
  BY <1>3, <1>4 DEF AskOverall, OverallOf

LEMMA DriftStep == IInv /\ Drift => IInv'
<1> SUFFICES ASSUME IInv, Drift PROVE IInv'
  OBVIOUS
<1>1. table' \in Filled
  <2>1. PICK g \in Members, c \in Cells : table' = [table EXCEPT ![g].cur = c]
    BY DEF Drift
  <2>2. table[g] \in Pairs /\ [table[g] EXCEPT !.cur = c] \in Pairs
    BY DEF IInv, WellAsked, Filled, Pairs, Periods
  <2> QED
    BY <2>1, <2>2 DEF IInv, WellAsked, Filled
<1>2. WellAsked' /\ stage' \in Stages /\ (DOMAIN read = {"overall", "partition"})'
  BY <1>1 DEF IInv, Drift, WellAsked, Stages, Filled, fixed
<1>3. stage = "partition" /\ stage' = "partition" /\ recon' = Null /\ ~grouped'
  BY DEF IInv, Drift, fixed
<1>4. OverallKnown' /\ read'.partition = Null
  BY <1>3 DEF IInv, HasRead, OverallKnown, OverallOf, Marker, Drift, fixed, Filled
<1> QED
  BY <1>2, <1>3, <1>4 DEF IInv, HasRead

LEMMA AskPartitionStep == IInv /\ AskPartition => IInv'
<1> SUFFICES ASSUME IInv, AskPartition PROVE IInv'
  OBVIOUS
<1>1. WellAsked' /\ stage' \in Stages /\ (DOMAIN read = {"overall", "partition"})'
  BY DEF IInv, AskPartition, WellAsked, Stages, Filled, fixed
<1>2. stage = "partition" /\ stage' = "authorize" /\ recon' = Null /\ overall' = overall
  BY DEF IInv, AskPartition
<1>3. OverallKnown /\ read.partition = Null /\ (grouped /\ Succeeded(overall) => table = read.overall)
  BY <1>2 DEF IInv, HasRead
<1>4. read'.overall = read.overall
  BY DEF IInv, AskPartition
<1>5. OverallKnown'
  BY <1>3, <1>4 DEF OverallKnown, OverallOf, Marker, AskPartition, fixed, Filled
<1>6. PartitionKnown'
  <2>1. CASE partition' = Refused("failed") /\ UNCHANGED read
    BY <1>3, <2>1 DEF PartitionKnown
  <2>2. CASE /\ grouped => Succeeded(overall)
             /\ \E scope \in Scopes :
                  LET rows == [g \in Present(table, scope) |-> table[g]]
                      cut == Cardinality(DOMAIN rows) > limit
                  IN \E R \in SUBSET DOMAIN rows :
                       /\ Cardinality(R) = IF cut THEN limit ELSE Cardinality(DOMAIN rows)
                       /\ partition' = [Result("success", Marker, scope, [g \in R |-> rows[g]])
                                          EXCEPT !.truncated = cut,
                                                 !.proof = IF cut THEN Proof(rows, limit) ELSE Null]
             /\ read' = [read EXCEPT !.partition = table]
    <3>1. PICK scope \in Scopes : \E R \in SUBSET Present(table, scope) :
            /\ Cardinality(R) = IF Cut(table, scope) THEN limit ELSE Cardinality(Present(table, scope))
            /\ partition' = PartitionOf(table, scope, R)
      BY ZenonT(60), <2>2 DEF PartitionOf, RowsOf, Cut
    <3>2. PICK R \in SUBSET Present(table, scope) :
            /\ Cardinality(R) = IF Cut(table, scope) THEN limit ELSE Cardinality(Present(table, scope))
            /\ partition' = PartitionOf(table, scope, R)
      BY <3>1
    <3>3. Chosen(table, scope, R)
      BY <3>2 DEF Chosen
    <3>4. scope \in SUBSET Members /\ R \in SUBSET Members
      BY <3>2 DEF Scopes, Present
    <3>5. read'.partition = table /\ table \in Filled /\ table' = table
      BY ZenonT(60), <2>2 DEF IInv, WellAsked, AskPartition
    <3>6. (Chosen(table, scope, R) /\ partition = PartitionOf(table, scope, R))'
      BY ZenonT(60), <3>2, <3>3, <3>5 DEF Chosen, PartitionOf, Cut, RowsOf, Scopes, Marker, AskPartition, fixed
    <3>7. grouped' => Succeeded(overall') /\ read'.overall = read'.partition
      BY <1>2, <1>3, <1>4, <2>2, <3>5 DEF AskPartition, fixed
    <3> QED
      BY SMTT(30), <3>4, <3>5, <3>6, <3>7 DEF PartitionKnown, Filled
  <2> QED
    BY <2>1, <2>2 DEF AskPartition
<1> QED
  BY <1>1, <1>2, <1>5, <1>6 DEF IInv, HasRead

(* The stages after the answers leave them alone.                          *)
LEMMA AnswersKept ==
  ASSUME IInv, stage \notin {"overall", "partition"}, stage' \notin {"overall", "partition"},
         stage' \in Stages, UNCHANGED <<fixed, table, overall, partition, read>>
  PROVE  WellAsked' /\ (DOMAIN read = {"overall", "partition"})' /\ HasRead(stage)'
<1>1. WellAsked' /\ (DOMAIN read = {"overall", "partition"})'
  BY DEF IInv, WellAsked, Filled, fixed
<1>2. Declined \/ (OverallKnown /\ PartitionKnown)
  BY DEF IInv, HasRead
<1>3. Declined => Declined'
  BY DEF Declined, fixed
<1>4. OverallKnown => OverallKnown'
  BY DEF OverallKnown, OverallOf, Marker, fixed, Filled
<1>5. PartitionKnown => PartitionKnown'
  <2>1. ASSUME NEW T, NEW scope, NEW R
        PROVE  Chosen(T, scope, R)' = Chosen(T, scope, R) /\ PartitionOf(T, scope, R)' = PartitionOf(T, scope, R)
    BY DEF PartitionOf, Chosen, Cut, RowsOf, Scopes, Marker, fixed
  <2>2. read' = read /\ partition' = partition /\ overall' = overall /\ grouped' = grouped
    BY DEF fixed
  <2> QED
    BY <2>1, <2>2 DEF PartitionKnown, Filled
<1> QED
  BY <1>1, <1>2, <1>3, <1>4, <1>5 DEF HasRead

LEMMA AuthorizeStep == IInv /\ Authorize => IInv'
<1> SUFFICES ASSUME IInv, Authorize PROVE IInv'
  OBVIOUS
<1>1. stage = "authorize" /\ stage' = "seal" /\ recon' = Null
  BY DEF IInv, Authorize
<1>2. WellAsked' /\ (DOMAIN read = {"overall", "partition"})' /\ HasRead(stage)'
  BY <1>1, AnswersKept DEF Authorize, Stages
<1>3. overall' = overall /\ partition' = partition /\ fixed' = fixed
  BY DEF Authorize
<1>4. MayRelate(overall, partition)' = MayRelate(overall, partition)
  BY <1>3 DEF MayRelate, Compares, fixed
<1>5. Sealed(overall, partition)' = Sealed(overall, partition)
  BY <1>3 DEF Sealed, fixed
<1>6. Judged'
  BY <1>4, <1>5 DEF Judged, Authorize
<1> QED
  BY <1>1, <1>2, <1>6 DEF IInv, Stages

LEMMA JudgementKept ==
  ASSUME Judged, UNCHANGED <<fixed, overall, partition, pending>>
  PROVE  Judged'
<1>1. MayRelate(overall, partition)' = MayRelate(overall, partition)
  BY DEF MayRelate, Compares, fixed
<1>2. Sealed(overall, partition)' = Sealed(overall, partition)
  BY DEF Sealed, fixed
<1> QED
  BY <1>1, <1>2 DEF Judged

LEMMA SealKept ==
  ASSUME SealedOne, UNCHANGED <<fixed, overall, partition, pending, recon>>
  PROVE  SealedOne'
<1>1. Reason(overall, partition)' = Reason(overall, partition)
  BY DEF Reason
<1> QED
  BY <1>1 DEF SealedOne, fixed

LEMMA SealStep == IInv /\ Seal => IInv'
<1> SUFFICES ASSUME IInv, Seal PROVE IInv'
  OBVIOUS
<1>1. stage = "seal" /\ stage' = "project"
  BY DEF IInv, Seal
<1>2. WellAsked' /\ (DOMAIN read = {"overall", "partition"})' /\ HasRead(stage)'
  BY <1>1, AnswersKept DEF Seal, Stages
<1>3. Judged'
  BY <1>1, JudgementKept DEF IInv, Seal
<1>4. overall' = overall /\ partition' = partition /\ pending' = pending /\ kind' = kind
  BY DEF Seal, fixed
<1>5. Reason(overall, partition)' = Reason(overall, partition)
  BY <1>4 DEF Reason
<1>6. SealedOne'
  BY <1>4, <1>5 DEF SealedOne, Seal
<1> QED
  BY <1>1, <1>2, <1>3, <1>6 DEF IInv, Stages

LEMMA ProjectStep == IInv /\ Project => IInv'
<1> SUFFICES ASSUME IInv, Project PROVE IInv'
  OBVIOUS
<1>1. stage = "project" /\ stage' = "done"
  BY DEF IInv, Project
<1>2. WellAsked' /\ (DOMAIN read = {"overall", "partition"})' /\ HasRead(stage)'
  BY <1>1, AnswersKept DEF Project, Stages
<1>3. Judged'
  BY <1>1, JudgementKept DEF IInv, Project
<1>4. SealedOne'
  BY <1>1, SealKept DEF IInv, Project
<1>5. partition' = partition /\ recon' = recon
  BY DEF Project
<1>6. Projected'
  BY <1>5 DEF Projected, Project
<1> QED
  BY <1>1, <1>2, <1>3, <1>4, <1>6 DEF IInv, Stages

LEMMA StutterStep == IInv /\ UNCHANGED vars => IInv'
<1> SUFFICES ASSUME IInv, UNCHANGED vars PROVE IInv'
  OBVIOUS
<1>1. UNCHANGED <<fixed, table, stage, overall, partition, pending, recon, wire, read>>
  BY DEF vars, fixed
<1>2. WellAsked' /\ stage' \in Stages /\ (DOMAIN read = {"overall", "partition"})'
  BY <1>1 DEF IInv, WellAsked, Filled, fixed
<1>3. HasRead(stage)'
  <2>1. CASE stage \notin {"overall", "partition"}
    BY <1>1, <1>2, <2>1, AnswersKept
  <2>2. CASE stage = "overall"
    BY <1>1, <2>2 DEF IInv, HasRead
  <2>3. CASE stage = "partition"
    <3>1. OverallKnown'
      BY <1>1, <2>3 DEF IInv, HasRead, OverallKnown, OverallOf, Marker, fixed, Filled
    <3> QED
      BY <1>1, <2>3, <3>1 DEF IInv, HasRead, fixed
  <2> QED
    BY <2>1, <2>2, <2>3
<1>4. Judged => Judged'
  BY <1>1, JudgementKept
<1>5. SealedOne => SealedOne'
  BY <1>1, SealKept
<1>6. Projected => Projected'
  BY <1>1 DEF Projected
<1> QED
  BY <1>1, <1>2, <1>3, <1>4, <1>5, <1>6 DEF IInv

(* What each stage of a pair knows of the stages before it holds           *)
(* throughout.                                                             *)
THEOREM Invariance == Spec => []IInv
<1>1. IInv /\ [Next]_vars => IInv'
  BY UnsupportedStep, AskOverallStep, DriftStep, AskPartitionStep, AuthorizeStep, SealStep,
     ProjectStep, StutterStep DEF Next
<1> QED
  BY InitOK, <1>1, PTL DEF Spec

-----------------------------------------------------------------------------
(* Cells, and the columns of a table of finitely many groups.              *)
Counters == {"known", "missing"}
Col(rows, p, field) == [g \in DOMAIN rows |-> rows[g][p][field]]
Grid(rows) == IsFiniteSet(DOMAIN rows) /\ rows \in [DOMAIN rows -> Pairs]
Clean(rows) == \A g \in DOMAIN rows : \A p \in Periods : rows[g][p].missing = 0

LEMMA CellFacts ==
  ASSUME NEW c \in Cells
  PROVE  /\ c.known \in Nat /\ c.missing \in Nat /\ c.sum \in Int
         /\ c.known = 0 /\ c.missing = 0 => c = Absent
         /\ c.missing > 0 => c.known = 0
BY DecompositionAssumption DEF Cells, Absent

LEMMA AbsentFacts == Absent.known = 0 /\ Absent.missing = 0 /\ Absent.sum = 0
BY DEF Absent

LEMMA Columns ==
  ASSUME NEW rows, Grid(rows), NEW p \in Periods
  PROVE  /\ \A f \in {"known", "missing", "sum"} :
              Ints(Col(rows, p, f)) /\ Column(rows, p, f) = Sum(Col(rows, p, f))
         /\ \A f \in Counters : \A g \in DOMAIN rows : Col(rows, p, f)[g] >= 0
<1>1. \A g \in DOMAIN rows : rows[g][p] \in Cells
  BY DEF Grid, Pairs
<1>2. ASSUME NEW f \in {"known", "missing", "sum"}
      PROVE  Ints(Col(rows, p, f)) /\ Column(rows, p, f) = Sum(Col(rows, p, f))
  <2>1. \A g \in DOMAIN rows : rows[g][p][f] \in Int
    BY <1>1, <1>2, CellFacts
  <2>2. Ints(Col(rows, p, f))
    BY <2>1 DEF Ints, Col, Grid
  <2> QED
    BY <2>2 DEF Column, Col
<1>3. \A f \in Counters : \A g \in DOMAIN rows : Col(rows, p, f)[g] >= 0
  <2> TAKE f \in Counters
  <2> TAKE g \in DOMAIN rows
  <2>1. rows[g][p].known \in Nat /\ rows[g][p].missing \in Nat
    BY <1>1, CellFacts
  <2> QED
    BY <2>1 DEF Col, Counters
<1> QED
  BY <1>2, <1>3

LEMMA TotalsOf ==
  ASSUME NEW rows, Grid(rows), NEW p \in Periods
  PROVE  /\ Totals(rows)[p].known = Column(rows, p, "known")
         /\ Totals(rows)[p].missing = Column(rows, p, "missing")
         /\ Totals(rows)[p].sum = Column(rows, p, "sum")
         /\ Totals(rows)[p].known \in Nat /\ Totals(rows)[p].missing \in Nat
         /\ Totals(rows)[p].sum \in Int
<1>1. /\ Totals(rows)[p].known = Column(rows, p, "known")
      /\ Totals(rows)[p].missing = Column(rows, p, "missing")
      /\ Totals(rows)[p].sum = Column(rows, p, "sum")
  BY DEF Totals
<1>2. \A f \in {"known", "missing", "sum"} : Column(rows, p, f) \in Int
  BY Columns, SumType
<1>3. \A f \in Counters : Column(rows, p, f) >= 0
  <2> TAKE f \in Counters
  <2> DEFINE c == Col(rows, p, f)
  <2>1. Ints(c) /\ Column(rows, p, f) = Sum(c) /\ \A g \in DOMAIN c : c[g] >= 0
    BY Columns DEF Counters, Col
  <2>2. DOMAIN c \in SUBSET DOMAIN c /\ Restricted(c, DOMAIN c) = c
    BY <2>1 DEF Restricted, Ints
  <2> HIDE DEF c
  <2>3. 0 <= Sum(Restricted(c, DOMAIN c))
    BY <2>1, <2>2, SumOfNaturals
  <2> QED
    BY <1>2, <2>1, <2>2, <2>3 DEF Counters
<1> QED
  BY <1>1, <1>2, <1>3 DEF Counters

(* Nothing is missing in total when nothing is missing in any group.       *)
LEMMA MissingInTotal ==
  ASSUME NEW rows, Grid(rows), NEW p \in Periods, NEW f \in Counters
  PROVE  Totals(rows)[p][f] = 0 <=> \A g \in DOMAIN rows : rows[g][p][f] = 0
<1> DEFINE c == Col(rows, p, f)
<1>1. Ints(c) /\ Column(rows, p, f) = Sum(c) /\ \A g \in DOMAIN c : c[g] >= 0
  BY Columns DEF Counters, Col
<1>2. DOMAIN c = DOMAIN rows /\ \A g \in DOMAIN rows : c[g] = rows[g][p][f]
  BY DEF Col
<1>3. Totals(rows)[p][f] = Sum(c)
  BY <1>1, TotalsOf DEF Counters
<1> HIDE DEF c
<1>4. ASSUME Sum(c) = 0 PROVE \A g \in DOMAIN rows : rows[g][p][f] = 0
  BY <1>1, <1>2, <1>4, NothingInSum
<1>5. ASSUME \A g \in DOMAIN rows : rows[g][p][f] = 0 PROVE Sum(c) = 0
  <2>1. {} \in SUBSET DOMAIN c /\ \A g \in DOMAIN c \ {} : c[g] = 0
    BY <1>2, <1>5
  <2>2. Sum(c) = Sum(Restricted(c, {}))
    BY <1>1, <2>1, SumWithoutZeros
  <2>3. Sum(Restricted(c, {})) = 0
    BY <1>1, <2>1, PartIsInts, SumType
  <2> QED
    BY <2>2, <2>3
<1> QED
  BY <1>3, <1>4, <1>5

(* A table and the groups present in it have the same totals.              *)
LEMMA TotalsOfPresent ==
  ASSUME NEW rows, Grid(rows), NEW S \in SUBSET DOMAIN rows,
         \A g \in DOMAIN rows \ S : \A p \in Periods : rows[g][p] = Absent
  PROVE  Totals([g \in S |-> rows[g]]) = Totals(rows)
<1> DEFINE part == [g \in S |-> rows[g]]
<1>1. Grid(part)
  BY FS_Subset DEF Grid
<1>2. ASSUME NEW p \in Periods, NEW f \in {"known", "missing", "sum"}
      PROVE  Column(part, p, f) = Column(rows, p, f)
  <2> DEFINE c == Col(rows, p, f)
  <2>1. Ints(c) /\ Column(rows, p, f) = Sum(c) /\ DOMAIN c = DOMAIN rows
    BY Columns DEF Col
  <2>2. \A g \in DOMAIN c \ S : c[g] = 0
    BY AbsentFacts, <1>2 DEF Col
  <2>3. Col(part, p, f) = Restricted(c, S)
    BY DEF Col, Restricted
  <2>4. Column(part, p, f) = Sum(Col(part, p, f))
    BY <1>1, Columns
  <2> HIDE DEF c
  <2>5. Sum(c) = Sum(Restricted(c, S))
    BY <2>1, <2>2, SumWithoutZeros
  <2> QED
    BY <2>1, <2>3, <2>4, <2>5
<1> HIDE DEF part
<1>3. Totals(part) = Totals(rows)
  BY <1>2 DEF Totals
<1> QED
  BY <1>3 DEF part

(* What is returned is no more than there is.                              *)
LEMMA CountsOfPart ==
  ASSUME NEW rows, Grid(rows), NEW S \in SUBSET DOMAIN rows, NEW p \in Periods, NEW f \in Counters
  PROVE  Totals([g \in S |-> rows[g]])[p][f] <= Totals(rows)[p][f]
<1> DEFINE part == [g \in S |-> rows[g]]
           c == Col(rows, p, f)
<1>1. Grid(part)
  BY FS_Subset DEF Grid
<1>2. Ints(c) /\ DOMAIN c = DOMAIN rows /\ \A g \in DOMAIN c : c[g] >= 0
  BY Columns DEF Counters, Col
<1>3. Col(part, p, f) = Restricted(c, S)
  BY DEF Col, Restricted
<1>4. Totals(rows)[p][f] = Sum(c) /\ Totals(part)[p][f] = Sum(Col(part, p, f))
  BY <1>1, Columns, TotalsOf DEF Counters
<1> HIDE DEF c
<1>5. Sum(Restricted(c, S)) <= Sum(c)
  BY <1>2, SumOfNaturals
<1> QED
  BY <1>3, <1>4, <1>5

-----------------------------------------------------------------------------
(* With nothing missing, every figure has a value and the change of the    *)
(* whole is the sum of the changes of the groups.                          *)
LEMMA NullIsNoFigure == Null \notin Int /\ Null # "snapshot"
BY DecompositionAssumption

CleanRow(row) == \A p \in Periods : row[p].missing = 0 /\ row[p].sum \in Int

LEMMA RowFigures ==
  ASSUME NEW row, CleanRow(row)
  PROVE  /\ \A p \in Periods : Value(row[p]) = row[p].sum /\ Value(row[p]) # Null
         /\ Value(row.cur) = row.cur.sum /\ Value(row.cmp) = row.cmp.sum
         /\ Delta(row) = row.cur.sum - row.cmp.sum /\ Delta(row) \in Int
         /\ Triplet(row) = <<row.cur.sum, row.cmp.sum, row.cur.sum - row.cmp.sum>>
<1>1. \A p \in Periods : Value(row[p]) = row[p].sum /\ Value(row[p]) # Null
  BY NullIsNoFigure DEF Value, CleanRow
<1>2. "cur" \in Periods /\ "cmp" \in Periods
  BY DEF Periods
<1>3. /\ Value(row.cur) = row.cur.sum /\ Value(row.cmp) = row.cmp.sum
      /\ row.cur.sum \in Int /\ row.cmp.sum \in Int
      /\ Value(row.cur) # Null /\ Value(row.cmp) # Null
  BY <1>1, <1>2 DEF CleanRow
<1>4. Delta(row) = row.cur.sum - row.cmp.sum
  BY <1>3 DEF Delta
<1> QED
  BY <1>1, <1>3, <1>4 DEF Triplet

LEMMA CleanRows ==
  ASSUME NEW rows, Grid(rows), Clean(rows)
  PROVE  /\ CleanRow(Totals(rows)) /\ \A g \in DOMAIN rows : CleanRow(rows[g])
         /\ \A S \in SUBSET DOMAIN rows : Grid([g \in S |-> rows[g]]) /\ Clean([g \in S |-> rows[g]])
<1>1. \A g \in DOMAIN rows : \A p \in Periods : rows[g][p] \in Cells
  BY DEF Grid, Pairs
<1>2. \A g \in DOMAIN rows : CleanRow(rows[g])
  BY <1>1, CellFacts DEF Clean, CleanRow
<1>3. \A p \in Periods : Totals(rows)[p].missing = 0
  <2> TAKE p \in Periods
  <2>1. "missing" \in Counters
    BY DEF Counters
  <2>2. Totals(rows)[p]["missing"] = 0 <=> \A g \in DOMAIN rows : rows[g][p]["missing"] = 0
    BY <2>1, MissingInTotal
  <2> QED
    BY <2>2 DEF Clean
<1>4. CleanRow(Totals(rows))
  BY <1>3, TotalsOf DEF CleanRow
<1>5. \A S \in SUBSET DOMAIN rows : Grid([g \in S |-> rows[g]]) /\ Clean([g \in S |-> rows[g]])
  BY FS_Subset DEF Grid, Clean
<1> QED
  BY <1>2, <1>4, <1>5

LEMMA ChangeIsSum ==
  ASSUME NEW rows, Grid(rows), Clean(rows)
  PROVE  /\ Ints([g \in DOMAIN rows |-> Delta(rows[g])])
         /\ Delta(Totals(rows)) = Sum([g \in DOMAIN rows |-> Delta(rows[g])])
<1> DEFINE d == [g \in DOMAIN rows |-> Delta(rows[g])]
           f == Col(rows, "cur", "sum")
           h == Col(rows, "cmp", "sum")
<1>1. "cur" \in Periods /\ "cmp" \in Periods
  BY DEF Periods
<1>2. /\ Ints(f) /\ Column(rows, "cur", "sum") = Sum(f)
      /\ Ints(h) /\ Column(rows, "cmp", "sum") = Sum(h)
  BY <1>1, Columns
<1>3. /\ Totals(rows).cur.sum = Sum(f) /\ Totals(rows).cmp.sum = Sum(h)
  BY <1>1, <1>2, TotalsOf
<1>4. \A g \in DOMAIN rows : Delta(rows[g]) = rows[g].cur.sum - rows[g].cmp.sum /\ Delta(rows[g]) \in Int
  BY CleanRows, RowFigures
<1>5. Ints(d) /\ DOMAIN d = DOMAIN rows
  BY <1>4 DEF Ints, Grid
<1>6. /\ DOMAIN f = DOMAIN rows /\ DOMAIN h = DOMAIN rows
      /\ \A g \in DOMAIN f : d[g] = f[g] - h[g]
  BY <1>4 DEF Col
<1>7. Delta(Totals(rows)) = Totals(rows).cur.sum - Totals(rows).cmp.sum
  BY CleanRows, RowFigures
<1> HIDE DEF d, f, h
<1>8. Sum(d) = Sum(f) - Sum(h)
  BY <1>2, <1>5, <1>6, SumOfDifferences
<1> QED
  BY <1>3, <1>5, <1>7, <1>8 DEF d

(* The windows over a clean partition prove exactly its totals.            *)
LEMMA WindowOfAll ==
  ASSUME NEW f, Ints(f), DOMAIN f # {}
  PROVE  Window(f) = Sum(f)
<1>1. {x \in DOMAIN f : f[x] # Null} = DOMAIN f
  BY NullIsNoFigure DEF Ints
<1>2. [x \in DOMAIN f |-> f[x]] = f
  BY DEF Ints
<1> QED
  BY <1>1, <1>2 DEF Window

LEMMA ProofOfClean ==
  ASSUME NEW rows, Grid(rows), Clean(rows), DOMAIN rows # {}, NEW n \in Nat, Cardinality(DOMAIN rows) > n
  PROVE  Proof(rows, n) = [triplet |-> Triplet(Totals(rows)), counts |-> Counts(Totals(rows)),
                           size |-> Cardinality(DOMAIN rows)]
<1> DEFINE d == [g \in DOMAIN rows |-> Delta(rows[g])]
           f == [g \in DOMAIN rows |-> Value(rows[g].cur)]
           h == [g \in DOMAIN rows |-> Value(rows[g].cmp)]
<1>1. "cur" \in Periods /\ "cmp" \in Periods
  BY DEF Periods
<1>2. \A g \in DOMAIN rows : Value(rows[g].cur) = rows[g].cur.sum /\ Value(rows[g].cmp) = rows[g].cmp.sum
  BY CleanRows, RowFigures
<1>3. f = Col(rows, "cur", "sum") /\ h = Col(rows, "cmp", "sum")
  BY <1>2 DEF Col
<1>4. Ints(f) /\ Ints(h) /\ DOMAIN f = DOMAIN rows /\ DOMAIN h = DOMAIN rows
  BY <1>1, <1>3, Columns
<1>5. Totals(rows).cur.sum = Sum(f) /\ Totals(rows).cmp.sum = Sum(h)
  BY <1>1, <1>3, Columns, TotalsOf
<1>6. Ints(d) /\ DOMAIN d = DOMAIN rows /\ Delta(Totals(rows)) = Sum(d)
  BY ChangeIsSum
<1>7. /\ Delta(Totals(rows)) = Totals(rows).cur.sum - Totals(rows).cmp.sum
      /\ Triplet(Totals(rows)) = <<Totals(rows).cur.sum, Totals(rows).cmp.sum,
                                   Totals(rows).cur.sum - Totals(rows).cmp.sum>>
  BY CleanRows, RowFigures
<1>8. Sum(f) \in Int /\ Sum(h) \in Int /\ Sum(d) \in Int
  BY <1>4, <1>6, SumType
<1>9. Window(f) = Sum(f) /\ Window(h) = Sum(h) /\ Window(d) = Sum(d)
  <2> HIDE DEF d, f, h
  <2> QED
    BY <1>4, <1>6, WindowOfAll
<1>10. Sum(d) = Sum(f) - Sum(h)
  BY <1>5, <1>6, <1>7
<1>11. Null \notin {Window(f), Window(h), Window(d)}
  BY <1>8, <1>9, NullIsNoFigure
<1>12. IsFiniteSet(DOMAIN rows) /\ Cardinality(DOMAIN rows) \in Nat
  BY FS_CardinalityType DEF Grid
<1>13. Proof(rows, n) =
         IF Null \in {Window(f), Window(h), Window(d)} THEN Null
         ELSE IF Window(d) # Window(f) - Window(h) \/ Cardinality(DOMAIN rows) <= n THEN Null
         ELSE [triplet |-> <<Window(f), Window(h), Window(d)>>, counts |-> Counts(Totals(rows)),
               size |-> Cardinality(DOMAIN rows)]
  BY DEF Proof
<1> HIDE DEF d, f, h
<1>14. ~(Window(d) # Window(f) - Window(h) \/ Cardinality(DOMAIN rows) <= n)
  BY <1>9, <1>10, <1>12
<1>15. <<Window(f), Window(h), Window(d)>> = Triplet(Totals(rows))
  BY <1>5, <1>7, <1>9, <1>10
<1> QED
  BY <1>11, <1>13, <1>14, <1>15

-----------------------------------------------------------------------------
(* Two answers of one snapshot are the totals and the rows of one table.   *)
LEMMA OverallFields ==
  ASSUME NEW T
  PROVE  LET o == OverallOf(T)
         IN /\ Succeeded(o) /\ o.marker = Marker /\ o.scope = Members
            /\ WholeRow(o) = Totals(T)
BY DEF OverallOf, Result, Succeeded, WholeRow

LEMMA PartitionFields ==
  ASSUME NEW T, NEW scope, NEW R \in SUBSET Present(T, scope)
  PROVE  LET p == PartitionOf(T, scope, R)
         IN /\ Succeeded(p) /\ p.status = "success" /\ p.marker = Marker /\ p.scope = scope
            /\ p.rows = [g \in R |-> T[g]] /\ DOMAIN p.rows = R
            /\ p.truncated = Cut(T, scope)
            /\ p.proof = IF Cut(T, scope) THEN Proof(RowsOf(T, scope), limit) ELSE Null
<1>1. [g \in R |-> RowsOf(T, scope)[g]] = [g \in R |-> T[g]]
  BY DEF RowsOf
<1> QED
  BY <1>1 DEF PartitionOf, Result, Succeeded

LEMMA RefusedFields ==
  ASSUME NEW s
  PROVE  Refused(s).status = s /\ Refused(s).marker = Null
BY DEF Refused, NoResult, Result

(* The pair of one snapshot that both succeeded.                           *)
Pair(P, scope, R) ==
    /\ P \in Filled /\ Chosen(P, scope, R) /\ P = read.overall /\ P = read.partition
    /\ overall = OverallOf(P) /\ partition = PartitionOf(P, scope, R)
    /\ Grid(P) /\ DOMAIN P = Members /\ scope \subseteq Members /\ R \subseteq scope

LEMMA PairIs ==
  ASSUME IInv, stage \notin {"overall", "partition"}, grouped,
         Succeeded(overall), Succeeded(partition)
  PROVE  \E scope \in SUBSET Members, R \in SUBSET Members : Pair(read.partition, scope, R)
<1>1. ~Declined /\ overall # Refused("failed") /\ partition # Refused("failed")
  BY RefusedFields DEF Declined, Succeeded
<1>2. read.overall \in Filled /\ overall = OverallOf(read.overall)
  BY <1>1 DEF IInv, HasRead, OverallKnown
<1>3. PICK scope \in SUBSET Members, R \in SUBSET Members :
        Chosen(read.partition, scope, R) /\ partition = PartitionOf(read.partition, scope, R)
  BY <1>1 DEF IInv, HasRead, PartitionKnown
<1>4. read.partition \in Filled /\ read.overall = read.partition
  BY <1>1 DEF IInv, HasRead, PartitionKnown
<1>5. R \subseteq scope
  BY <1>3 DEF Chosen, Present
<1>6. Grid(read.partition) /\ DOMAIN read.partition = Members
  BY <1>4, DecompositionAssumption DEF Grid, Filled
<1> QED
  BY <1>2, <1>3, <1>4, <1>5, <1>6 DEF Pair

(* Whatever is related was read in one snapshot over one scope, and        *)
(* nothing of it is missing.                                               *)
LEMMA RelatedPair ==
  ASSUME IInv, stage \notin {"overall", "partition"}, MayRelate(overall, partition)
  PROVE  \E R \in SUBSET Members : Pair(read.partition, Members, R) /\ Clean(read.partition)
<1>1. Succeeded(overall) /\ Succeeded(partition) /\ overall.marker # Null /\ overall.scope = partition.scope
  BY DEF MayRelate, OneSnapshot
<1>2. overall = OverallOf(read.overall)
  <2>1. ~Declined /\ overall # Refused("failed")
    BY <1>1, RefusedFields DEF Declined, Succeeded
  <2> QED
    BY <2>1 DEF IInv, HasRead, OverallKnown
<1>3. grouped
  BY <1>1, <1>2, OverallFields DEF Marker
<1>4. PICK scope \in SUBSET Members, R \in SUBSET Members : Pair(read.partition, scope, R)
  BY <1>1, <1>3, PairIs
<1> DEFINE P == read.partition
<1>5. R \in SUBSET Present(P, scope)
  BY <1>4 DEF Pair, Chosen
<1>6. overall.scope = Members /\ partition.scope = scope /\ WholeRow(overall) = Totals(P)
  <2>1. overall = OverallOf(P) /\ partition = PartitionOf(P, scope, R)
    BY <1>4 DEF Pair
  <2>2. overall.scope = Members /\ WholeRow(overall) = Totals(P)
    BY <2>1, OverallFields
  <2>3. PartitionOf(P, scope, R).scope = scope
    BY DEF PartitionOf, Result
  <2> QED
    BY <2>1, <2>2, <2>3
<1>7. scope = Members
  BY <1>1, <1>6
<1>8. Null \notin {Value(Totals(P).cur), Value(Totals(P).cmp)}
  BY <1>6 DEF MayRelate, Compares, Complete
<1>9. ASSUME NEW p \in Periods
      PROVE  \A g \in DOMAIN P : P[g][p].missing = 0
  <2>1. Value(Totals(P)[p]) # Null
    BY <1>8 DEF Periods
  <2>2. ~(Totals(P)[p].missing > 0) /\ Totals(P)[p].missing \in Nat
    BY <1>4, <2>1, TotalsOf DEF Value, Pair
  <2>3. "missing" \in Counters
    BY DEF Counters
  <2>4. Totals(P)[p]["missing"] = 0 <=> \A g \in DOMAIN P : P[g][p]["missing"] = 0
    BY <1>4, <2>3, MissingInTotal DEF Pair
  <2> QED
    BY <2>2, <2>4
<1>10. Clean(P)
  BY <1>9 DEF Clean
<1> QED
  BY <1>4, <1>7, <1>10

(* The relation's figures are those of the table, and its drivers with the *)
(* rest that was not returned make up the whole change.                    *)
LEMMA RelationSound ==
  ASSUME IInv, stage \in {"project", "done"}, IsSealed(recon)
  PROVE  SoundRelation
<1> DEFINE P == read.partition
<1>1. recon = pending /\ pending # Null
  BY DEF IInv, SealedOne, IsSealed
<1>2. MayRelate(overall, partition) /\ recon = Sealed(overall, partition)
  BY <1>1 DEF IInv, Judged
<1>3. PICK R \in SUBSET Members : Pair(P, Members, R) /\ Clean(P)
  BY <1>2, RelatedPair
<1>4. R \in SUBSET Present(P, Members)
  BY <1>3 DEF Pair, Chosen
<1>5. /\ partition.scope = Members /\ DOMAIN partition.rows = R
      /\ partition.rows = [g \in R |-> P[g]] /\ WholeRow(overall) = Totals(P)
      /\ \A g \in R : partition.rows[g] = P[g]
  BY <1>3, <1>4, OverallFields, PartitionFields DEF Pair
<1>6. Grid(P) /\ DOMAIN P = Members /\ read.overall = P /\ P = [g \in Members |-> P[g]]
  BY <1>3 DEF Pair, Grid
<1>7. \A g \in Members : Delta(P[g]) \in Int
  BY <1>3, <1>6, CleanRows, RowFigures
<1>8. /\ recon.overall = Triplet(Totals(P)) /\ recon.drivers = Moved(partition)
      /\ recon.unreturned = PartitionTriplet(partition)[3] - ReturnedTriplet(partition)[3]
  BY <1>2, <1>5 DEF Sealed
<1>9. recon.overall[3] = Delta(Totals(P)) /\ PartitionTriplet(partition)[3] = Delta(Totals(P))
  <2>1. Triplet(Totals(P)) = PartitionTriplet(partition)
    BY <1>2, <1>5 DEF MayRelate, Reconciles
  <2>2. Triplet(Totals(P))[3] = Delta(Totals(P))
    BY DEF Triplet
  <2> QED
    BY <1>8, <2>1, <2>2
<1>10. Delta(Totals(P)) # 0
  BY <1>2, <1>5 DEF MayRelate
<1>11. recon.drivers = {g \in R : Delta(P[g]) # 0}
  BY <1>5, <1>7, <1>8, NullIsNoFigure DEF Moved
<1>12. Sum([g \in recon.drivers |-> Delta(P[g])]) = ReturnedTriplet(partition)[3]
  <2> DEFINE rows == [g \in R |-> P[g]]
             d == [g \in DOMAIN rows |-> Delta(rows[g])]
             M == {g \in R : Delta(P[g]) # 0}
  <2>1. Grid(rows) /\ Clean(rows)
    BY <1>3, <1>6, CleanRows
  <2>2. Ints(d) /\ Delta(Totals(rows)) = Sum(d)
    BY <2>1, ChangeIsSum
  <2>3. DOMAIN d = R /\ M \in SUBSET DOMAIN d /\ \A g \in DOMAIN d \ M : d[g] = 0
    OBVIOUS
  <2>4. Restricted(d, M) = [g \in M |-> Delta(P[g])]
    BY DEF Restricted
  <2>5. ReturnedTriplet(partition)[3] = Delta(Totals(rows))
    BY <1>5 DEF ReturnedTriplet, Returned, Triplet
  <2> HIDE DEF d, rows
  <2>6. Sum(d) = Sum(Restricted(d, M))
    BY <2>2, <2>3, SumWithoutZeros
  <2>7. Sum([g \in M |-> Delta(P[g])]) = ReturnedTriplet(partition)[3]
    BY <2>2, <2>4, <2>5, <2>6
  <2>8. recon.drivers = M
    BY <1>11
  <2> HIDE DEF M
  <2> QED
    BY <2>7, <2>8
<1>13. ReturnedTriplet(partition)[3] \in Int /\ Delta(Totals(P)) \in Int
  <2>1. Delta(Totals(P)) \in Int
    BY <1>3, <1>6, CleanRows, RowFigures
  <2>2. Grid([g \in R |-> P[g]]) /\ Clean([g \in R |-> P[g]])
    BY <1>3, <1>6, CleanRows
  <2>3. Delta(Totals([g \in R |-> P[g]])) \in Int
    BY <2>2, CleanRows, RowFigures
  <2> QED
    BY <1>5, <2>1, <2>3 DEF ReturnedTriplet, Returned, Triplet
<1>14. Sum([g \in recon.drivers |-> Delta(P[g])]) + recon.unreturned = recon.overall[3]
  BY <1>8, <1>9, <1>12, <1>13
<1>15. [g \in partition.scope |-> read.partition[g]] = P
  BY <1>5, <1>6
<1>16. \A g \in DOMAIN P : \A p \in Periods : P[g][p].missing = 0
  BY <1>3 DEF Clean
<1> QED
  BY SMTT(30), <1>5, <1>6, <1>8, <1>9, <1>10, <1>11, <1>14, <1>15, <1>16 DEF SoundRelation

-----------------------------------------------------------------------------
(* States of cells and of rows.                                            *)
LEMMA StateOfCell ==
  ASSUME NEW c, c.known \in Nat, c.missing \in Nat, NEW none
  PROVE  /\ c.missing = 0 /\ c.known > 0 => CellState(c, none) = "complete"
         /\ c.missing = 0 /\ c.known = 0 => CellState(c, none) = none
         /\ c.missing > 0 => CellState(c, none) \notin {"complete", "not_present"}
<1>1. CASE c.missing = 0 /\ c.known > 0
  BY <1>1 DEF CellState
<1>2. CASE c.missing = 0 /\ c.known = 0
  BY <1>2 DEF CellState
<1>3. CASE c.missing > 0 /\ c.known > 0
  BY <1>3 DEF CellState
<1>4. CASE c.missing > 0 /\ c.known = 0
  BY <1>4 DEF CellState
<1> QED
  BY <1>1, <1>2, <1>3, <1>4

LEMMA CoveredRow ==
  ASSUME NEW row, \A p \in Periods : row[p].known \in Nat /\ row[p].missing \in Nat
  PROVE  /\ Coverage(row, "not_present") = "complete" <=> \A p \in Periods : row[p].missing = 0
         /\ Coverage(row, "missing") = "complete" <=>
              \A p \in Periods : row[p].missing = 0 /\ row[p].known > 0
         /\ \A none : Coverage(row, none) = "complete" <=> States(row, none) \subseteq {"complete", "not_present"}
<1>1. \A none : Coverage(row, none) = "complete" <=> States(row, none) \subseteq {"complete", "not_present"}
  BY DEF Coverage
<1>2. \A none : States(row, none) \subseteq {"complete", "not_present"} <=>
                  \A p \in Periods : CellState(row[p], none) \in {"complete", "not_present"}
  BY DEF States
<1>3. \A p \in Periods : CellState(row[p], "not_present") \in {"complete", "not_present"} <=> row[p].missing = 0
  <2> TAKE p \in Periods
  <2>1. CASE row[p].missing > 0
    BY <2>1, StateOfCell
  <2>2. CASE row[p].missing = 0 /\ row[p].known > 0
    BY <2>2, StateOfCell
  <2>3. CASE row[p].missing = 0 /\ row[p].known = 0
    BY <2>3, StateOfCell
  <2> QED
    BY <2>1, <2>2, <2>3
<1>4. \A p \in Periods : CellState(row[p], "missing") \in {"complete", "not_present"}
                           <=> row[p].missing = 0 /\ row[p].known > 0
  <2> TAKE p \in Periods
  <2>1. CASE row[p].missing > 0
    BY <2>1, StateOfCell
  <2>2. CASE row[p].missing = 0 /\ row[p].known > 0
    BY <2>2, StateOfCell
  <2>3. CASE row[p].missing = 0 /\ row[p].known = 0
    BY <2>3, StateOfCell
  <2> QED
    BY <2>1, <2>2, <2>3
<1> QED
  BY <1>1, <1>2, <1>3, <1>4

LEMMA CompleteRow ==
  ASSUME NEW row, CleanRow(row), NEW none, Coverage(row, none) = "complete"
  PROVE  Complete(row, none)
<1>1. Value(row.cur) # Null /\ Value(row.cmp) # Null
  BY RowFigures DEF Periods
<1>2. States(row, none) \subseteq {"complete", "not_present"}
  BY DEF Coverage
<1> QED
  BY <1>1, <1>2 DEF Complete

(* An expanded pair whose overall is covered: every rule of authorization  *)
(* that is about data holds for it.                                        *)
LEMMA CoveredPair ==
  ASSUME IInv, stage \notin {"overall", "partition"}, kind = "complete",
         Succeeded(overall), Succeeded(partition), OverallCoverage(overall) = "complete"
  PROVE  \E R \in SUBSET Members :
           /\ Pair(read.partition, Members, R) /\ Clean(read.partition) /\ R # {}
           /\ \A p \in Periods : Totals(read.partition)[p].known > 0
<1> DEFINE P == read.partition
<1>1. grouped
  BY DEF IInv, WellAsked
<1>2. PICK scope \in SUBSET Members, R \in SUBSET Members : Pair(P, scope, R)
  BY <1>1, PairIs
<1>3. scope = Members
  BY <1>2 DEF Pair, Chosen, Scopes
<1>4. WholeRow(overall) = Totals(P) /\ Grid(P) /\ DOMAIN P = Members /\ P \in Filled
  BY <1>2, OverallFields DEF Pair
<1>5. \A p \in Periods : Totals(P)[p].missing = 0 /\ Totals(P)[p].known > 0
  BY <1>4, TotalsOf, CoveredRow DEF OverallCoverage
<1>6. Clean(P)
  <2>1. \A p \in Periods : \A g \in DOMAIN P : P[g][p]["missing"] = 0
    BY <1>4, <1>5, MissingInTotal DEF Counters
  <2> QED
    BY <2>1 DEF Clean
<1>7. R # {}
  <2>1. "cur" \in Periods /\ "known" \in Counters
    BY DEF Periods, Counters
  <2>2. PICK g \in Members : P[g]["cur"]["known"] # 0
    <3>1. Totals(P)["cur"]["known"] # 0
      BY <1>5, <2>1
    <3> QED
      BY <1>4, <2>1, <3>1, MissingInTotal
  <2>3. g \in Present(P, Members)
    BY <2>1, <2>2, AbsentFacts DEF Present
  <2>4. IsFiniteSet(Present(P, Members)) /\ IsFiniteSet(R)
    BY <1>2, DecompositionAssumption, FS_Subset DEF Present
  <2>5. Cardinality(Present(P, Members)) # 0
    BY <2>3, <2>4, FS_EmptySet
  <2>6. Cardinality(R) # 0
    BY <1>2, <1>3, <2>5, DecompositionAssumption DEF Pair, Chosen, IInv, WellAsked
  <2> QED
    BY <2>6, FS_EmptySet
<1> QED
  BY <1>2, <1>3, <1>5, <1>6, <1>7

LEMMA ShownOf ==
  ASSUME NEW P \in Filled, Grid(P), DOMAIN P = Members, Clean(P)
  PROVE  LET rows == RowsOf(P, Members)
         IN /\ DOMAIN rows = Present(P, Members) /\ Grid(rows) /\ Clean(rows)
            /\ Totals(rows) = Totals(P)
<1>1. Present(P, Members) \in SUBSET DOMAIN P
  BY DEF Present
<1>2. \A g \in DOMAIN P \ Present(P, Members) : \A p \in Periods : P[g][p] = Absent
  BY DEF Present
<1>3. RowsOf(P, Members) = [g \in Present(P, Members) |-> P[g]]
  BY DEF RowsOf
<1>4. Totals([g \in Present(P, Members) |-> P[g]]) = Totals(P)
  BY <1>1, <1>2, TotalsOfPresent
<1>5. LET rows == [g \in Present(P, Members) |-> P[g]] IN Grid(rows) /\ Clean(rows)
  BY <1>1, CleanRows
<1> QED
  BY <1>3, <1>4, <1>5

LEMMA FiguresType ==
  ASSUME NEW rows, Grid(rows), Clean(rows)
  PROVE  /\ Triplet(Totals(rows)) \in Int \X Int \X Int
         /\ Counts(Totals(rows)) \in [{"cur", "cmp"} -> Nat \X Nat]
<1>1. CleanRow(Totals(rows))
  BY CleanRows
<1>2. Triplet(Totals(rows)) \in Int \X Int \X Int
  BY <1>1, RowFigures DEF CleanRow, Periods
<1>3. Counts(Totals(rows)) \in [{"cur", "cmp"} -> Nat \X Nat]
  BY TotalsOf DEF Counts, Periods
<1> QED
  BY <1>2, <1>3

(* The figures of the partition are those of the table: of the rows when   *)
(* all are returned, of the window proof when they are cut.                *)
LEMMA PartitionFigures ==
  ASSUME NEW P, NEW R \in SUBSET Members, Pair(P, Members, R), Clean(P), limit \in Limits, R # {}
  PROVE  /\ partition.truncated => Proven(partition)
         /\ PartitionCounts(partition) = Counts(Totals(P))
         /\ PartitionTriplet(partition) = Triplet(Totals(P))
<1> DEFINE rows == RowsOf(P, Members)
           rec == [triplet |-> Triplet(Totals(P)), counts |-> Counts(Totals(P)),
                   size |-> Cardinality(DOMAIN rows)]
<1>1. P \in Filled /\ Grid(P) /\ DOMAIN P = Members /\ R \in SUBSET Present(P, Members)
  BY DEF Pair, Chosen
<1>2. DOMAIN rows = Present(P, Members) /\ Grid(rows) /\ Clean(rows) /\ Totals(rows) = Totals(P)
  BY <1>1, ShownOf
<1>3. /\ partition.rows = [g \in R |-> P[g]] /\ partition.truncated = Cut(P, Members)
      /\ partition.proof = IF Cut(P, Members) THEN Proof(rows, limit) ELSE Null
  <2>1. partition = PartitionOf(P, Members, R)
    BY DEF Pair
  <2> HIDE DEF rows
  <2>2. /\ PartitionOf(P, Members, R).rows = [g \in R |-> P[g]]
        /\ PartitionOf(P, Members, R).truncated = Cut(P, Members)
    BY <1>1, PartitionFields
  <2>3. PartitionOf(P, Members, R).proof = IF Cut(P, Members) THEN Proof(rows, limit) ELSE Null
    BY DEF PartitionOf, Result, rows
  <2> QED
    BY <2>1, <2>2, <2>3
<1>4. limit \in Nat /\ limit > 0
  BY DecompositionAssumption
<1>5. IsFiniteSet(Present(P, Members)) /\ Cardinality(Present(P, Members)) \in Nat
  BY <1>2, FS_CardinalityType DEF Grid
<1>6. CASE Cut(P, Members)
  <2>1. Cardinality(DOMAIN rows) > limit
    BY <1>2, <1>6 DEF Cut
  <2>2. DOMAIN rows # {}
    BY <1>1, <1>2
  <2> HIDE DEF rows
  <2>3. Proof(rows, limit) = rec
    BY <1>2, <1>4, <2>1, <2>2, ProofOfClean
  <2>4. rec # Null
    <3>1. rec \in [triplet : Int \X Int \X Int, counts : [{"cur", "cmp"} -> Nat \X Nat], size : Nat]
      BY <1>1, <1>2, <1>5, FiguresType
    <3> QED
      BY <3>1, DecompositionAssumption
  <2>5. Proven(partition) /\ partition.proof = rec
    BY <1>3, <1>6, <2>3, <2>4 DEF Proven
  <2>6. partition.proof.counts = Counts(Totals(P)) /\ partition.proof.triplet = Triplet(Totals(P))
    BY <2>5
  <2> QED
    BY <2>5, <2>6 DEF PartitionCounts, PartitionTriplet
<1>7. CASE ~Cut(P, Members)
  <2>1. Cardinality(R) = Cardinality(Present(P, Members))
    BY <1>7 DEF Pair, Chosen
  <2>2. R = Present(P, Members)
    BY <1>1, <1>5, <2>1, FS_Subset
  <2>3. partition.rows = rows
    BY <1>3, <2>2 DEF RowsOf
  <2>4. ~partition.truncated /\ ~Proven(partition)
    BY <1>3, <1>7 DEF Proven
  <2> HIDE DEF rows
  <2>5. Returned(partition) = Totals(P)
    BY SMTT(30), <1>2, <2>3 DEF Returned
  <2> QED
    BY <2>4, <2>5 DEF PartitionCounts, PartitionTriplet
<1> QED
  BY <1>6, <1>7

LEMMA CoveredIsGood ==
  ASSUME IInv, stage \notin {"overall", "partition"}, kind = "complete",
         Succeeded(overall), Succeeded(partition), OverallCoverage(overall) = "complete"
  PROVE  /\ allowed /\ OneSnapshot(overall, partition) /\ overall.scope = partition.scope
         /\ partition.truncated => Proven(partition)
         /\ DOMAIN partition.rows # {} /\ RowsCovered(partition)
         /\ Complete(WholeRow(overall), "missing")
         /\ \A g \in DOMAIN partition.rows : Complete(partition.rows[g], "not_present")
         /\ Reconciles(overall, partition)
         /\ WholeRow(overall) = Totals(read.partition) /\ read.overall = read.partition
         /\ read.partition = [g \in Members |-> read.partition[g]]
<1> DEFINE P == read.partition
<1>1. PICK R \in SUBSET Members :
        /\ Pair(P, Members, R) /\ Clean(P) /\ R # {}
        /\ \A p \in Periods : Totals(P)[p].known > 0
  BY CoveredPair
<1>2. /\ R \in SUBSET Present(P, Members) /\ overall = OverallOf(P) /\ partition = PartitionOf(P, Members, R)
      /\ P \in Filled /\ Grid(P) /\ DOMAIN P = Members /\ read.overall = P
  BY <1>1 DEF Pair, Chosen
<1>3. /\ overall.marker = Marker /\ overall.scope = Members /\ WholeRow(overall) = Totals(P)
  BY <1>2, OverallFields
<1>4. /\ PartitionOf(P, Members, R).marker = Marker /\ PartitionOf(P, Members, R).scope = Members
      /\ PartitionOf(P, Members, R).rows = [g \in R |-> P[g]]
  BY <1>2, PartitionFields
<1>5. DOMAIN partition.rows = R /\ \A g \in R : partition.rows[g] = P[g]
  BY <1>2, <1>4
<1>6. grouped /\ limit \in Limits
  BY DEF IInv, WellAsked
<1>7. OneSnapshot(overall, partition)
  <2>1. Marker = "snapshot" /\ "snapshot" # Null
    BY <1>6, NullIsNoFigure DEF Marker
  <2>2. overall.marker = Marker /\ partition.marker = Marker
    BY <1>2, <1>3, <1>4
  <2> QED
    BY <2>1, <2>2 DEF OneSnapshot
<1>8. allowed
  <2>1. ~Declined /\ overall # Refused("failed")
    BY RefusedFields DEF Declined, Succeeded
  <2> QED
    BY <2>1 DEF IInv, HasRead, OverallKnown
<1>9. /\ partition.truncated => Proven(partition)
      /\ PartitionCounts(partition) = Counts(Totals(P))
      /\ PartitionTriplet(partition) = Triplet(Totals(P))
  BY <1>1, <1>6, PartitionFigures
<1>10. Reconciles(overall, partition)
  BY <1>3, <1>9 DEF Reconciles
<1>11. \A g \in Members : CleanRow(P[g])
  BY <1>1, <1>2, CleanRows
<1>12. \A g \in Members : Coverage(P[g], "not_present") = "complete"
  <2> TAKE g \in Members
  <2>1. \A p \in Periods : P[g][p] \in Cells
    BY <1>2 DEF Grid, Pairs
  <2>2. \A p \in Periods : P[g][p].known \in Nat /\ P[g][p].missing \in Nat /\ P[g][p].missing = 0
    BY <1>11, <2>1, CellFacts DEF CleanRow
  <2> QED
    BY <2>2, CoveredRow
<1>13. RowsCovered(partition)
  BY <1>5, <1>12 DEF RowsCovered
<1>14. \A g \in DOMAIN partition.rows : Complete(partition.rows[g], "not_present")
  BY <1>5, <1>11, <1>12, CompleteRow
<1>15. Complete(WholeRow(overall), "missing")
  <2>1. CleanRow(Totals(P))
    BY <1>1, <1>2, CleanRows
  <2> QED
    BY <1>3, <2>1, CompleteRow DEF OverallCoverage
<1>16. overall.scope = partition.scope
  BY <1>2, <1>3, <1>4
<1>17. P = [g \in Members |-> P[g]]
  BY <1>2 DEF Grid
<1> QED
  BY <1>1, <1>2, <1>3, <1>5, <1>7, <1>8, <1>9, <1>10, <1>13, <1>14, <1>15, <1>16, <1>17

-----------------------------------------------------------------------------
(* The four writings of the rules.                                         *)
LEMMA RelatedIsValid ==
  ASSUME IInv, stage \in {"project", "done"}, kind = "complete", IsSealed(recon)
  PROVE  Validated(partition, recon)
<1> DEFINE P == read.partition
<1>1. recon = pending /\ pending # Null /\ pending.drivers # {}
  BY DEF IInv, SealedOne, IsSealed
<1>2. MayRelate(overall, partition) /\ recon = Sealed(overall, partition)
  BY <1>1 DEF IInv, Judged
<1>3. PICK R \in SUBSET Members : Pair(P, Members, R) /\ Clean(P)
  BY <1>2, RelatedPair
<1>4. /\ R \in SUBSET Present(P, Members) /\ overall = OverallOf(P) /\ partition = PartitionOf(P, Members, R)
      /\ Grid(P) /\ DOMAIN P = Members
  BY <1>3 DEF Pair, Chosen
<1>5. WholeRow(overall) = Totals(P) /\ overall.scope = Members
  BY <1>4, OverallFields
<1>6. PartitionOf(P, Members, R).rows = [g \in R |-> P[g]] /\ PartitionOf(P, Members, R).scope = Members
  BY <1>4, PartitionFields
<1>7. partition.rows = [g \in R |-> P[g]] /\ partition.scope = Members /\ DOMAIN partition.rows = R
  BY <1>4, <1>6
<1>8. /\ DOMAIN partition.rows # {} /\ OverallCoverage(overall) = "complete"
      /\ Counts(Totals(P)) = PartitionCounts(partition)
      /\ Triplet(Totals(P)) = PartitionTriplet(partition)
      /\ partition.truncated => Proven(partition)
  BY <1>2, <1>5 DEF MayRelate, Reconciles
<1>9. /\ recon.operation = "complete" /\ recon.drivers # {} /\ recon.counts = Counts(Totals(P))
      /\ recon.all = PartitionCounts(partition) /\ recon.returned = Counts(Returned(partition))
      /\ recon.scope = Members /\ recon.overall = Triplet(Totals(P))
      /\ recon.sums = PartitionTriplet(partition)
  BY <1>1, <1>2, <1>5 DEF Sealed
<1>10. \A q \in Periods : Totals(P)[q].missing = 0 /\ Totals(P)[q].known > 0
  BY <1>4, <1>5, <1>8, TotalsOf, CoveredRow DEF OverallCoverage
<1>11. \A q \in Periods : recon.counts[q][1] = 0 /\ recon.counts[q][2] > 0
  BY <1>9, <1>10 DEF Counts
<1>12. ASSUME partition.truncated, NEW q \in Periods
       PROVE  recon.returned[q][1] <= recon.all[q][1] /\ recon.returned[q][2] <= recon.all[q][2]
  <2> DEFINE some == Totals([g \in R |-> P[g]])
  <2>1. recon.all = Counts(Totals(P)) /\ recon.returned = Counts(some)
    BY <1>7, <1>8, <1>9 DEF Returned
  <2>2. some[q]["missing"] <= Totals(P)[q]["missing"] /\ some[q]["known"] <= Totals(P)[q]["known"]
    BY <1>3, <1>4, CountsOfPart DEF Counters
  <2> HIDE DEF some
  <2> QED
    BY <2>1, <2>2 DEF Counts
<1>13. ~partition.truncated => recon.returned = recon.all
  BY <1>9 DEF PartitionCounts, Proven
<1> QED
  BY <1>7, <1>8, <1>9, <1>11, <1>12, <1>13 DEF Validated

LEMMA SealedIsRecord ==
  ASSUME IInv, stage \notin {"overall", "partition"}, MayRelate(overall, partition)
  PROVE  Sealed(overall, partition) # Null
<1> DEFINE P == read.partition
           s == Sealed(overall, partition)
<1>1. PICK R \in SUBSET Members : Pair(P, Members, R) /\ Clean(P)
  BY RelatedPair
<1>2. /\ R \in SUBSET Present(P, Members) /\ overall = OverallOf(P) /\ partition = PartitionOf(P, Members, R)
      /\ Grid(P) /\ DOMAIN P = Members
  BY <1>1 DEF Pair, Chosen
<1>3. WholeRow(overall) = Totals(P) /\ overall.scope = Members
  BY <1>2, OverallFields
<1>4. PartitionOf(P, Members, R).rows = [g \in R |-> P[g]]
  BY <1>2, PartitionFields
<1>5. partition.rows = [g \in R |-> P[g]] /\ DOMAIN partition.rows = R
  BY <1>2, <1>4
<1>6. Counts(Totals(P)) = PartitionCounts(partition) /\ Triplet(Totals(P)) = PartitionTriplet(partition)
  BY <1>3 DEF MayRelate, Reconciles
<1>7. Grid(partition.rows) /\ Clean(partition.rows)
  BY <1>1, <1>2, <1>5, CleanRows
<1>8. /\ Triplet(Totals(P)) \in Int \X Int \X Int /\ ReturnedTriplet(partition) \in Int \X Int \X Int
      /\ Counts(Totals(P)) \in [{"cur", "cmp"} -> Nat \X Nat]
      /\ Counts(Returned(partition)) \in [{"cur", "cmp"} -> Nat \X Nat]
  BY <1>1, <1>2, <1>7, FiguresType DEF ReturnedTriplet, Returned
<1>9. PartitionTriplet(partition)[3] - ReturnedTriplet(partition)[3] \in Int
  BY <1>6, <1>8
<1>10. Moved(partition) \in SUBSET Members
  BY <1>5 DEF Moved
<1>11. kind \in {"complete", "linked"}
  BY DEF IInv, WellAsked
<1>12. s \in [operation : {"complete", "linked"}, scope : SUBSET Members, overall : Int \X Int \X Int,
              sums : Int \X Int \X Int, unreturned : Int, drivers : SUBSET Members,
              counts : [{"cur", "cmp"} -> Nat \X Nat], all : [{"cur", "cmp"} -> Nat \X Nat],
              returned : [{"cur", "cmp"} -> Nat \X Nat]]
  BY <1>3, <1>6, <1>8, <1>9, <1>10, <1>11 DEF Sealed
<1> QED
  BY <1>12, DecompositionAssumption

(* A pair that is covered, comparable and moved is related.                *)
LEMMA GoodIsSealed ==
  ASSUME IInv, stage \in {"project", "done"}, kind = "complete",
         Succeeded(overall), Succeeded(partition), comparable,
         OverallCoverage(overall) = "complete", Delta(WholeRow(overall)) # 0, Moved(partition) # {}
  PROVE  IsSealed(recon)
<1>1. MayRelate(overall, partition)
  BY CoveredIsGood DEF MayRelate, Compares
<1>2. pending = Sealed(overall, partition) /\ pending # Null
  BY <1>1, SealedIsRecord DEF IInv, Judged
<1>3. pending.drivers # {} /\ "operation" \in DOMAIN pending
  BY <1>2 DEF Sealed
<1>4. recon = pending
  BY <1>2, <1>3 DEF IInv, SealedOne
<1> QED
  BY <1>2, <1>3, <1>4 DEF IsSealed

LEMMA GoodIsServed == IInv => ServedWhenSound
<1> SUFFICES ASSUME IInv, Done, kind = "complete"
             PROVE  /\ wire.status # "invalid"
                    /\ ( /\ Succeeded(overall) /\ Succeeded(partition) /\ comparable
                         /\ OverallCoverage(overall) = "complete"
                         /\ Delta(WholeRow(overall)) # 0 /\ Moved(partition) # {} )
                       => Displays
  BY DEF ServedWhenSound
<1>1. stage = "done" /\ Projected
  BY DEF Done, IInv
<1>2. IsSealed(recon) => Validated(partition, recon)
  BY <1>1, RelatedIsValid
<1>3. wire = IF ~Succeeded(partition) THEN [status |-> "failed", relation |-> Null]
             ELSE [status |-> "success", relation |-> recon]
  BY <1>1, <1>2 DEF Projected
<1>4. wire.status # "invalid"
  BY <1>3
<1>5. ASSUME Succeeded(overall), Succeeded(partition), comparable,
             OverallCoverage(overall) = "complete",
             Delta(WholeRow(overall)) # 0, Moved(partition) # {}
      PROVE  Displays
  <2>1. IsSealed(recon)
    BY <1>1, <1>5, GoodIsSealed
  <2>2. wire.status = "success" /\ wire.relation = recon
    BY <1>3, <1>5
  <2> QED
    BY <2>1, <2>2 DEF Displays, Done
<1> QED
  BY <1>4, <1>5

(* The reason a complete decomposition is given is a fact of the table.    *)
LEMMA CoverageFact ==
  ASSUME NEW P, Grid(P), Coverage(Totals(P), "missing") # "complete"
  PROVE  \E p \in Periods : \/ \E g \in DOMAIN P : P[g][p].missing > 0
                            \/ \A g \in DOMAIN P : P[g][p] = Absent
<1>1. \A p \in Periods : Totals(P)[p].known \in Nat /\ Totals(P)[p].missing \in Nat
  BY TotalsOf
<1>2. PICK p \in Periods : ~(Totals(P)[p].missing = 0 /\ Totals(P)[p].known > 0)
  BY <1>1, CoveredRow
<1>3. \A g \in DOMAIN P : P[g][p] \in Cells
  BY DEF Grid, Pairs
<1>4. "missing" \in Counters /\ "known" \in Counters
  BY DEF Counters
<1>5. CASE Totals(P)[p]["missing"] # 0
  <2>1. PICK g \in DOMAIN P : P[g][p]["missing"] # 0
    BY <1>4, <1>5, MissingInTotal
  <2>2. P[g][p].missing > 0
    BY <1>3, <2>1, CellFacts
  <2> QED
    BY <2>2
<1>6. CASE Totals(P)[p]["missing"] = 0
  <2>1. Totals(P)[p]["known"] = 0
    BY <1>1, <1>2, <1>6
  <2>2. \A g \in DOMAIN P : P[g][p]["missing"] = 0
    BY <1>4, <1>6, MissingInTotal
  <2>3. \A g \in DOMAIN P : P[g][p]["known"] = 0
    BY <1>4, <2>1, MissingInTotal
  <2>4. \A g \in DOMAIN P : P[g][p] = Absent
    BY <1>3, <2>2, <2>3, CellFacts
  <2> QED
    BY <2>4
<1> QED
  BY <1>5, <1>6

LEMMA RefusedReason ==
  ASSUME IInv, stage = "done", recon # Null, ~IsSealed(recon)
  PROVE  /\ kind = "complete" /\ recon.reason = Reason(overall, partition)
         /\ comparable /\ Succeeded(overall) /\ Succeeded(partition) /\ OverallCoverage(overall) = "complete"
              /\ Delta(WholeRow(overall)) # 0 => Moved(partition) = {}
<1>1. recon # pending
  BY DEF IInv, SealedOne, Judged, Sealed, IsSealed
<1>2. kind = "complete" /\ recon = [reason |-> Reason(overall, partition)]
  BY <1>1 DEF IInv, SealedOne
<1>3. recon.reason = Reason(overall, partition)
  BY <1>2
<1> QED
  BY <1>2, <1>3, GoodIsSealed

LEMMA ReasonIsTrue == IInv => ReasonTrue
<1> DEFINE T == [g \in Members |-> read.partition[g]]
           r == Reason(overall, partition)
<1> SUFFICES ASSUME IInv, Done, recon # Null, ~IsSealed(recon)
             PROVE  CASE recon.reason = "OPERATION_NOT_AUTHORIZED" -> ~allowed
                      [] recon.reason = "OVERALL_QUERY_UNAVAILABLE" -> read.overall = Null
                      [] recon.reason = "PARTITION_QUERY_UNAVAILABLE" -> read.partition = Null
                      [] recon.reason = "DATA_COVERAGE_INCOMPLETE" ->
                           \E p \in Periods : \/ \E g \in Members : T[g][p].missing > 0
                                              \/ \A g \in Members : T[g][p] = Absent
                      [] recon.reason = "OVERALL_CHANGE_ZERO" -> Delta(Totals(T)) = 0
                      [] recon.reason = "RECONCILIATION_NOT_ESTABLISHED" ->
                           ~comparable \/ Moved(partition) = {}
                      [] OTHER -> FALSE
  BY DEF ReasonTrue
<1>1. stage = "done" /\ kind = "complete" /\ recon.reason = r
  BY RefusedReason DEF Done
<1>2. Declined \/ (OverallKnown /\ PartitionKnown)
  BY <1>1 DEF IInv, HasRead
<1>3. CASE Declined
  <2>1. partition.status = "unsupported" /\ ~allowed
    BY <1>3, RefusedFields DEF Declined
  <2>2. recon.reason = "OPERATION_NOT_AUTHORIZED"
    BY <1>1, <2>1 DEF Reason
  <2> QED
    BY <2>1, <2>2
<1>4. CASE OverallKnown /\ PartitionKnown
  <2>1. partition.status # "unsupported"
    <3>1. CASE partition = Refused("failed")
      BY <3>1, RefusedFields
    <3>2. CASE partition # Refused("failed")
      <4>1. PICK scope \in SUBSET Members, R \in SUBSET Members :
              Chosen(read.partition, scope, R) /\ partition = PartitionOf(read.partition, scope, R)
        BY <1>4, <3>2 DEF PartitionKnown
      <4>2. PartitionOf(read.partition, scope, R).status = "success"
        BY DEF PartitionOf, Result
      <4> QED
        BY <4>1, <4>2
    <3> QED
      BY <3>1, <3>2
  <2>2. CASE ~Succeeded(overall)
    <3>1. recon.reason = "OVERALL_QUERY_UNAVAILABLE"
      BY <1>1, <2>1, <2>2 DEF Reason
    <3>2. read.overall = Null
      BY <1>4, <2>2, OverallFields DEF OverallKnown
    <3> QED
      BY <3>1, <3>2
  <2>3. CASE Succeeded(overall) /\ ~Succeeded(partition)
    <3>1. recon.reason = "PARTITION_QUERY_UNAVAILABLE"
      BY <1>1, <2>1, <2>3 DEF Reason
    <3>2. read.partition = Null
      <4>1. \A P, scope, R : Succeeded(PartitionOf(P, scope, R))
        BY DEF PartitionOf, Result, Succeeded
      <4> QED
        BY <1>4, <2>3, <4>1 DEF PartitionKnown
    <3> QED
      BY <3>1, <3>2
  <2>4. CASE Succeeded(overall) /\ Succeeded(partition)
    <3> DEFINE P == read.partition
    <3>1. grouped
      BY <1>1 DEF IInv, WellAsked
    <3>2. PICK scope \in SUBSET Members, R \in SUBSET Members : Pair(P, scope, R)
      BY <1>1, <2>4, <3>1, PairIs
    <3>3. scope = Members
      BY <1>1, <3>2 DEF Pair, Chosen, Scopes
    <3>4. /\ R \in SUBSET Present(P, Members) /\ overall = OverallOf(P) /\ partition = PartitionOf(P, Members, R)
          /\ Grid(P) /\ DOMAIN P = Members /\ T = P
      BY <3>2, <3>3 DEF Pair, Chosen, Grid
    <3>5. overall.marker = Marker /\ overall.scope = Members /\ WholeRow(overall) = Totals(P)
      BY <3>4, OverallFields
    <3>6. PartitionOf(P, Members, R).marker = Marker /\ PartitionOf(P, Members, R).scope = Members
      BY DEF PartitionOf, Result
    <3>7. OneSnapshot(overall, partition) /\ overall.scope = partition.scope
      <4>1. Marker = "snapshot" /\ "snapshot" # Null
        BY <3>1, NullIsNoFigure DEF Marker
      <4> QED
        BY <3>4, <3>5, <3>6, <4>1 DEF OneSnapshot
    <3>8. r = IF CoverageReason(overall, partition) # Null THEN CoverageReason(overall, partition)
              ELSE ValueReason(overall, partition)
      BY <2>1, <2>4, <3>7 DEF Reason
    <3>9. CASE OverallCoverage(overall) # "complete"
      <4>1. r = "DATA_COVERAGE_INCOMPLETE"
        BY <3>8, <3>9, DecompositionAssumption DEF CoverageReason
      <4>2. \E p \in Periods : \/ \E g \in Members : P[g][p].missing > 0
                               \/ \A g \in Members : P[g][p] = Absent
        BY <3>4, <3>5, <3>9, CoverageFact DEF OverallCoverage
      <4> QED
        BY <1>1, <3>4, <4>1, <4>2
    <3>10. CASE OverallCoverage(overall) = "complete"
      <4>1. /\ partition.truncated => Proven(partition)
            /\ DOMAIN partition.rows # {} /\ RowsCovered(partition)
            /\ Complete(WholeRow(overall), "missing")
            /\ \A g \in DOMAIN partition.rows : Complete(partition.rows[g], "not_present")
            /\ Reconciles(overall, partition)
        BY <1>1, <2>4, <3>10, CoveredIsGood
      <4>2. ~(partition.truncated /\ partition.proof = Null)
        BY <4>1 DEF Proven
      <4>3. CoverageReason(overall, partition) = Null
        BY <3>10, <4>1, <4>2 DEF CoverageReason, Reconciles
      <4>4. r = IF Delta(WholeRow(overall)) = 0 THEN "OVERALL_CHANGE_ZERO"
                ELSE "RECONCILIATION_NOT_ESTABLISHED"
        BY <3>8, <4>1, <4>2, <4>3 DEF ValueReason, Reconciles
      <4>5. CASE Delta(WholeRow(overall)) = 0
        BY <1>1, <3>4, <3>5, <4>4, <4>5
      <4>6. CASE Delta(WholeRow(overall)) # 0
        <5>1. recon.reason = "RECONCILIATION_NOT_ESTABLISHED"
          BY <1>1, <4>4, <4>6
        <5>2. ~comparable \/ Moved(partition) = {}
          BY <1>1, <2>4, <3>10, <4>6, RefusedReason
        <5> QED
          BY <5>1, <5>2
      <4> QED
        BY <4>5, <4>6
    <3> QED
      BY <3>9, <3>10
  <2> QED
    BY <2>2, <2>3, <2>4
<1> QED
  BY <1>2, <1>3, <1>4

(* Every relationship between a change and its parts that is sealed is     *)
(* true of one state of the database, for any groups, amounts and limits;  *)
(* and the four writings of the rules agree: what authorization seals is   *)
(* served, and the reason for refusing the rest is a fact of the table.    *)
THEOREM RelationsAreTrue == Spec => []RelationTrue
<1>1. IInv => SoundRelation
  <2>1. ASSUME IInv, stage \notin {"project", "done"}
        PROVE  ~IsSealed(recon)
    BY <2>1 DEF IInv, IsSealed
  <2>2. ASSUME IInv, ~IsSealed(recon)
        PROVE  SoundRelation
    BY <2>2 DEF SoundRelation
  <2> QED
    BY <2>1, <2>2, RelationSound
<1>2. IInv => RelationTrue
  BY <1>1, GoodIsServed, ReasonIsTrue DEF RelationTrue, RulesAgree
<1> QED
  BY Invariance, <1>2, PTL

-----------------------------------------------------------------------------
(* The calendar.                                                           *)
LEMMA LesserOfTwo ==
  ASSUME NEW a \in Int, NEW b \in Int
  PROVE  Min({a, b}) = IF a <= b THEN a ELSE b
<1> DEFINE Least(x) == x \in {a, b} /\ \A y \in {a, b} : x <= y
<1>1. \E x : Least(x)
  <2>1. CASE a <= b
    BY <2>1
  <2>2. CASE ~(a <= b)
    BY <2>2
  <2> QED
    BY <2>1, <2>2
<1>2. Least(CHOOSE x : Least(x))
  BY <1>1
<1>3. Min({a, b}) = CHOOSE x : Least(x)
  BY DEF Min
<1> HIDE DEF Least
<1>4. Least(Min({a, b}))
  BY <1>2, <1>3
<1> QED
  BY <1>4 DEF Least

LEMMA DayIsInt ==
  ASSUME NEW d, d[1] \in Int, d[2] \in 1..12, d[3] \in Int
  PROVE  DayNumber(d) \in Int
<1> DEFINE y == d[1] - 1
<1>1. DaysBefore(d[1], d[2]) \in Int
  BY DEF DaysBefore
<1>2. /\ y \in Int /\ y \div 4 \in Int /\ y \div 100 \in Int /\ y \div 400 \in Int
  OBVIOUS
<1> QED
  BY <1>1, <1>2 DEF DayNumber

LEMMA EarlierIsDate ==
  ASSUME NEW d \in Dates
  PROVE  LET e == YearEarlier(d) IN e[1] \in Int /\ e[2] \in 1..12 /\ e[3] \in Int
<1>1. MonthLength(d[1] - 1, d[2]) \in Int /\ d[3] \in Int
  BY DEF MonthLength, Dates
<1>2. Min({d[3], MonthLength(d[1] - 1, d[2])}) \in Int
  BY <1>1, LesserOfTwo
<1> QED
  BY <1>2 DEF YearEarlier, Dates

LEMMA MonthIsDate ==
  ASSUME NEW n \in Int
  PROVE  LET e == MonthStart(n)
         IN /\ e[1] \in Int /\ e[2] \in 1..12 /\ e[3] = 1
            /\ e = <<e[1], e[2], 1>> /\ MonthNumber(e) = n
<1>1. n \div 12 \in Int /\ n % 12 \in 0..11 /\ n = 12 * (n \div 12) + (n % 12)
  OBVIOUS
<1> QED
  BY <1>1 DEF MonthStart, MonthNumber

LEMMA Twelfths ==
  ASSUME NEW y \in Int, NEW m \in 1..12, NEW z \in Int, NEW n \in 1..12,
         NEW x \in Int, NEW k \in 1..12,
         12 * x + k - 1 = 2 * (12 * y + m - 1) - (12 * z + n - 1),
         12 * y + m - 1 < 12 * z + n - 1
  PROVE  x \in (2 * y - z - 1)..y
<1>1. /\ m \in Int /\ 1 <= m /\ m <= 12 /\ n \in Int /\ 1 <= n /\ n <= 12
      /\ k \in Int /\ 1 <= k /\ k <= 12
  OBVIOUS
<1>2. 12 * x = 24 * y - 12 * z + 2 * m - n - k
  BY <1>1
<1>3. 12 * (2 * y - z - 2) < 12 * x
  BY <1>1, <1>2
<1>4. 12 * x < 12 * (y + 1)
  BY <1>1, <1>2
<1> QED
  BY <1>3, <1>4

Years(y) == 365 * y + y \div 4 - y \div 100 + y \div 400

LEMMA YearsGrow ==
  ASSUME NEW x \in Int, NEW y \in Int, x < y, NEW b \in 0..335, NEW c \in 0..335
  PROVE  Years(x) + b < Years(y) + c
<1>1. /\ x \div 4 \in Int /\ x \div 100 \in Int /\ x \div 400 \in Int
      /\ y \div 4 \in Int /\ y \div 100 \in Int /\ y \div 400 \in Int
  OBVIOUS
<1>2. /\ (x \div 4) <= (y \div 4) /\ (x \div 400) <= (y \div 400)
      /\ (y \div 100) - (x \div 100) <= y - x
  OBVIOUS
<1>3. PICK p \in Int, q \in Int, r \in Int, s \in Int, t \in Int, u \in Int :
        /\ p = x \div 4 /\ q = x \div 100 /\ r = x \div 400
        /\ s = y \div 4 /\ t = y \div 100 /\ u = y \div 400
  BY <1>1
<1>4. p <= s /\ r <= u /\ t - q <= y - x
  BY <1>2, <1>3
<1>5. Years(x) = 365 * x + p - q + r /\ Years(y) = 365 * y + s - t + u
  BY <1>3 DEF Years
<1>6. 365 * x + p - q + r + b < 365 * y + s - t + u + c
  BY <1>4
<1> QED
  BY <1>5, <1>6

(* A later day of the calendar is in no earlier month.                     *)
LEMMA MonthsInOrder ==
  ASSUME NEW a \in Dates, NEW b \in Dates, a[3] = 1, b[3] = 1,
         DayNumber(a) < DayNumber(b)
  PROVE  MonthNumber(a) < MonthNumber(b)
<1>1. a[1] \in Int /\ b[1] \in Int /\ a[2] \in 1..12 /\ b[2] \in 1..12
  BY DEF Dates
<1>2. ASSUME NEW y \in Int, NEW m \in 1..12
      PROVE  DaysBefore(y, m) \in 0..335
  BY DEF DaysBefore
<1>3. ASSUME NEW y \in Int, NEW m \in 1..12, NEW n \in 1..12, m <= n
      PROVE  DaysBefore(y, m) <= DaysBefore(y, n)
  BY <1>3 DEF DaysBefore
<1>4. PICK x, y, p, q : /\ x = a[1] - 1 /\ y = b[1] - 1
                        /\ p = DaysBefore(a[1], a[2]) /\ q = DaysBefore(b[1], b[2])
  OBVIOUS
<1>5. x \in Int /\ y \in Int /\ p \in 0..335 /\ q \in 0..335
  <2>1. DaysBefore(a[1], a[2]) \in 0..335 /\ DaysBefore(b[1], b[2]) \in 0..335
    BY <1>1, <1>2
  <2>2. x \in Int /\ y \in Int
    BY <1>1, <1>4
  <2> QED
    BY <1>4, <2>1, <2>2
<1>6. /\ DayNumber(a) = Years(x) + p + 1 /\ DayNumber(b) = Years(y) + q + 1
      /\ Years(x) \in Int /\ Years(y) \in Int
  BY <1>4, <1>5 DEF DayNumber, Years
<1>7. Years(x) + p < Years(y) + q
  BY <1>5, <1>6
<1>8. ~(y < x)
  <2> SUFFICES ASSUME y < x PROVE FALSE
    OBVIOUS
  <2>1. Years(y) + q < Years(x) + p
    BY <1>5, YearsGrow
  <2> QED
    BY <1>5, <1>6, <1>7, <2>1
<1>9. x = y => p < q
  BY <1>5, <1>6, <1>7
<1>10. x = y => a[2] < b[2]
  BY <1>1, <1>3, <1>4, <1>5, <1>9
<1> QED
  BY <1>1, <1>4, <1>5, <1>8, <1>10 DEF MonthNumber

LEMMA PriorIsAsLong ==
  ASSUME NEW q \in Dates \X Dates \X Dates, DayNumber(q[1]) < DayNumber(q[2])
  PROVE  LET p == PriorWindow(q[1], q[2])
         IN /\ p[2] = DayNumber(q[1])
            /\ IF WholeMonths(q)
               THEN \E y \in (2 * q[1][1] - q[2][1] - 1)..q[1][1], n \in 1..12 :
                      /\ p[1] = DayNumber(<<y, n, 1>>)
                      /\ MonthNumber(q[1]) - MonthNumber(<<y, n, 1>>)
                           = MonthNumber(q[2]) - MonthNumber(q[1])
               ELSE Days(p) = DayNumber(q[2]) - DayNumber(q[1])
<1>1. q[1] \in Dates /\ q[2] \in Dates
  OBVIOUS
<1>2. DayNumber(q[1]) \in Int /\ DayNumber(q[2]) \in Int
  BY <1>1, DayIsInt DEF Dates
<1>3. CASE WholeMonths(q)
  <2> DEFINE a == MonthNumber(q[1])
             b == MonthNumber(q[2])
             e == MonthStart(2 * a - b)
  <2>1. /\ q[1][1] \in Int /\ q[2][1] \in Int /\ q[1][2] \in 1..12 /\ q[2][2] \in 1..12
        /\ a = 12 * q[1][1] + q[1][2] - 1 /\ b = 12 * q[2][1] + q[2][2] - 1
    BY <1>1 DEF Dates, MonthNumber
  <2>2. a < b
    BY <1>1, <1>3, MonthsInOrder DEF WholeMonths
  <2>3. PriorWindow(q[1], q[2]) = <<DayNumber(e), DayNumber(q[1])>>
    BY <1>3 DEF PriorWindow, WholeMonths
  <2>4. /\ e[1] \in Int /\ e[2] \in 1..12 /\ e = <<e[1], e[2], 1>>
        /\ MonthNumber(e) = 2 * a - b
    BY <2>1, MonthIsDate
  <2>5. MonthNumber(e) = 12 * e[1] + e[2] - 1
    BY DEF MonthNumber
  <2> HIDE DEF a, b, e
  <2>6. e[1] \in (2 * q[1][1] - q[2][1] - 1)..q[1][1]
    BY <2>1, <2>2, <2>4, <2>5, Twelfths
  <2>7. DayNumber(e) = DayNumber(<<e[1], e[2], 1>>) /\ a - MonthNumber(<<e[1], e[2], 1>>) = b - a
    BY <2>1, <2>4
  <2> QED
    BY <1>3, <2>3, <2>4, <2>6, <2>7 DEF a, b
<1>4. CASE ~WholeMonths(q)
  BY <1>2, <1>4 DEF PriorWindow, WholeMonths, Days
<1> QED
  BY <1>3, <1>4

LEMMA MatchedIsFair ==
  ASSUME NEW q \in Dates \X Dates \X Dates, DayNumber(q[1]) < DayNumber(q[2]),
         ~(DayNumber(q[3]) < DayNumber(q[1]))
  PROVE  LET m == MatchedElapsed(q[1], q[2], q[3])
         IN /\ m.current[2] <= DayNumber(q[3]) + 1
            /\ Days(m.current) > 0
            /\ Days(m.prior) # Days(m.current) =>
                 WholeMonths(q) /\ m.current[2] = DayNumber(q[2])
            /\ AssessAligned(q[1], q[2], q[3], m) = "compatible"
<1>1. q[1] \in Dates /\ q[2] \in Dates /\ q[3] \in Dates
  OBVIOUS
<1> DEFINE start == DayNumber(q[1])
           end == DayNumber(q[2])
           today == DayNumber(q[3])
           first == DayNumber(YearEarlier(q[1]))
           last == DayNumber(YearEarlier(q[2]))
           effective == Min({end, today + 1})
           whole == effective = end /\ q[1][3] = 1 /\ q[2][3] = 1
           m == MatchedElapsed(q[1], q[2], q[3])
<1>2. start \in Int /\ end \in Int /\ today \in Int /\ first \in Int /\ last \in Int
  BY <1>1, DayIsInt, EarlierIsDate DEF Dates
<1>3. effective = IF end <= today + 1 THEN end ELSE today + 1
  BY <1>2, LesserOfTwo
<1>4. /\ m.current = <<start, effective>>
      /\ m.prior = <<first, IF whole THEN last ELSE first + effective - start>>
  BY DEF MatchedElapsed
<1> HIDE DEF effective, m
<1>5. /\ effective \in Int /\ start < effective /\ effective <= end /\ effective <= today + 1
  BY <1>2, <1>3
<1>6. /\ m.current[1] = start /\ m.current[2] = effective /\ m.prior[1] = first
      /\ m.prior[2] = IF whole THEN last ELSE first + effective - start
  BY <1>4
<1>7. Days(m.current) = effective - start
  BY <1>6 DEF Days
<1>8. ~whole => Days(m.prior) = effective - start /\ m.prior[2] - m.prior[1] = effective - start
  BY <1>2, <1>5, <1>6 DEF Days
<1>9. AssessAligned(q[1], q[2], q[3], m) = "compatible"
  <2>1. ~(effective < end) \/ ~whole
    BY <1>2, <1>5
  <2>2. CASE whole
    BY <1>2, <1>5, <1>6, <2>2 DEF AssessAligned
  <2>3. CASE ~whole
    BY <1>2, <1>5, <1>6, <1>8, <2>3 DEF AssessAligned
  <2> QED
    BY <2>2, <2>3
<1> QED
  BY <1>2, <1>5, <1>6, <1>7, <1>8, <1>9 DEF m, WholeMonths

-----------------------------------------------------------------------------
(* A step that keeps the tables keeps what a question would be answered.   *)
LEMMA SameRows ==
  ASSUME facts' = facts, customers' = customers
  PROVE  /\ \A r : Joined(r)' = Joined(r)
         /\ \A d, r : DimensionValue(d, r)' = DimensionValue(d, r)
         /\ \A f, r : Selected(f, r)' <=> Selected(f, r)
<1>1. ASSUME NEW r PROVE Joined(r)' = Joined(r)
  BY DEF Joined
<1>2. ASSUME NEW d, NEW r PROVE DimensionValue(d, r)' = DimensionValue(d, r)
  BY <1>1 DEF DimensionValue
<1>3. ASSUME NEW f, NEW r PROVE Selected(f, r)' <=> Selected(f, r)
  BY <1>2 DEF Selected
<1> QED
  BY <1>1, <1>2, <1>3

LEMMA SameScope ==
  ASSUME facts' = facts, customers' = customers
  PROVE  \A m, q : Scope(m, q)' = Scope(m, q)
<1>1. ASSUME NEW m, NEW q PROVE LatestSnapshot(m, q)' = LatestSnapshot(m, q)
  BY DEF LatestSnapshot
<1>2. ASSUME NEW m, NEW q PROVE MonthsRead(m, q)' = MonthsRead(m, q)
  BY <1>1 DEF MonthsRead
<1>3. ASSUME NEW m, NEW q PROVE Scope(m, q)' = Scope(m, q)
  BY <1>2, SameRows DEF Scope
<1> QED
  BY <1>3

LEMMA SameCell ==
  ASSUME facts' = facts, customers' = customers
  PROVE  \A m, rows, sign : CellOf(m, rows, sign)' = CellOf(m, rows, sign)
<1>1. ASSUME NEW m, NEW r
      PROVE  (Incomplete(m, r)' <=> Incomplete(m, r)) /\ Measure(m, r)' = Measure(m, r)
  BY DEF Incomplete, Measure
<1>2. ASSUME NEW r
      PROVE  (Unassessable(r)' <=> Unassessable(r)) /\ (Overdue(r)' <=> Overdue(r))
  BY SameRows DEF Unassessable, Overdue
<1>3. ASSUME NEW m, NEW rows PROVE Aggregate(m, rows)' = Aggregate(m, rows)
  <2>1. [r \in rows |-> Measure(m, r)]' = [r \in rows |-> Measure(m, r)]
    BY <1>1
  <2> QED
    BY <2>1 DEF Aggregate
<1>4. ASSUME NEW m, NEW rows, NEW sign
      PROVE  Unclassified(m, rows, sign)' = Unclassified(m, rows, sign)
  BY DEF Unclassified
<1>5. ASSUME NEW m, NEW rows, NEW sign
      PROVE  PlainCell(m, rows, sign)' = PlainCell(m, rows, sign)
  <2>1. {r \in rows : Incomplete(m, r)}' = {r \in rows : Incomplete(m, r)}
    BY <1>1
  <2> QED
    BY <1>3, <1>4, <2>1 DEF PlainCell
<1>6. ASSUME NEW m, NEW rows, NEW sign
      PROVE  OverdueCell(m, rows, sign)' = OverdueCell(m, rows, sign)
  BY <1>1, <1>2, <1>3, <1>4 DEF OverdueCell
<1>7. ASSUME NEW m, NEW rows, NEW sign PROVE CellOf(m, rows, sign)' = CellOf(m, rows, sign)
  BY <1>5, <1>6 DEF CellOf
<1> QED
  BY <1>7

LEMMA SameRun ==
  ASSUME facts' = facts, customers' = customers
  PROVE  \A q : Table(q)' = Table(q) /\ Run(q)' = Run(q)
<1>1. ASSUME NEW q, NEW rows PROVE GroupKeys(q, rows)' = GroupKeys(q, rows)
  BY SameRows DEF GroupKeys
<1>2. ASSUME NEW m, NEW q, NEW sign, NEW rows
      PROVE  Grouped(m, q, sign, rows)' = Grouped(m, q, sign, rows)
  <2>1. \A k : {r \in rows : DimensionValue(q.dim, r) = k}'
                 = {r \in rows : DimensionValue(q.dim, r) = k}
    BY SameRows
  <2> QED
    BY <1>1, <2>1, SameCell DEF Grouped
<1>3. ASSUME NEW m, NEW q, NEW sign PROVE Core(m, q, sign)' = Core(m, q, sign)
  BY <1>2, SameScope DEF Core
<1>4. ASSUME NEW q PROVE Table(q)' = Table(q)
  BY <1>3 DEF Table
<1>5. ASSUME NEW q PROVE Run(q)' = Run(q)
  BY <1>4 DEF Run, Comparison
<1> QED
  BY <1>4, <1>5

LEMMA SameMonths ==
  ASSUME facts' = facts, customers' = customers
  PROVE  \A m, q, keys : /\ Proved(m, q, keys)' = Proved(m, q, keys)
                         /\ Conflicting(m, q, keys)' <=> Conflicting(m, q, keys)
<1>1. ASSUME NEW m, NEW q, NEW keys PROVE MonthsProved(m, q, keys)' = MonthsProved(m, q, keys)
  <2>1. CASE q.form = "core"
    BY <2>1, SameScope, SameRows DEF MonthsProved
  <2>2. CASE q.form # "core"
    BY <2>2 DEF MonthsProved
  <2> QED
    BY <2>1, <2>2
<1> QED
  BY <1>1 DEF Proved, Conflicting

LEMMA SameTold ==
  ASSUME facts' = facts, customers' = customers
  PROVE  \A q, additive, chosen, result, shown :
           Tell(q, additive, chosen, result, shown)' = Tell(q, additive, chosen, result, shown)
<1>1. ASSUME NEW q, NEW additive, NEW k, NEW cell
      PROVE  ComparisonComplete(q, additive, k, cell)' <=> ComparisonComplete(q, additive, k, cell)
  BY SameRun DEF ComparisonComplete
<1>2. ASSUME NEW q, NEW additive, NEW verdict, NEW k, NEW cell
      PROVE  ClaimOf(q, additive, verdict, k, cell)' = ClaimOf(q, additive, verdict, k, cell)
  BY <1>1 DEF ClaimOf, Relations
<1>3. ASSUME NEW q, NEW additive, NEW verdict, NEW told
      PROVE  ClaimsOf(q, additive, verdict, told)' = ClaimsOf(q, additive, verdict, told)
  BY <1>2 DEF ClaimsOf
<1>4. ASSUME NEW q, NEW additive, NEW chosen, NEW cells, NEW cut, NEW current, NEW prior
      PROVE  TellPeriods(q, additive, chosen, cells, cut, current, prior)'
               = TellPeriods(q, additive, chosen, cells, cut, current, prior)
  BY <1>3 DEF TellPeriods, TellRows
<1>5. ASSUME NEW q, NEW additive, NEW chosen, NEW result, NEW shown
      PROVE  Tell(q, additive, chosen, result, shown)' = Tell(q, additive, chosen, result, shown)
  BY <1>4, SameMonths DEF Tell
<1> QED
  BY <1>5

LEMMA SameWhole ==
  ASSUME facts' = facts, customers' = customers
  PROVE  \A q : WholeAnswer(q)' = WholeAnswer(q)
<1>1. ASSUME NEW q PROVE ToldWhole(q, Run(q))' = ToldWhole(q, Run(q))
  BY SameRun, SameTold DEF ToldWhole
<1>2. ASSUME NEW q PROVE WholeAnswer(q)' = WholeAnswer(q)
  BY <1>1 DEF WholeAnswer
<1> QED
  BY <1>2

LEMMA SameCalculation ==
  ASSUME question' = question
  PROVE  \A op, l, r, lost : Calculate(op, l, r, lost)' = Calculate(op, l, r, lost)
<1>1. ASSUME NEW op, NEW l, NEW r PROVE ScopeError(op, l, r)' = ScopeError(op, l, r)
  BY DEF ScopeError
<1>2. ASSUME NEW op, NEW l, NEW r, NEW lost
      PROVE  Calculate(op, l, r, lost)' = Calculate(op, l, r, lost)
  BY <1>1 DEF Calculate
<1> QED
  BY <1>2

-----------------------------------------------------------------------------
(* What every step keeps: the question is one the contracts let through,   *)
(* and an answer is what its question is answered with.                    *)
WellPut(q) ==
    /\ q.form \in Forms => Posed(q) /\ Numbered(facts) /\ None \notin Filters(facts, customers)
    /\ q.form \in {"periods", "aligned"} => q.ask \in Dates \X Dates \X Dates
    /\ q.form = "claims" =>
         Posed(q.ask) /\ q.limit \in Nat \ {0} /\ q.additive \in BOOLEAN /\ Numbered(facts)
    /\ q.form = "calculation" =>
         /\ q.op \in {"difference", "ratio", "share"} /\ Posed(q.left) /\ Posed(q.right)
         /\ Numbered(facts)
TellsOf(q) == \E shown \in Shown(Run(q.ask), q.limit) :
                 answer = Tell(q.ask, q.additive, q.chosen, Run(q.ask), shown)
CalculatesOf(q) ==
    \A l, r : l = WholeAnswer(q.left) /\ r = WholeAnswer(q.right) =>
      \E lost \in SUBSET {"left", "right"} :
        answer = [lost |-> lost, result |-> Calculate(q.op, l, r, lost)]
AnswerOf(q) ==
    /\ q.form \in Forms /\ PlanRefusal(q) = None => answer = Run(q)
    /\ q.form = "periods" => answer = PeriodsOf(q.ask)
    /\ q.form = "aligned" => answer = AlignedAnswer(q.ask)
    /\ q.form = "claims" => IF PlanRefusal(q.ask) # None THEN answer = Failed(PlanRefusal(q.ask))
                            ELSE TellsOf(q)
    /\ q.form = "calculation" => CalculatesOf(q)
AnswersInv ==
    \A q : q = question => WellPut(q) /\ (answer # None => AnswerOf(q))

LEMMA FormsDiffer ==
  "periods" \notin Forms /\ "aligned" \notin Forms /\ "claims" \notin Forms
  /\ "calculation" \notin Forms
BY DEF Forms

LEMMA AnswersStart == AnswersInit => AnswersInv
<1> SUFFICES ASSUME AnswersInit PROVE AnswersInv
  OBVIOUS
<1>1. answer = None
  BY DEF AnswersInit
<1>2. PICK c \in Cases : question \in c.questions /\ facts \in c.facts /\ customers \in c.customers
  BY DEF AnswersInit
<1>3. WellPut(question)
  BY <1>2, MetricsAssumption, ClaimsAssumption, CalculationsAssumption DEF WellPut
<1> QED
  BY <1>1, <1>3 DEF AnswersInv

LEMMA AnswersStep ==
  ASSUME AnswersInv, MetricsNext \/ ClaimsNext \/ CalculationsNext
  PROVE  AnswersInv'
<1>1. /\ facts' = facts /\ customers' = customers /\ question' = question
      /\ answer = None
  BY DEF MetricsNext, AlignPeriods, Refuse, RunMetric, RunComparison, ClaimsNext, TellBranch,
         AlignTold, CalculationsNext, RunCalculation, Ask, Reply
<1> SUFFICES ASSUME NEW q, q = question
             PROVE  WellPut(q)' /\ AnswerOf(q)'
  BY <1>1 DEF AnswersInv
<1>2. WellPut(q)'
  BY <1>1 DEF AnswersInv, WellPut, Numbered, Filters, GroupValues
<1> SUFFICES AnswerOf(q)'
  BY <1>2
<1>3. CASE AlignPeriods
  BY <1>3, FormsDiffer DEF AlignPeriods, Ask, Reply, AnswerOf
<1>4. CASE Refuse
  BY <1>4, FormsDiffer DEF Refuse, Ask, Reply, AnswerOf, Allowed
<1>5. CASE RunMetric \/ RunComparison
  <2>1. answer' = Run(q) /\ q.form \in Forms
    BY <1>5 DEF RunMetric, RunComparison, Run, Ask, Reply
  <2> QED
    BY <1>1, <2>1, SameRun, FormsDiffer DEF AnswerOf
<1>6. CASE TellBranch
  <2>1. q.form = "claims"
    BY <1>6 DEF TellBranch, Ask
  <2>2. CASE PlanRefusal(q.ask) # None
    BY <1>6, <2>1, <2>2, FormsDiffer DEF TellBranch, Reply, AnswerOf
  <2>3. CASE PlanRefusal(q.ask) = None
    <3>1. \E shown \in Shown(Run(q.ask), q.limit) :
            answer' = Tell(q.ask, q.additive, q.chosen, Run(q.ask), shown)
      BY <1>6, <2>3 DEF TellBranch, Reply
    <3>2. TellsOf(q)'
      <4>1. Shown(Run(q.ask), q.limit)' = Shown(Run(q.ask), q.limit)
        BY <1>1, SameRun DEF Shown
      <4>2. \A shown : Tell(q.ask, q.additive, q.chosen, Run(q.ask), shown)'
                         = Tell(q.ask, q.additive, q.chosen, Run(q.ask), shown)
        BY <1>1, SameRun, SameTold
      <4> QED
        BY <3>1, <4>1, <4>2 DEF TellsOf
    <3> QED
      BY <2>1, <2>3, <3>2, FormsDiffer DEF AnswerOf
  <2> QED
    BY <2>2, <2>3
<1>7. CASE AlignTold
  BY <1>7, FormsDiffer DEF AlignTold, Ask, Reply, AnswerOf, AlignedAnswer
<1>8. CASE RunCalculation
  <2>1. q.form = "calculation"
    BY <1>8 DEF RunCalculation, Ask
  <2>2. \A l, r : l = WholeAnswer(q.left) /\ r = WholeAnswer(q.right) =>
          \E lost \in SUBSET {"left", "right"} :
            answer' = [lost |-> lost, result |-> Calculate(q.op, l, r, lost)]
    BY <1>8 DEF RunCalculation, Reply
  <2>3. CalculatesOf(q)'
    BY <1>1, <2>2, SameWhole, SameCalculation DEF CalculatesOf
  <2> QED
    BY <2>1, <2>3, FormsDiffer DEF AnswerOf
<1> QED
  BY <1>3, <1>4, <1>5, <1>6, <1>7, <1>8 DEF MetricsNext, ClaimsNext, CalculationsNext

LEMMA AnswersIdle == AnswersInv /\ UNCHANGED answerVars => AnswersInv'
<1> SUFFICES ASSUME AnswersInv, UNCHANGED answerVars, NEW q, q = question
             PROVE  WellPut(q)' /\ (answer' # None => AnswerOf(q)')
  BY DEF AnswersInv, answerVars
<1>1. /\ facts' = facts /\ customers' = customers /\ question' = question /\ answer' = answer
  BY DEF answerVars
<1>2. WellPut(q) /\ (answer # None => AnswerOf(q))
  BY DEF AnswersInv
<1>3. WellPut(q)'
  <2>1. Filters(facts, customers)' = Filters(facts, customers)
    BY <1>1
  <2> QED
    BY <1>1, <1>2, <2>1 DEF WellPut, Numbered
<1>4. TellsOf(q)' <=> TellsOf(q)
  <2>1. Shown(Run(q.ask), q.limit)' = Shown(Run(q.ask), q.limit)
    BY <1>1, SameRun DEF Shown
  <2>2. \A shown : Tell(q.ask, q.additive, q.chosen, Run(q.ask), shown)'
                     = Tell(q.ask, q.additive, q.chosen, Run(q.ask), shown)
    BY <1>1, SameRun, SameTold
  <2> QED
    BY <1>1, <2>1, <2>2 DEF TellsOf
<1>5. CalculatesOf(q)' <=> CalculatesOf(q)
  BY <1>1, SameWhole, SameCalculation DEF CalculatesOf
<1> QED
  BY <1>1, <1>2, <1>3, <1>4, <1>5, SameRun DEF AnswerOf

(* Whatever was asked is one of the questions the contracts let through,   *)
(* and the answer is the one its question is answered with.               *)
THEOREM AnswersInvariance == AnswersSpec => []AnswersInv
<1> QED
  BY AnswersIdle, AnswersStart, AnswersStep, PTL DEF AnswersSpec

-----------------------------------------------------------------------------
(* The windows of a comparison are fair.                                   *)
LEMMA PeriodsAreFair == AnswersInv => PeriodsTrue
<1> SUFFICES ASSUME AnswersInv, answer # None
             PROVE  PeriodsTrue
  BY DEF PeriodsTrue, PeriodsMatch, AlignedTrue
<1>1. WellPut(question) /\ AnswerOf(question)
  BY DEF AnswersInv
<1>2. PICK q : q = question.ask
  OBVIOUS
<1>3. ASSUME DayNumber(q[1]) < DayNumber(q[2]), q \in Dates \X Dates \X Dates,
             ~(DayNumber(q[3]) < DayNumber(q[1]))
      PROVE  LET m == MatchedElapsed(q[1], q[2], q[3])
             IN /\ m.current[2] <= DayNumber(q[3]) + 1
                /\ Days(m.current) > 0
                /\ Days(m.prior) # Days(m.current) =>
                     WholeMonths(q) /\ m.current[2] = DayNumber(q[2])
                /\ AssessAligned(q[1], q[2], q[3], m) = "compatible"
  BY <1>3, MatchedIsFair
<1>4. ASSUME q \in Dates \X Dates \X Dates
      PROVE  /\ \A i \in 1..3 : DayNumber(q[i]) \in Int
             /\ PeriodsOf(q).refused = None <=> DayNumber(q[1]) < DayNumber(q[2])
             /\ PeriodsOf(q).refused = None =>
                  /\ PeriodsOf(q).previous = PriorWindow(q[1], q[2])
                  /\ PeriodsOf(q).matched = IF DayNumber(q[3]) < DayNumber(q[1]) THEN None
                                            ELSE MatchedElapsed(q[1], q[2], q[3])
  <2>1. \A i \in 1..3 : q[i] \in Dates
    BY <1>4
  <2>2. \A i \in 1..3 : DayNumber(q[i]) \in Int
    BY <2>1, DayIsInt DEF Dates
  <2>3. "range" # None
    BY MetricsAssumption DEF Errors
  <2> QED
    BY <2>2, <2>3 DEF PeriodsOf
<1>5. PeriodsMatch
  <2> SUFFICES ASSUME question.form = "periods", answer.refused = None
               PROVE  PeriodsMatch
    BY DEF PeriodsMatch
  <2>1. answer = PeriodsOf(q) /\ q \in Dates \X Dates \X Dates
    BY <1>1, <1>2 DEF WellPut, AnswerOf
  <2>2. /\ DayNumber(q[1]) < DayNumber(q[2]) /\ answer.previous = PriorWindow(q[1], q[2])
        /\ answer.matched = IF DayNumber(q[3]) < DayNumber(q[1]) THEN None
                            ELSE MatchedElapsed(q[1], q[2], q[3])
    BY <1>4, <2>1
  <2>3. /\ answer.previous[2] = DayNumber(q[1])
        /\ IF WholeMonths(q)
           THEN \E y \in (2 * q[1][1] - q[2][1] - 1)..q[1][1], n \in 1..12 :
                  /\ answer.previous[1] = DayNumber(<<y, n, 1>>)
                  /\ MonthNumber(q[1]) - MonthNumber(<<y, n, 1>>)
                       = MonthNumber(q[2]) - MonthNumber(q[1])
           ELSE Days(answer.previous) = DayNumber(q[2]) - DayNumber(q[1])
    BY <2>1, <2>2, PriorIsAsLong
  <2>4. LET m == answer.matched
        IN m # None =>
             /\ m.current[2] <= DayNumber(q[3]) + 1
             /\ Days(m.current) > 0
             /\ Days(m.prior) # Days(m.current) =>
                  WholeMonths(q) /\ m.current[2] = DayNumber(q[2])
    BY <1>3, <2>1, <2>2
  <2> QED
    BY <1>2, <2>3, <2>4 DEF PeriodsMatch
<1>6. AlignedTrue
  <2> SUFFICES ASSUME question.form = "aligned", answer.refused = None
               PROVE  AlignedTrue
    BY DEF AlignedTrue
  <2>1. answer = AlignedAnswer(q) /\ q \in Dates \X Dates \X Dates
    BY <1>1, <1>2 DEF WellPut, AnswerOf
  <2>2. PeriodsOf(q).refused = None /\ PeriodsOf(q).matched # None
    BY <2>1, MetricsAssumption DEF AlignedAnswer, Failed, Errors
  <2>3. /\ answer.matched = PeriodsOf(q).matched
        /\ answer.verdict = AssessAligned(q[1], q[2], q[3], PeriodsOf(q).matched)
    BY <2>1, <2>2 DEF AlignedAnswer
  <2>4. /\ DayNumber(q[1]) < DayNumber(q[2]) /\ ~(DayNumber(q[3]) < DayNumber(q[1]))
        /\ PeriodsOf(q).matched = MatchedElapsed(q[1], q[2], q[3])
    BY <1>4, <2>1, <2>2
  <2> QED
    BY <1>2, <1>3, <2>1, <2>3, <2>4 DEF AlignedTrue
<1> QED
  BY <1>5, <1>6 DEF PeriodsTrue

(* Two periods that are compared are as long as each other, and what the   *)
(* compiler matches the evidence accepts, for any dates of the calendar.   *)
THEOREM PeriodsMatched == AnswersSpec => []PeriodsTrue
<1> QED
  BY AnswersInvariance, PeriodsAreFair, PTL

-----------------------------------------------------------------------------
(* The rows a statement reads and what they are worth.                     *)
LEMMA GreatestOf ==
  ASSUME NEW S \in SUBSET Int, IsFiniteSet(S), S # {}
  PROVE  Max(S) \in S /\ \A y \in S : y <= Max(S)
<1> DEFINE G == {T \in SUBSET S : T = {} \/ \E x \in T : \A y \in T : y <= x}
<1>1. {} \in G
  OBVIOUS
<1>2. ASSUME NEW T \in SUBSET S, NEW x \in S \ T, T \in G
      PROVE  T \cup {x} \in G
  <2>1. CASE T = {}
    BY <2>1
  <2>2. CASE T # {}
    <3>1. PICK z \in T : \A y \in T : y <= z
      BY <1>2, <2>2
    <3>2. CASE x <= z
      BY <3>1, <3>2
    <3>3. CASE ~(x <= z)
      <4>1. \A y \in T \cup {x} : y <= x
        BY <3>1, <3>3
      <4> QED
        BY <4>1
    <3> QED
      BY <3>2, <3>3
  <2> QED
    BY <2>1, <2>2
<1>3. S \in G
  <2> HIDE DEF G
  <2> QED
    BY <1>1, <1>2, Growing
<1>4. \E x \in S : \A y \in S : x >= y
  BY <1>3
<1>5. Max(S) \in S /\ \A y \in S : Max(S) >= y
  BY <1>4 DEF Max
<1> QED
  BY <1>5

LEMMA ImageIsFinite ==
  ASSUME NEW S, IsFiniteSet(S), NEW f, DOMAIN f = S
  PROVE  IsFiniteSet({f[x] : x \in S})
<1> DEFINE G == {U \in SUBSET S : IsFiniteSet({f[x] : x \in U})}
<1>1. {} \in G
  <2>1. {f[x] : x \in {}} = {}
    OBVIOUS
  <2> QED
    BY <2>1, FS_EmptySet
<1>2. ASSUME NEW U \in SUBSET S, NEW x \in S \ U, U \in G
      PROVE  U \cup {x} \in G
  <2>1. {f[y] : y \in U \cup {x}} = {f[y] : y \in U} \cup {f[x]}
    OBVIOUS
  <2>2. IsFiniteSet({f[y] : y \in U} \cup {f[x]})
    BY <1>2, FS_AddElement
  <2> QED
    BY <2>1, <2>2
<1>3. S \in G
  <2> HIDE DEF G
  <2> QED
    BY <1>1, <1>2, Growing
<1> QED
  BY <1>3

LEMMA SqlSumOf ==
  ASSUME NEW f, Ints(f)
  PROVE  /\ OrZero(SqlSum(f)) = Sum(f) /\ Sum(f) \in Int
         /\ DOMAIN f # {} => SqlSum(f) = Sum(f)
<1>1. Some(f) = DOMAIN f
  BY MetricsAssumption DEF Some, Ints
<1>2. [i \in Some(f) |-> f[i]] = f
  BY <1>1 DEF Ints
<1>3. Sum(f) \in Int /\ (DOMAIN f = {} => Sum(f) = 0)
  BY SumType
<1>4. SqlSum(f) = IF DOMAIN f = {} THEN None ELSE Sum(f)
  BY <1>1, <1>2 DEF SqlSum
<1> QED
  BY <1>3, <1>4, MetricsAssumption DEF OrZero

-----------------------------------------------------------------------------
(* The rows a statement reads are those that count.                        *)
Fits(m, q) ==
    /\ m \in Governed /\ q.window \in {None} \cup (Int \X Int) /\ q.offset \in Int

LEMMA NewestIsLatest ==
  ASSUME NEW P \in SUBSET DOMAIN facts, Numbered(facts)
  PROVE  LET months == {facts[r].month : r \in P}
         IN \A n : (\E x \in Newest(P) : facts[x].month = n) <=> months # {} /\ n = Max(months)
<1> DEFINE months == {facts[r].month : r \in P}
<1>1. \A r \in P : facts[r].month \in Int
  BY DEF Numbered
<1>2. IsFiniteSet(months) /\ months \in SUBSET Int
  <2>1. IsFiniteSet(P)
    BY FS_Subset DEF Numbered
  <2> DEFINE f == [r \in P |-> facts[r].month]
  <2>2. IsFiniteSet({f[r] : r \in P})
    BY <2>1, ImageIsFinite
  <2>3. months = {f[r] : r \in P}
    OBVIOUS
  <2> QED
    BY <1>1, <2>2, <2>3
<1>3. months # {} => Max(months) \in months /\ \A y \in months : y <= Max(months)
  BY <1>2, GreatestOf
<1>4. \A x \in P : x \in Newest(P) <=> facts[x].month = Max(months)
  <2> TAKE x \in P
  <2>1. facts[x].month \in months /\ facts[x].month \in Int /\ Max(months) \in Int
    BY <1>1, <1>2, <1>3
  <2>2. facts[x].month <= Max(months)
    BY <1>3, <2>1
  <2> HIDE DEF months
  <2>3. ASSUME x \in Newest(P) PROVE facts[x].month = Max(months)
    <3>1. PICK r \in P : facts[r].month = Max(months)
      BY <1>3, <2>1 DEF months
    <3>2. Max(months) <= facts[x].month
      BY <2>3, <3>1 DEF Newest
    <3> QED
      BY <2>1, <2>2, <3>2
  <2>4. ASSUME facts[x].month = Max(months) PROVE x \in Newest(P)
    <3>1. \A r \in P : facts[r].month \in months
      BY DEF months
    <3>2. \A r \in P : facts[r].month <= facts[x].month
      BY <1>3, <2>1, <2>4, <3>1
    <3> QED
      BY <3>2 DEF Newest
  <2> QED
    BY <2>3, <2>4
<1>5. Newest(P) \subseteq P
  BY DEF Newest
<1>6. ASSUME NEW n, NEW x \in Newest(P), facts[x].month = n
      PROVE  months # {} /\ n = Max(months)
  BY <1>4, <1>5, <1>6
<1>7. ASSUME NEW n, months # {}, n = Max(months)
      PROVE  \E x \in Newest(P) : facts[x].month = n
  <2>1. PICK x \in P : facts[x].month = Max(months)
    BY <1>3, <1>7
  <2> QED
    BY <1>4, <1>7, <2>1
<1> QED
  BY <1>6, <1>7

LEMMA ReadIsInTime ==
  ASSUME Numbered(facts), NEW m, NEW q, Fits(m, q), NEW r \in DOMAIN facts
  PROVE  facts[r].month \in MonthsRead(m, q) <=> InTime(m, q, r)
<1>1. facts[r].month \in Int
  BY DEF Numbered
<1>2. CASE q.window # None
  <2>1. q.window \in Int \X Int
    BY <1>2 DEF Fits
  <2>2. q.window[1] \in Int /\ q.window[2] \in Int
    BY <2>1
  <2> QED
    BY <1>1, <1>2, <2>2 DEF MonthsRead, InTime
<1>3. CASE q.window = None /\ m.policy = "current_month"
  BY <1>3 DEF MonthsRead, InTime, Snapshots
<1>4. CASE q.window = None /\ m.policy = "current_snapshot"
  BY <1>4 DEF MonthsRead, InTime, Snapshots
<1>5. CASE q.window = None /\ m.policy \in Snapshots
  <2> DEFINE P == {x \in DOMAIN facts :
                     /\ facts[x].kind \in DatasetKinds
                     /\ m.policy = "latest_non_null_snapshot" => facts[x].amount # None}
             months == {facts[x].month : x \in P}
             latest == LatestSnapshot(m, q)
  <2>1. latest = IF months = {} THEN None ELSE Max(months)
    BY DEF LatestSnapshot
  <2>2. P \in SUBSET DOMAIN facts
    OBVIOUS
  <2>3. m.policy = "latest_snapshot" => P = Live
    BY DEF Live
  <2>4. m.policy = "latest_non_null_snapshot" => P = {y \in Live : facts[y].amount # None}
    BY DEF Live
  <2>5. InTime(m, q, r) <=> \E x \in Newest(P) : facts[r].month = facts[x].month - q.offset
    <3>1. CASE m.policy = "latest_snapshot"
      BY <1>5, <2>3, <3>1 DEF InTime
    <3>2. CASE m.policy = "latest_non_null_snapshot"
      BY <1>5, <2>4, <3>2 DEF InTime
    <3> QED
      BY <1>5, <3>1, <3>2 DEF Snapshots
  <2>6. \A n : (\E x \in Newest(P) : facts[x].month = n) <=> months # {} /\ n = Max(months)
    <3> HIDE DEF P
    <3> QED
      BY <2>2, NewestIsLatest
  <2>7. MonthsRead(m, q) = IF latest = None THEN {} ELSE {latest - q.offset}
    BY <1>5 DEF MonthsRead, Snapshots
  <2>8. months # {} => Max(months) # None
    <3>1. months # {} => \E x \in Newest(P) : facts[x].month = Max(months)
      BY <2>6
    <3>2. \A x \in Newest(P) : facts[x].month \in Int
      BY <2>2 DEF Newest, Numbered
    <3> QED
      BY <3>1, <3>2, MetricsAssumption
  <2> HIDE DEF P, months, latest
  <2> QED
    BY <2>1, <2>5, <2>6, <2>7, <2>8
<1> QED
  BY <1>2, <1>3, <1>4, <1>5 DEF Fits, Governed

LEMMA ScopeIsCounted ==
  ASSUME Numbered(facts), NEW m, NEW q, Fits(m, q)
  PROVE  /\ IsFiniteSet(Scope(m, q)) /\ Scope(m, q) \in SUBSET DOMAIN facts
         /\ Counted(m, q) = {r \in Scope(m, q) : m.overdue => Overdue(r) \/ Unassessable(r)}
<1>1. Scope(m, q) \in SUBSET DOMAIN facts
  BY DEF Scope
<1>2. IsFiniteSet(Scope(m, q))
  BY <1>1, FS_Subset DEF Numbered
<1>3. \A r \in DOMAIN facts :
        r \in Scope(m, q) <=> /\ r \in Live /\ (m.kinds # {} => facts[r].kind \in m.kinds)
                              /\ InTime(m, q, r) /\ Selected(q.filter, r)
  BY ReadIsInTime DEF Scope, Live, KindsOf
<1>4. Live \subseteq DOMAIN facts
  BY DEF Live
<1> QED
  BY <1>1, <1>2, <1>3, <1>4 DEF Counted

-----------------------------------------------------------------------------
(* A cell tells the truth of its rows.                                     *)
Summing == {"sum", "sum_positive", "sum_product"}
Right(c, v, sign) ==
    /\ c.missing \in Nat
    /\ IF c.missing > 0 THEN c.value = None /\ v = None
       ELSE v \in Int /\ c.value = sign * v

LEMMA HasSome ==
  ASSUME NEW S, IsFiniteSet(S)
  PROVE  Cardinality(S) \in Nat /\ (Cardinality(S) > 0 <=> S # {})
BY FS_CardinalityType, FS_EmptySet

LEMMA KnownIsWorth ==
  ASSUME Numbered(facts), NEW m \in Governed, m.agg \in Summing, NEW r \in DOMAIN facts,
         ~Incomplete(m, r)
  PROVE  Measure(m, r) = Worth(m, r) /\ Worth(m, r) \in Int
<1>1. facts[r].amount \in Int
  BY DEF Incomplete, Summing, Numbered
<1>2. CASE m.agg = "sum"
  BY <1>1, <1>2 DEF Measure, Worth
<1>3. CASE m.agg = "sum_product"
  <2>1. facts[r].qty \in Int /\ facts[r].qty # None /\ facts[r].amount # None
    BY <1>1, <1>3, MetricsAssumption DEF Incomplete, Numbered
  <2> QED
    BY <1>1, <1>3, <2>1 DEF Measure, Worth, Times
<1>4. CASE m.agg = "sum_positive"
  <2>1. Max({facts[r].amount, 0}) = IF facts[r].amount > 0 THEN facts[r].amount ELSE 0
    <3> DEFINE S == {facts[r].amount, 0}
    <3>0. IsFiniteSet(S)
      <4>1. PICK a \in Int : a = facts[r].amount
        BY <1>1
      <4>2. IsFiniteSet({a})
        BY FS_Singleton
      <4>3. IsFiniteSet({a} \cup {0})
        BY <4>2, FS_AddElement
      <4>4. S = {a} \cup {0}
        BY <4>1
      <4> QED
        BY <4>3, <4>4
    <3>1. S \in SUBSET Int /\ S # {} /\ IsFiniteSet(S)
      BY <1>1, <3>0
    <3>2. Max(S) \in S /\ \A y \in S : y <= Max(S)
      BY <3>1, GreatestOf
    <3> QED
      BY <1>1, <3>2
  <2>2. facts[r].amount # None
    BY <1>1, MetricsAssumption
  <2> QED
    BY <1>1, <1>4, <2>1, <2>2 DEF Measure, Worth
<1> QED
  BY <1>2, <1>3, <1>4 DEF Summing

LEMMA AggregateIsSum ==
  ASSUME Numbered(facts), NEW m \in Governed, m.agg \in Summing, NEW rows \in SUBSET DOMAIN facts,
         \A r \in rows : ~Incomplete(m, r)
  PROVE  /\ Aggregate(m, rows) = Sum([r \in rows |-> Worth(m, r)])
         /\ Aggregate(m, rows) \in Int
<1> DEFINE f == [r \in rows |-> Measure(m, r)]
<1>1. \A r \in rows : Measure(m, r) = Worth(m, r) /\ Worth(m, r) \in Int
  BY KnownIsWorth
<1>2. f = [r \in rows |-> Worth(m, r)]
  BY <1>1
<1>3. Ints(f)
  BY <1>1, FS_Subset DEF Ints, Numbered
<1> HIDE DEF f
<1>4. OrZero(SqlSum(f)) = Sum(f) /\ Sum(f) \in Int
  BY <1>3, SqlSumOf
<1>5. Aggregate(m, rows) = OrZero(SqlSum(f))
  BY DEF Aggregate, AggregateOf, Summing, f
<1> QED
  BY <1>2, <1>4, <1>5

LEMMA PlainIsRight ==
  ASSUME Numbered(facts), NEW m \in Governed, m.agg \in Summing, ~m.overdue,
         NEW rows \in SUBSET DOMAIN facts, NEW sign \in {1, -1}
  PROVE  Right(CellOf(m, rows, sign), Truth(m, rows), sign)
<1> DEFINE incomplete == {r \in rows : Incomplete(m, r)}
<1>1. IsFiniteSet(rows) /\ IsFiniteSet(incomplete)
  BY FS_Subset DEF Numbered
<1>2. Cardinality(incomplete) \in Nat /\ (Cardinality(incomplete) > 0 <=> incomplete # {})
  BY <1>1, HasSome
<1>3. /\ CellOf(m, rows, sign).missing = Cardinality(incomplete)
      /\ CellOf(m, rows, sign).value = IF Cardinality(incomplete) > 0 THEN None
                                       ELSE Signed(Aggregate(m, rows), sign)
  BY DEF CellOf, PlainCell, Cell
<1>4. Truth(m, rows) = IF incomplete # {} THEN None ELSE Sum([r \in rows |-> Worth(m, r)])
  BY DEF Truth
<1>5. ASSUME incomplete = {}
      PROVE  /\ Aggregate(m, rows) = Sum([r \in rows |-> Worth(m, r)])
             /\ Aggregate(m, rows) \in Int
  BY <1>5, AggregateIsSum
<1>6. ASSUME NEW v \in Int PROVE Signed(v, sign) = sign * v
  BY MetricsAssumption DEF Signed, Negated
<1> HIDE DEF incomplete
<1> QED
  BY <1>2, <1>3, <1>4, <1>5, <1>6 DEF Right

LEMMA OverdueIsRight ==
  ASSUME Numbered(facts), NEW m \in Governed, m.agg \in Summing, m.overdue,
         NEW rows \in SUBSET DOMAIN facts
  PROVE  LET c == CellOf(m, rows, 1)
             counted == {r \in rows : Overdue(r) \/ Unassessable(r)}
         IN /\ c.value = Truth(m, counted)
            /\ c.match > 0 <=> counted # {}
<1> DEFINE eligible == {r \in rows : Overdue(r)}
           unknown == {r \in rows : Unassessable(r)}
           selected == {r \in eligible : ~Incomplete(m, r) /\ Measure(m, r) # None}
           counted == {r \in rows : Overdue(r) \/ Unassessable(r)}
           doubtful == eligible \ selected
           c == CellOf(m, rows, 1)
<1>1. /\ IsFiniteSet(selected) /\ IsFiniteSet(unknown) /\ IsFiniteSet(doubtful)
  BY FS_Subset DEF Numbered
<1>2. /\ Cardinality(selected) \in Nat /\ (Cardinality(selected) > 0 <=> selected # {})
      /\ Cardinality(unknown) \in Nat /\ (Cardinality(unknown) > 0 <=> unknown # {})
      /\ Cardinality(doubtful) \in Nat /\ (Cardinality(doubtful) > 0 <=> doubtful # {})
  BY <1>1, HasSome
<1>3. /\ c.match = Cardinality(selected) + (Cardinality(unknown) + Cardinality(doubtful))
      /\ c.value = IF Cardinality(unknown) + Cardinality(doubtful) > 0 THEN None
                   ELSE IF selected = {} THEN None ELSE Signed(Aggregate(m, selected), 1)
  BY DEF CellOf, OverdueCell, Cell
<1>4. \A r \in rows : Overdue(r) => ~Unassessable(r)
  BY DEF Overdue
<1>5. \A r \in eligible : r \in selected <=> ~Incomplete(m, r)
  <2> TAKE r \in eligible
  <2>1. ~Incomplete(m, r) => Measure(m, r) # None
    BY KnownIsWorth, MetricsAssumption
  <2> QED
    BY <2>1
<1>6. counted # {} <=> selected # {} \/ unknown # {} \/ doubtful # {}
  OBVIOUS
<1>7. (\E r \in counted : Incomplete(m, r) \/ Unassessable(r)) <=> unknown # {} \/ doubtful # {}
  BY <1>4, <1>5
<1>8. unknown = {} /\ doubtful = {} => selected = counted
  OBVIOUS
<1>9. Truth(m, counted) = IF unknown # {} \/ doubtful # {} \/ counted = {} THEN None
                          ELSE Sum([r \in counted |-> Worth(m, r)])
  <2> HIDE DEF counted, unknown, doubtful
  <2>1. (\E r \in counted : Incomplete(m, r) \/ (m.overdue /\ Unassessable(r)))
          <=> unknown # {} \/ doubtful # {}
    BY <1>7
  <2> QED
    BY <2>1 DEF Truth
<1>10. ASSUME unknown = {}, doubtful = {}
       PROVE  Aggregate(m, selected) = Sum([r \in selected |-> Worth(m, r)])
  <2>1. selected \in SUBSET DOMAIN facts /\ \A r \in selected : ~Incomplete(m, r)
    OBVIOUS
  <2> HIDE DEF selected
  <2> QED
    BY <2>1, AggregateIsSum
<1>11. \A v : Signed(v, 1) = v
  BY DEF Signed
<1> HIDE DEF selected, unknown, doubtful, counted, eligible, c
<1>12. c.value = Truth(m, counted)
  BY <1>2, <1>3, <1>6, <1>8, <1>9, <1>10, <1>11
<1>13. c.match > 0 <=> counted # {}
  <2>1. PICK a \in Nat, b \in Nat, d \in Nat :
          a = Cardinality(selected) /\ b = Cardinality(unknown) /\ d = Cardinality(doubtful)
    BY <1>2
  <2>2. c.match = a + (b + d)
    BY <1>3, <2>1
  <2>3. counted # {} <=> a > 0 \/ b > 0 \/ d > 0
    BY <1>2, <1>6, <2>1
  <2> QED
    BY <2>2, <2>3
<1> QED
  BY <1>12, <1>13 DEF c, counted

-----------------------------------------------------------------------------
(* What a side of a statement has to say of a key, whether or not it has a *)
(* row there.                                                              *)
Tells(c, v) ==
    /\ c.missing \in Nat
    /\ IF c.missing > 0 THEN v = None ELSE v \in Int
    /\ Full(c) = v

LEMMA NothingCounted ==
  ASSUME NEW m \in Governed, ~m.overdue
  PROVE  Truth(m, {}) = 0
<1> DEFINE f == [r \in {} |-> Worth(m, r)]
<1>1. Ints(f)
  BY FS_EmptySet DEF Ints
<1>2. Sum(f) = 0
  BY <1>1, SumType
<1> QED
  BY <1>2 DEF Truth

LEMMA CoreOf ==
  ASSUME NEW m \in Governed, NEW q, NEW sign, ~m.overdue
  PROVE  /\ DOMAIN Core(m, q, sign) = GroupKeys(q, Scope(m, q))
         /\ \A k \in GroupKeys(q, Scope(m, q)) :
              Core(m, q, sign)[k]
                = CellOf(m, {r \in Scope(m, q) : DimensionValue(q.dim, r) = k}, sign)
<1> DEFINE g == Grouped(m, q, sign, Scope(m, q))
<1>1. DOMAIN g = GroupKeys(q, Scope(m, q))
  BY DEF Grouped
<1>2. \A k \in DOMAIN g : g[k] = CellOf(m, {r \in Scope(m, q) : DimensionValue(q.dim, r) = k}, sign)
  BY DEF Grouped
<1> HIDE DEF g
<1>3. Having(FALSE, g) = [k \in DOMAIN g |-> g[k]]
  BY DEF Having
<1>4. Core(m, q, sign) = Having(FALSE, g)
  BY DEF Core, g
<1> QED
  BY <1>1, <1>2, <1>3, <1>4

LEMMA CoreIsRight ==
  ASSUME Numbered(facts), NEW m, NEW q, Fits(m, q), m.agg \in Summing, ~m.overdue,
         NEW sign \in {1, -1}
  PROVE  /\ DOMAIN Core(m, q, sign) = GroupKeys(q, Counted(m, q))
         /\ \A k \in DOMAIN Core(m, q, sign) :
              Right(Core(m, q, sign)[k], Truth(m, CountedIn(m, q, k)), sign)
<1>1. m \in Governed
  BY DEF Fits
<1>2. Counted(m, q) = Scope(m, q) /\ Scope(m, q) \in SUBSET DOMAIN facts
  BY ScopeIsCounted
<1>3. DOMAIN Core(m, q, sign) = GroupKeys(q, Counted(m, q))
  BY <1>1, <1>2, CoreOf
<1>4. ASSUME NEW k \in DOMAIN Core(m, q, sign)
      PROVE  Right(Core(m, q, sign)[k], Truth(m, CountedIn(m, q, k)), sign)
  <2>1. CountedIn(m, q, k) = {r \in Scope(m, q) : DimensionValue(q.dim, r) = k}
    BY <1>2 DEF CountedIn
  <2>2. Core(m, q, sign)[k] = CellOf(m, CountedIn(m, q, k), sign)
    BY <1>1, <1>2, <1>3, <2>1, CoreOf
  <2>3. CountedIn(m, q, k) \in SUBSET DOMAIN facts
    BY <1>2, <2>1
  <2> QED
    BY <1>1, <2>2, <2>3, PlainIsRight
<1> QED
  BY <1>3, <1>4

(* A key the side has no row at counts no row.                             *)
LEMMA NoRowNoCount ==
  ASSUME NEW m, NEW q, NEW k, q.dim # None, k \notin GroupKeys(q, Counted(m, q))
  PROVE  CountedIn(m, q, k) = {}
BY DEF GroupKeys, CountedIn

LEMMA RightTells ==
  ASSUME NEW c, NEW v, Right(c, v, 1)
  PROVE  Tells(c, v)
<1>1. CASE c.missing > 0
  BY <1>1 DEF Right, Tells, Full
<1>2. CASE ~(c.missing > 0)
  <2>1. v \in Int /\ c.value = v
    BY <1>2 DEF Right
  <2> QED
    BY <1>2, <2>1, MetricsAssumption DEF Right, Tells, Full, OrZero
<1> QED
  BY <1>1, <1>2

LEMMA NoCellTells == Tells(NoCell, 0)
<1>1. NoCell.missing = 0 /\ NoCell.value = None
  BY DEF NoCell
<1> QED
  BY <1>1 DEF Tells, Full, OrZero

LEMMA SideTells ==
  ASSUME Numbered(facts), NEW m, NEW q, Fits(m, q), m.agg \in Summing, ~m.overdue,
         NEW k, q.dim # None \/ k \in GroupKeys(q, Counted(m, q))
  PROVE  Tells(At(Core(m, q, 1), k), Truth(m, CountedIn(m, q, k)))
<1>1. DOMAIN Core(m, q, 1) = GroupKeys(q, Counted(m, q))
  BY CoreIsRight
<1>2. CASE k \in GroupKeys(q, Counted(m, q))
  <2>1. At(Core(m, q, 1), k) = Core(m, q, 1)[k]
    BY <1>1, <1>2 DEF At
  <2>2. Right(Core(m, q, 1)[k], Truth(m, CountedIn(m, q, k)), 1)
    BY <1>1, <1>2, CoreIsRight
  <2> QED
    BY <2>1, <2>2, RightTells
<1>3. CASE k \notin GroupKeys(q, Counted(m, q))
  <2>1. Truth(m, CountedIn(m, q, k)) = 0
    BY <1>3, NoRowNoCount, NothingCounted DEF Fits
  <2>2. At(Core(m, q, 1), k) = NoCell
    BY <1>1, <1>3 DEF At
  <2> QED
    BY <2>1, <2>2, NoCellTells
<1> QED
  BY <1>2, <1>3

-----------------------------------------------------------------------------
(* The cells of composites and quotients.                                  *)
LEMMA RightIs ==
  ASSUME NEW c, NEW v, Right(c, v, 1)
  PROVE  c.value = v /\ v \in Int \cup {None}
<1>1. CASE c.missing > 0
  BY <1>1 DEF Right
<1>2. CASE ~(c.missing > 0)
  BY <1>2 DEF Right
<1> QED
  BY <1>1, <1>2

LEMMA SumOfZeros ==
  ASSUME NEW f, Ints(f), \A x \in DOMAIN f : f[x] = 0
  PROVE  Sum(f) = 0
<1> DEFINE g == Restricted(f, {})
<1>1. Ints(g) /\ DOMAIN g = {}
  BY PartIsInts
<1>2. Sum(f) = Sum(g)
  BY SumWithoutZeros
<1>3. Sum(g) = 0
  BY <1>1, SumType
<1> QED
  BY <1>2, <1>3

LEMMA SomeInSum ==
  ASSUME NEW f, Ints(f), \A x \in DOMAIN f : f[x] \in Nat
  PROVE  Sum(f) \in Nat /\ (Sum(f) > 0 <=> \E x \in DOMAIN f : f[x] > 0)
<1>1. Sum(f) \in Int
  BY SumType
<1>2. Restricted(f, DOMAIN f) = f
  BY DEF Ints, Restricted
<1>3. \A x \in DOMAIN f : f[x] >= 0
  OBVIOUS
<1>4. 0 <= Sum(f)
  BY <1>2, <1>3, SumOfNaturals
<1>5. Sum(f) = 0 => \A x \in DOMAIN f : f[x] = 0
  BY <1>3, NothingInSum
<1>6. (\A x \in DOMAIN f : f[x] = 0) => Sum(f) = 0
  BY SumOfZeros
<1> QED
  BY <1>1, <1>4, <1>5, <1>6

LEMMA CompositeOf ==
  ASSUME NEW parts, NEW k \in UNION {DOMAIN parts[i] : i \in DOMAIN parts}
  PROVE  LET Of == {i \in DOMAIN parts : k \in DOMAIN parts[i]}
             missing == Sum([i \in Of |-> parts[i][k].missing])
         IN /\ Composite(parts)[k].missing = missing
            /\ Composite(parts)[k].value = IF missing > 0 THEN None
                                           ELSE OrZero(SqlSum([i \in Of |-> parts[i][k].value]))
BY DEF Composite

LEMMA CompositeIsRight ==
  ASSUME NEW parts, NEW s, NEW t, IsFiniteSet(DOMAIN parts),
         NEW k \in UNION {DOMAIN parts[i] : i \in DOMAIN parts},
         \A i \in DOMAIN parts :
           /\ s[i] \in {1, -1}
           /\ IF k \in DOMAIN parts[i] THEN Right(parts[i][k], t[i], s[i]) ELSE t[i] = 0
  PROVE  Right(Composite(parts)[k],
               IF \E i \in DOMAIN parts : t[i] = None THEN None
               ELSE Sum([i \in DOMAIN parts |-> s[i] * t[i]]), 1)
<1> DEFINE Of == {i \in DOMAIN parts : k \in DOMAIN parts[i]}
           lost == [i \in Of |-> parts[i][k].missing]
           have == [i \in Of |-> parts[i][k].value]
           c == Composite(parts)[k]
           all == [i \in DOMAIN parts |-> s[i] * t[i]]
<1>1. c.missing = Sum(lost) /\ c.value = IF Sum(lost) > 0 THEN None ELSE OrZero(SqlSum(have))
  BY CompositeOf
<1>2. \A i \in Of : /\ parts[i][k].missing \in Nat
                    /\ IF parts[i][k].missing > 0 THEN parts[i][k].value = None /\ t[i] = None
                       ELSE t[i] \in Int /\ parts[i][k].value = s[i] * t[i]
  BY DEF Right
<1>3. IsFiniteSet(Of)
  BY FS_Subset
<1>4. Ints(lost) /\ \A i \in DOMAIN lost : lost[i] \in Nat
  BY <1>2, <1>3 DEF Ints
<1>5. Sum(lost) \in Nat /\ (Sum(lost) > 0 <=> \E i \in DOMAIN lost : lost[i] > 0)
  <2> HIDE DEF lost
  <2> QED
    BY <1>4, SomeInSum
<1>6. Sum(lost) > 0 <=> \E i \in DOMAIN parts : t[i] = None
  <2>1. \A i \in DOMAIN parts \ Of : t[i] = 0
    OBVIOUS
  <2>2. \A i \in Of : t[i] = None <=> lost[i] > 0
    BY <1>2, MetricsAssumption
  <2>3. DOMAIN lost = Of /\ None # 0
    BY MetricsAssumption
  <2> HIDE DEF lost
  <2> QED
    BY <1>5, <2>1, <2>2, <2>3
<1>7. CASE Sum(lost) > 0
  <2> HIDE DEF lost, have, c, all
  <2> QED
    BY <1>1, <1>5, <1>6, <1>7 DEF Right, c, all
<1>8. CASE ~(Sum(lost) > 0)
  <2>1. \A i \in Of : lost[i] = 0 /\ t[i] \in Int /\ have[i] = s[i] * t[i]
    <3>1. \A i \in Of : lost[i] \in Nat /\ ~(lost[i] > 0)
      BY <1>4, <1>5, <1>8
    <3> QED
      BY <1>2, <3>1
  <2>2. \A i \in DOMAIN parts : t[i] \in Int
    BY <2>1
  <2>3. \A i \in DOMAIN parts : s[i] * t[i] \in Int
    BY <2>2
  <2>4. Ints(all)
    BY <2>3 DEF Ints
  <2>5. Restricted(all, Of) = have
    BY <2>1 DEF Restricted
  <2>6. \A i \in DOMAIN all \ Of : all[i] = 0
    <3>1. \A i \in DOMAIN parts \ Of : t[i] = 0 /\ s[i] \in Int
      OBVIOUS
    <3> QED
      BY <3>1
  <2>7. DOMAIN all = DOMAIN parts /\ Of \in SUBSET DOMAIN parts
    OBVIOUS
  <2> HIDE DEF all, have, lost, Of, c
  <2>8. Sum(all) = Sum(have) /\ Sum(all) \in Int
    BY <2>4, <2>5, <2>6, <2>7, SumWithoutZeros, SumType
  <2>9. OrZero(SqlSum(have)) = Sum(have)
    BY <2>4, <2>5, <2>7, PartIsInts, SqlSumOf
  <2> QED
    BY <1>1, <1>5, <1>6, <1>8, <2>8, <2>9 DEF Right, all, c
<1> QED
  BY <1>7, <1>8

LEMMA QuotientIsRight ==
  ASSUME NEW n, NEW d, NEW a, NEW b, Tells(n, a), Tells(d, b), NEW nonzero \in BOOLEAN
  PROVE  Quotient(nonzero, n, d, Full(n), Full(d)).value =
           IF None \in {a, b} THEN None
           ELSE IF b = 0 \/ (b < 0 /\ ~nonzero) THEN None
           ELSE <<a, b>>
<1>1. Quotient(nonzero, n, d, Full(n), Full(d)).value =
        IF n.missing + d.missing = 0 /\ b # None /\ (IF nonzero THEN b # 0 ELSE b > 0)
        THEN <<a, b>> ELSE None
  BY DEF Quotient, Tells, NoCell
<1>2. CASE n.missing > 0 \/ d.missing > 0
  <2>1. n.missing + d.missing # 0
    BY <1>2 DEF Tells
  <2>2. a = None \/ b = None
    BY <1>2 DEF Tells
  <2> QED
    BY <1>1, <2>1, <2>2
<1>3. CASE ~(n.missing > 0) /\ ~(d.missing > 0)
  <2>1. n.missing + d.missing = 0 /\ a \in Int /\ b \in Int
    BY <1>3 DEF Tells
  <2>2. a # None /\ b # None
    BY <2>1, MetricsAssumption
  <2> QED
    BY <1>1, <2>1, <2>2
<1> QED
  BY <1>2, <1>3

-----------------------------------------------------------------------------
(* Each form of statement answers what it was asked.                       *)
(* What the part i of a question is about: its metric, its rows of a group, *)
(* their value.                                                            *)
MetricOf(q, i) == q.parts[i].metric
ValueOf(q, i, k) == Truth(MetricOf(q, i), CountedIn(MetricOf(q, i), q, k))
PartKeys(q, i) == GroupKeys(q, Counted(MetricOf(q, i), q))

LEMMA PartsType ==
  ASSUME NEW q, Admissible(q)
  PROVE  /\ q.parts \in Seq(SignedMetrics) /\ DOMAIN q.parts = 1..Len(q.parts)
         /\ Len(q.parts) \in Nat \ {0} /\ q.form \in Forms /\ q.nonzero \in BOOLEAN
         /\ q.window \in {None} \cup (Int \X Int) /\ q.offset \in Int
<1>1. /\ q.parts \in Seq(SignedMetrics) /\ q.form \in Forms /\ q.nonzero \in BOOLEAN
      /\ q.window \in {None} \cup (Int \X Int) /\ q.offset \in Int
  BY DEF Admissible
<1>2. DOMAIN q.parts = 1..Len(q.parts) /\ Len(q.parts) \in Nat
  BY <1>1
<1>3. Len(q.parts) # 0
  <2>1. /\ q.form = "core" => Len(q.parts) = 1
        /\ q.form = "composite" => Len(q.parts) \in 2..5
        /\ q.form = "ratio" => Len(q.parts) = 2
    BY DEF Admissible
  <2>2. q.form \in {"core", "composite", "ratio"}
    BY <1>1 DEF Forms
  <2>3. \A n \in Nat : n = 1 \/ n = 2 \/ n \in 2..5 => n # 0
    OBVIOUS
  <2> QED
    BY <1>2, <2>1, <2>2, <2>3
<1> QED
  BY <1>1, <1>2, <1>3

LEMMA PartsFit ==
  ASSUME NEW q, Admissible(q), Sums(q)
  PROVE  /\ q.parts \in Seq(SignedMetrics) /\ DOMAIN q.parts = 1..Len(q.parts)
         /\ Len(q.parts) \in Nat \ {0} /\ q.form \in Forms /\ q.nonzero \in BOOLEAN
         /\ \A i \in DOMAIN q.parts :
              /\ Fits(MetricOf(q, i), q) /\ MetricOf(q, i).agg \in Summing
              /\ q.parts[i].sign \in {1, -1}
<1>1. /\ q.parts \in Seq(SignedMetrics) /\ DOMAIN q.parts = 1..Len(q.parts)
      /\ Len(q.parts) \in Nat \ {0} /\ q.form \in Forms /\ q.nonzero \in BOOLEAN
      /\ q.window \in {None} \cup (Int \X Int) /\ q.offset \in Int
  BY PartsType
<1>2. \A i \in DOMAIN q.parts : q.parts[i] \in SignedMetrics
  BY <1>1
<1> QED
  BY <1>1, <1>2 DEF Fits, MetricOf, Sums, Summing, SignedMetrics

LEMMA KeysAre ==
  ASSUME NEW q, DOMAIN q.parts # {}
  PROVE  /\ KeysOf(q) = UNION {PartKeys(q, i) : i \in DOMAIN q.parts}
         /\ q.dim = None => \A i \in DOMAIN q.parts : PartKeys(q, i) = KeysOf(q)
<1>1. CASE q.dim = None
  <2>1. \A i \in DOMAIN q.parts : PartKeys(q, i) = {All}
    BY <1>1 DEF PartKeys, GroupKeys
  <2>2. KeysOf(q) = {All}
    BY <1>1 DEF KeysOf
  <2>3. UNION {PartKeys(q, i) : i \in DOMAIN q.parts} = {All}
    BY <2>1
  <2> QED
    BY <2>1, <2>2, <2>3
<1>2. CASE q.dim # None
  BY <1>2 DEF PartKeys, GroupKeys, KeysOf, MetricOf
<1> QED
  BY <1>1, <1>2

(* A statement tells the truth of its groups, and of the groups it has no  *)
(* row for that it counts nothing there.                                   *)
SideTrue(q) ==
    /\ DOMAIN Table(q) = KeysOf(q)
    /\ \A k \in KeysOf(q) : Table(q)[k].value = TruthOf(q, k)
WholeTrue(q) ==
    \A k : q.dim # None \/ k \in KeysOf(q) =>
      /\ SideValue(q, At(Table(q), k)) = TruthOf(q, k)
      /\ TruthOf(q, k) \in {None} \cup (IF q.form = "ratio" THEN Int \X Int ELSE Int)

LEMMA CoreTrue ==
  ASSUME Numbered(facts), NEW q, Admissible(q), Sums(q), q.form = "core",
         ~MetricOf(q, 1).overdue
  PROVE  SideTrue(q) /\ WholeTrue(q)
<1> DEFINE m == MetricOf(q, 1)
<1>1. DOMAIN q.parts = {1}
  BY PartsFit DEF Admissible
<1>2. Fits(m, q) /\ m.agg \in Summing
  BY <1>1, PartsFit
<1>3. Table(q) = Core(m, q, 1)
  BY <1>1 DEF Table, Assembled, MetricOf
<1>4. KeysOf(q) = PartKeys(q, 1)
  BY <1>1, KeysAre
<1>5. \A k : TruthOf(q, k) = ValueOf(q, 1, k)
  BY DEF TruthOf, ValueOf, MetricOf
<1>6. DOMAIN Core(m, q, 1) = KeysOf(q)
  BY <1>2, <1>4, CoreIsRight DEF PartKeys
<1>7. \A k \in KeysOf(q) : Right(Core(m, q, 1)[k], ValueOf(q, 1, k), 1)
  BY <1>2, <1>6, CoreIsRight DEF ValueOf
<1>8. SideTrue(q)
  BY <1>3, <1>5, <1>6, <1>7, RightIs DEF SideTrue
<1>9. ASSUME NEW k, q.dim # None \/ k \in KeysOf(q)
      PROVE  /\ SideValue(q, At(Table(q), k)) = TruthOf(q, k)
             /\ TruthOf(q, k) \in {None} \cup Int
  <2>1. Tells(At(Core(m, q, 1), k), ValueOf(q, 1, k))
    BY <1>2, <1>4, <1>9, SideTells DEF PartKeys, ValueOf
  <2>2. SideValue(q, At(Core(m, q, 1), k)) = Full(At(Core(m, q, 1), k))
    BY DEF SideValue
  <2> QED
    BY <1>3, <1>5, <2>1, <2>2 DEF Tells
<1> QED
  BY <1>8, <1>9 DEF WholeTrue

LEMMA OverdueTrue ==
  ASSUME Numbered(facts), NEW q, Admissible(q), Sums(q), q.form = "core",
         MetricOf(q, 1).overdue
  PROVE  SideTrue(q)
<1> DEFINE m == MetricOf(q, 1)
           rows == Scope(m, q)
           result == Grouped(m, q, 1, rows)
           Rows(k) == {r \in rows : DimensionValue(q.dim, r) = k}
<1>1. DOMAIN q.parts = {1}
  BY PartsFit DEF Admissible
<1>2. Fits(m, q) /\ m.agg \in Summing /\ m \in Governed
  BY <1>1, PartsFit DEF Fits
<1>3. Table(q) = Having(q.dim # None, result)
  BY <1>1 DEF Table, Assembled, MetricOf, Core
<1>4. KeysOf(q) = PartKeys(q, 1)
  BY <1>1, KeysAre
<1>5. \A k : TruthOf(q, k) = ValueOf(q, 1, k)
  BY DEF TruthOf, ValueOf, MetricOf
<1>6. /\ rows \in SUBSET DOMAIN facts
      /\ Counted(m, q) = {r \in rows : Overdue(r) \/ Unassessable(r)}
  BY <1>2, ScopeIsCounted
<1>7. \A k : CountedIn(m, q, k) = {r \in Rows(k) : Overdue(r) \/ Unassessable(r)}
  BY <1>6 DEF CountedIn
<1>8. \A k : Rows(k) \in SUBSET DOMAIN facts
  BY <1>6
<1>9. DOMAIN result = GroupKeys(q, rows) /\ \A k \in DOMAIN result : result[k] = CellOf(m, Rows(k), 1)
  BY DEF Grouped
<1>10. ASSUME NEW k \in DOMAIN result
       PROVE  result[k].value = ValueOf(q, 1, k) /\ (result[k].match > 0 <=> CountedIn(m, q, k) # {})
  <2>1. Rows(k) \in SUBSET DOMAIN facts
    BY <1>8
  <2>2. result[k] = CellOf(m, Rows(k), 1)
    BY <1>9
  <2>3. CountedIn(m, q, k) = {r \in Rows(k) : Overdue(r) \/ Unassessable(r)}
    BY <1>7
  <2> HIDE DEF Rows, result, m
  <2> QED
    BY <1>2, <2>1, <2>2, <2>3, OverdueIsRight DEF ValueOf, m
<1>11. DOMAIN Table(q) = {k \in DOMAIN result : q.dim # None => result[k].match > 0}
       /\ \A k \in DOMAIN Table(q) : Table(q)[k] = result[k]
  <2> HIDE DEF result
  <2> QED
    BY <1>3 DEF Having
<1>12. PartKeys(q, 1) = {k \in GroupKeys(q, rows) : q.dim # None => CountedIn(m, q, k) # {}}
  <2>1. CASE q.dim = None
    BY <2>1 DEF PartKeys, GroupKeys
  <2>2. CASE q.dim # None
    BY <1>6, <2>2 DEF PartKeys, GroupKeys, CountedIn
  <2> QED
    BY <2>1, <2>2
<1>13. DOMAIN Table(q) = KeysOf(q)
  <2> HIDE DEF result, rows, m
  <2> QED
    BY <1>4, <1>9, <1>10, <1>11, <1>12
<1>14. \A k \in KeysOf(q) : Table(q)[k].value = TruthOf(q, k)
  <2> HIDE DEF result, rows, m
  <2> QED
    BY <1>5, <1>10, <1>11, <1>13
<1> QED
  BY <1>13, <1>14 DEF SideTrue

LEMMA CompositeTrue ==
  ASSUME Numbered(facts), NEW q, Admissible(q), Sums(q), q.form = "composite"
  PROVE  SideTrue(q) /\ WholeTrue(q)
<1> DEFINE s == [i \in DOMAIN q.parts |-> q.parts[i].sign]
           parts == [i \in DOMAIN q.parts |-> Core(MetricOf(q, i), q, s[i])]
<1>1. /\ DOMAIN q.parts = 1..Len(q.parts) /\ Len(q.parts) \in Nat \ {0}
      /\ \A i \in DOMAIN q.parts :
           /\ Fits(MetricOf(q, i), q) /\ MetricOf(q, i).agg \in Summing
           /\ s[i] \in {1, -1} /\ ~MetricOf(q, i).overdue
  BY PartsFit DEF Admissible, MetricOf
<1>2. IsFiniteSet(DOMAIN parts) /\ DOMAIN parts = DOMAIN q.parts /\ DOMAIN q.parts # {}
  <2>1. DOMAIN parts = DOMAIN q.parts
    OBVIOUS
  <2>2. PICK n \in Nat \ {0} : n = Len(q.parts)
    BY <1>1
  <2>3. IsFiniteSet(1..n)
    <3>1. 1 \in Int /\ n \in Int
      OBVIOUS
    <3> QED
      BY <3>1, FS_Interval
  <2>4. 1 \in 1..n
    OBVIOUS
  <2> HIDE DEF parts
  <2> QED
    BY <1>1, <2>1, <2>2, <2>3, <2>4
<1>3. Table(q) = Composite(parts)
  <2>1. parts = [i \in DOMAIN q.parts |-> Core(q.parts[i].metric, q, q.parts[i].sign)]
    BY DEF MetricOf
  <2> QED
    BY <2>1 DEF Table, Assembled
<1>4. \A i \in DOMAIN q.parts :
        /\ DOMAIN parts[i] = PartKeys(q, i)
        /\ \A k \in PartKeys(q, i) : Right(parts[i][k], ValueOf(q, i, k), s[i])
  <2> TAKE i \in DOMAIN q.parts
  <2>1. parts[i] = Core(MetricOf(q, i), q, s[i])
    OBVIOUS
  <2> HIDE DEF parts, s
  <2> QED
    BY <1>1, <2>1, CoreIsRight DEF PartKeys, ValueOf
<1>5. UNION {DOMAIN parts[i] : i \in DOMAIN parts} = KeysOf(q)
  <2> HIDE DEF parts
  <2> QED
    BY <1>2, <1>4, KeysAre
<1>6. DOMAIN Table(q) = KeysOf(q)
  BY <1>3, <1>5 DEF Composite
<1>7. \A k : TruthOf(q, k) = IF \E i \in DOMAIN q.parts : ValueOf(q, i, k) = None THEN None
                             ELSE Sum([i \in DOMAIN q.parts |-> s[i] * ValueOf(q, i, k)])
  <2> TAKE k
  <2>1. [i \in DOMAIN q.parts |-> s[i] * ValueOf(q, i, k)]
          = [i \in DOMAIN q.parts |-> q.parts[i].sign * ValueOf(q, i, k)]
    OBVIOUS
  <2> HIDE DEF s
  <2> QED
    BY <2>1 DEF TruthOf, ValueOf, MetricOf
<1>8. ASSUME NEW k, NEW i \in DOMAIN q.parts, k \notin PartKeys(q, i), q.dim # None
      PROVE  ValueOf(q, i, k) = 0
  BY <1>1, <1>8, NoRowNoCount, NothingCounted DEF PartKeys, ValueOf, Fits
<1>9. ASSUME NEW k \in KeysOf(q)
      PROVE  Right(Table(q)[k], TruthOf(q, k), 1)
  <2> DEFINE t == [i \in DOMAIN q.parts |-> ValueOf(q, i, k)]
  <2>1. q.dim = None => \A i \in DOMAIN q.parts : k \in PartKeys(q, i)
    BY <1>2, KeysAre
  <2>2. \A i \in DOMAIN parts :
          /\ s[i] \in {1, -1}
          /\ IF k \in DOMAIN parts[i] THEN Right(parts[i][k], t[i], s[i]) ELSE t[i] = 0
    <3> TAKE i \in DOMAIN parts
    <3>1. t[i] = ValueOf(q, i, k)
      BY <1>2
    <3> HIDE DEF parts, s, t
    <3> QED
      BY <1>1, <1>2, <1>4, <1>8, <2>1, <3>1
  <2>3. TruthOf(q, k) = IF \E i \in DOMAIN parts : t[i] = None THEN None
                        ELSE Sum([i \in DOMAIN parts |-> s[i] * t[i]])
    <3>1. [i \in DOMAIN parts |-> s[i] * t[i]] = [i \in DOMAIN q.parts |-> s[i] * ValueOf(q, i, k)]
      BY <1>2
    <3>2. \A i \in DOMAIN parts : t[i] = ValueOf(q, i, k)
      BY <1>2
    <3> HIDE DEF parts, s, t
    <3> QED
      BY <1>2, <1>7, <3>1, <3>2
  <2> HIDE DEF parts, s, t
  <2>4. k \in UNION {DOMAIN parts[i] : i \in DOMAIN parts}
    BY <1>5
  <2>5. Right(Composite(parts)[k],
              IF \E i \in DOMAIN parts : t[i] = None THEN None
              ELSE Sum([i \in DOMAIN parts |-> s[i] * t[i]]), 1)
    BY <1>2, <2>2, <2>4, CompositeIsRight
  <2> QED
    BY <1>3, <2>3, <2>5
<1>10. SideTrue(q)
  BY <1>6, <1>9, RightIs DEF SideTrue
<1>11. ASSUME NEW k, q.dim # None \/ k \in KeysOf(q)
       PROVE  Tells(At(Table(q), k), TruthOf(q, k))
  <2>1. CASE k \in KeysOf(q)
    BY <1>6, <1>9, <2>1, RightTells DEF At
  <2>2. CASE k \notin KeysOf(q)
    <3>1. \A i \in DOMAIN q.parts : ValueOf(q, i, k) = 0 /\ s[i] * ValueOf(q, i, k) = 0
      <4>1. \A i \in DOMAIN q.parts : k \notin PartKeys(q, i)
        BY <1>2, <2>2, KeysAre
      <4>2. \A i \in DOMAIN q.parts : ValueOf(q, i, k) = 0 /\ s[i] \in Int
        BY <1>1, <1>8, <1>11, <2>2, <4>1
      <4> HIDE DEF s
      <4> QED
        BY <4>2
    <3> DEFINE all == [i \in DOMAIN q.parts |-> s[i] * ValueOf(q, i, k)]
    <3>2. Ints(all) /\ \A i \in DOMAIN all : all[i] = 0
      <4>1. /\ DOMAIN all = DOMAIN q.parts
            /\ \A i \in DOMAIN q.parts : all[i] = s[i] * ValueOf(q, i, k)
            /\ all = [i \in DOMAIN all |-> all[i]]
        OBVIOUS
      <4> HIDE DEF all, s, parts
      <4> QED
        BY <1>2, <3>1, <4>1 DEF Ints
    <3> HIDE DEF all
    <3>3. Sum(all) = 0
      BY <3>2, SumOfZeros
    <3>4. TruthOf(q, k) = 0
      <4> HIDE DEF s, parts
      <4> QED
        BY <1>7, <3>1, <3>3, MetricsAssumption DEF all
    <3>5. At(Table(q), k) = NoCell
      BY <1>6, <2>2 DEF At
    <3> QED
      BY <3>4, <3>5, NoCellTells
  <2> QED
    BY <2>1, <2>2
<1>12. WholeTrue(q)
  <2> SUFFICES ASSUME NEW k, q.dim # None \/ k \in KeysOf(q)
               PROVE  /\ SideValue(q, At(Table(q), k)) = TruthOf(q, k)
                      /\ TruthOf(q, k) \in {None} \cup Int
    BY DEF WholeTrue
  <2>1. SideValue(q, At(Table(q), k)) = Full(At(Table(q), k))
    BY DEF SideValue
  <2> QED
    BY <1>11, <2>1 DEF Tells
<1> QED
  BY <1>10, <1>12

LEMMA RatioTrue ==
  ASSUME Numbered(facts), NEW q, Admissible(q), Sums(q), q.form = "ratio"
  PROVE  SideTrue(q) /\ WholeTrue(q)
<1> DEFINE parts == [i \in DOMAIN q.parts |-> Core(MetricOf(q, i), q, 1)]
<1>1. /\ DOMAIN q.parts = {1, 2} /\ q.nonzero \in BOOLEAN
      /\ \A i \in DOMAIN q.parts :
           Fits(MetricOf(q, i), q) /\ MetricOf(q, i).agg \in Summing /\ ~MetricOf(q, i).overdue
  BY PartsFit DEF Admissible, MetricOf
<1>2. Table(q) = Ratio(q.nonzero, parts)
  <2>1. parts = [i \in DOMAIN q.parts |-> Core(q.parts[i].metric, q, 1)]
    BY DEF MetricOf
  <2> QED
    BY <2>1 DEF Table, Assembled
<1>3. \A i \in {1, 2} : DOMAIN parts[i] = PartKeys(q, i)
  <2> TAKE i \in {1, 2}
  <2>1. parts[i] = Core(MetricOf(q, i), q, 1)
    BY <1>1
  <2> HIDE DEF parts
  <2> QED
    BY <1>1, <2>1, CoreIsRight DEF PartKeys
<1>4. KeysOf(q) = PartKeys(q, 1) \cup PartKeys(q, 2)
  <2>1. UNION {PartKeys(q, i) : i \in {1, 2}} = PartKeys(q, 1) \cup PartKeys(q, 2)
    OBVIOUS
  <2> QED
    BY <1>1, <2>1, KeysAre
<1>5. DOMAIN Table(q) = KeysOf(q)
  <2> HIDE DEF parts
  <2> QED
    BY <1>2, <1>3, <1>4 DEF Ratio
<1>6. ASSUME NEW k, q.dim # None \/ k \in KeysOf(q), NEW i \in {1, 2}
      PROVE  Tells(At(parts[i], k), ValueOf(q, i, k))
  <2>1. parts[i] = Core(MetricOf(q, i), q, 1)
    BY <1>1
  <2>2. q.dim # None \/ k \in PartKeys(q, i)
    BY <1>1, <1>6, KeysAre
  <2> HIDE DEF parts
  <2> QED
    BY <1>1, <2>1, <2>2, SideTells DEF PartKeys, ValueOf
<1>7. \A k : TruthOf(q, k) =
        LET a == ValueOf(q, 1, k)
            b == ValueOf(q, 2, k)
        IN IF None \in {a, b} THEN None
           ELSE IF b = 0 \/ (b < 0 /\ ~q.nonzero) THEN None
           ELSE <<a, b>>
  BY DEF TruthOf, ValueOf, MetricOf
<1>8. ASSUME NEW k \in KeysOf(q)
      PROVE  Table(q)[k].value = TruthOf(q, k)
  <2> DEFINE n == At(parts[1], k)
             d == At(parts[2], k)
  <2>1. Tells(n, ValueOf(q, 1, k)) /\ Tells(d, ValueOf(q, 2, k))
    BY <1>6
  <2>2. Table(q)[k] = Quotient(q.nonzero, n, d, Full(n), Full(d))
    <3> HIDE DEF parts
    <3> QED
      BY <1>2, <1>3, <1>4 DEF Ratio
  <2> DEFINE a == ValueOf(q, 1, k)
             b == ValueOf(q, 2, k)
  <2>3. TruthOf(q, k) = IF None \in {a, b} THEN None
                        ELSE IF b = 0 \/ (b < 0 /\ ~q.nonzero) THEN None
                        ELSE <<a, b>>
    BY <1>7
  <2> HIDE DEF n, d, a, b
  <2>4. Tells(n, a) /\ Tells(d, b)
    BY <2>1 DEF a, b
  <2>5. Quotient(q.nonzero, n, d, Full(n), Full(d)).value =
          IF None \in {a, b} THEN None
          ELSE IF b = 0 \/ (b < 0 /\ ~q.nonzero) THEN None
          ELSE <<a, b>>
    BY <1>1, <2>4, QuotientIsRight
  <2> QED
    BY <2>2, <2>3, <2>5
<1>9. SideTrue(q)
  BY <1>5, <1>8 DEF SideTrue
<1>10. ASSUME NEW k, q.dim # None \/ k \in KeysOf(q)
       PROVE  /\ SideValue(q, At(Table(q), k)) = TruthOf(q, k)
              /\ TruthOf(q, k) \in {None} \cup (Int \X Int)
  <2> DEFINE a == ValueOf(q, 1, k)
             b == ValueOf(q, 2, k)
  <2>1. a \in Int \cup {None} /\ b \in Int \cup {None}
    BY <1>6, <1>10 DEF Tells
  <2>2. TruthOf(q, k) \in {None} \cup (Int \X Int)
    <3>1. TruthOf(q, k) = None \/ (TruthOf(q, k) = <<a, b>> /\ a # None /\ b # None)
      BY <1>7
    <3> QED
      BY <2>1, <3>1
  <2>3. CASE k \in KeysOf(q)
    BY <1>5, <1>8, <2>2, <2>3 DEF At, SideValue
  <2>4. CASE k \notin KeysOf(q)
    <3>1. b = 0
      <4>1. k \notin PartKeys(q, 2) /\ q.dim # None
        BY <1>4, <1>10, <2>4
      <4> QED
        BY <1>1, <4>1, NoRowNoCount, NothingCounted DEF PartKeys, ValueOf, Fits
    <3>2. TruthOf(q, k) = None
      <4> HIDE DEF a, b
      <4> QED
        BY <1>7, <3>1 DEF a, b
    <3>3. At(Table(q), k) = NoCell
      BY <1>5, <2>4 DEF At
    <3> QED
      BY <3>2, <3>3 DEF SideValue, NoCell
  <2> QED
    BY <2>2, <2>3, <2>4
<1> QED
  BY <1>9, <1>10 DEF WholeTrue

LEMMA TableTrue ==
  ASSUME Numbered(facts), NEW q, Admissible(q), Sums(q)
  PROVE  SideTrue(q) /\ (q.compare # None => WholeTrue(q))
<1>1. q.form \in {"core", "composite", "ratio"}
  BY PartsFit DEF Forms
<1>2. CASE q.form = "core" /\ ~MetricOf(q, 1).overdue
  BY <1>2, CoreTrue
<1>3. CASE q.form = "core" /\ MetricOf(q, 1).overdue
  <2>1. DOMAIN q.parts = {1}
    BY <1>3, PartsFit DEF Admissible
  <2>2. q.compare = None
    BY <1>3, <2>1 DEF Admissible, MetricOf
  <2> QED
    BY <1>3, <2>2, OverdueTrue
<1>4. CASE q.form = "composite"
  BY <1>4, CompositeTrue
<1>5. CASE q.form = "ratio"
  BY <1>5, RatioTrue
<1> QED
  BY <1>1, <1>2, <1>3, <1>4, <1>5

(* The period before is a question as well put as the current one.         *)
LEMMA PriorAdmissible ==
  ASSUME NEW q, Admissible(q), q.compare # None
  PROVE  /\ Admissible(Prior(q)) /\ (Sums(q) => Sums(Prior(q)))
         /\ Prior(q).form = q.form /\ Prior(q).compare = q.compare /\ Prior(q).dim = q.dim
         /\ Prior(q).parts = q.parts
<1> DEFINE p == Prior(q)
           Plain == [form : Forms, parts : Seq(SignedMetrics), dim : {q.dim}, filter : {q.filter},
                     window : {None} \cup (Int \X Int), offset : Int, compare : {None} \cup Int,
                     nonzero : BOOLEAN]
<1>1. q \in Plain
  BY DEF Admissible
<1>2. CASE q.window # None
  <2>1. q.window[1] \in Int /\ q.window[2] \in Int
    BY <1>1, <1>2
  <2>2. p = [q EXCEPT !.window = <<2 * q.window[1] - q.window[2], q.window[1]>>]
    BY <1>2 DEF Prior
  <2>3. <<2 * q.window[1] - q.window[2], q.window[1]>> \in Int \X Int
    BY <2>1
  <2> HIDE DEF p
  <2> QED
    BY <1>1, <2>2, <2>3 DEF Admissible, Sums, p
<1>3. CASE q.window = None
  <2>1. p = [q EXCEPT !.offset = q.compare] /\ q.compare \in Int
    BY <1>1, <1>3 DEF Prior
  <2> HIDE DEF p
  <2> QED
    BY <1>1, <2>1 DEF Admissible, Sums, p
<1> QED
  BY <1>2, <1>3

LEMMA ComparisonTrue ==
  ASSUME Numbered(facts), NEW q, Admissible(q), Sums(q), q.compare # None
  PROVE  /\ DOMAIN Comparison(q) = KeysOf(q) \cup KeysOf(Prior(q))
         /\ \A k \in DOMAIN Comparison(q) :
              LET a == Comparison(q)[k]
                  c == TruthOf(q, k)
                  p == TruthOf(Prior(q), k)
              IN /\ a.value = c /\ a.comparison = p
                 /\ (a.delta = None) = (None \in {c, p})
                 /\ q.form # "ratio" /\ a.delta # None => a.delta = c - p
<1> DEFINE old == Prior(q)
<1>1. /\ Admissible(old) /\ Sums(old)
      /\ old.form = q.form /\ old.compare = q.compare /\ old.dim = q.dim
  BY PriorAdmissible
<1>2. SideTrue(q) /\ WholeTrue(q) /\ SideTrue(old) /\ WholeTrue(old)
  BY <1>1, TableTrue
<1>3. DOMAIN Comparison(q) = KeysOf(q) \cup KeysOf(old)
  BY <1>2 DEF Comparison, OnEitherKeys, SideBySide, SideTrue, Current
<1>4. ASSUME NEW k \in DOMAIN Comparison(q)
      PROVE  LET a == Comparison(q)[k]
                 c == TruthOf(q, k)
                 p == TruthOf(old, k)
             IN /\ a.value = c /\ a.comparison = p
                /\ (a.delta = None) = (None \in {c, p})
                /\ q.form # "ratio" /\ a.delta # None => a.delta = c - p
  <2> DEFINE now == At(Table(q), k)
             then == At(Table(old), k)
             c == TruthOf(q, k)
             p == TruthOf(old, k)
             V == IF q.form = "ratio" THEN Int \X Int ELSE Int
             d == IF c = None \/ p = None THEN None
                  ELSE IF q.form = "ratio" THEN Minus(c, p) ELSE c - p
  <2>1. (q.dim # None \/ k \in KeysOf(q)) /\ (old.dim # None \/ k \in KeysOf(old))
    <3>1. q.dim = None => KeysOf(q) = {All} /\ KeysOf(old) = {All}
      BY <1>1 DEF KeysOf
    <3> QED
      BY <1>1, <1>3, <3>1
  <2>2. /\ SideValue(q, now) = c /\ SideValue(old, then) = p
        /\ c \in {None} \cup V /\ p \in {None} \cup V
    BY <1>1, <1>2, <2>1 DEF WholeTrue
  <2>3. SideValue(q, then) = p
    BY <1>1, <2>2 DEF SideValue
  <2>4. Comparison(q)[k] = Change(q, now, then, SideValue(q, now), SideValue(q, then))
    BY DEF Comparison, OnEitherKeys, SideBySide, Current
  <2> HIDE DEF now, then, c, p, V, old
  <2>5. Comparison(q)[k] = Change(q, now, then, c, p)
    BY <2>2, <2>3, <2>4
  <2>6. /\ Change(q, now, then, c, p).value = c
        /\ Change(q, now, then, c, p).comparison = p
        /\ Change(q, now, then, c, p).delta = d
    BY DEF Change
  <2>7. c # None /\ p # None => d # None
    <3> SUFFICES ASSUME c # None, p # None PROVE d # None
      OBVIOUS
    <3>1. CASE q.form = "ratio"
      <4>1. c \in Int \X Int /\ p \in Int \X Int
        BY <2>2, <3>1 DEF V
      <4>2. Minus(c, p) \in Int \X Int
        BY <4>1 DEF Minus
      <4> QED
        BY <3>1, <4>2, MetricsAssumption
    <3>2. CASE q.form # "ratio"
      <4>1. c \in Int /\ p \in Int
        BY <2>2, <3>2 DEF V
      <4>2. c - p \in Int
        BY <4>1
      <4> QED
        BY <3>2, <4>2, MetricsAssumption
    <3> QED
      BY <3>1, <3>2
  <2>8. q.form # "ratio" /\ d # None => d = c - p
    OBVIOUS
  <2>9. (d = None) = (None \in {c, p})
    BY <2>7
  <2> HIDE DEF d
  <2>10. /\ Comparison(q)[k].value = c /\ Comparison(q)[k].comparison = p
         /\ Comparison(q)[k].delta = d
    BY <2>5, <2>6
  <2> QED
    BY <2>8, <2>9, <2>10 DEF c, p
<1> QED
  BY <1>3, <1>4 DEF old

LEMMA AnswersAreTrue == AnswersInv => AnswerTrue
<1> SUFFICES ASSUME AnswersInv, Answered, Sums(question) PROVE AnswerTrue
  BY DEF AnswerTrue
<1> DEFINE q == question
<1>1. Admissible(q) /\ Numbered(facts) /\ answer = Run(q)
  BY DEF AnswersInv, WellPut, Posed, AnswerOf, Answered, Allowed
<1>2. CASE q.compare = None
  <2>1. answer = Table(q)
    BY <1>1, <1>2 DEF Run
  <2>2. SideTrue(q)
    BY <1>1, TableTrue
  <2> QED
    BY <1>2, <2>1, <2>2 DEF AnswerTrue, SideTrue
<1>3. CASE q.compare # None
  <2>1. answer = Comparison(q)
    BY <1>1, <1>3 DEF Run
  <2>2. /\ DOMAIN Comparison(q) = KeysOf(q) \cup KeysOf(Prior(q))
        /\ \A k \in DOMAIN Comparison(q) :
             LET a == Comparison(q)[k]
                 c == TruthOf(q, k)
                 p == TruthOf(Prior(q), k)
             IN /\ a.value = c /\ a.comparison = p
                /\ (a.delta = None) = (None \in {c, p})
                /\ q.form # "ratio" /\ a.delta # None => a.delta = c - p
    BY <1>1, <1>3, ComparisonTrue
  <2> QED
    BY <1>3, <2>1, <2>2 DEF AnswerTrue, Current
<1> QED
  BY <1>2, <1>3

(* An answer has a row for exactly the groups that own a source row, and   *)
(* each number is the one its rows make, for any tables and questions.     *)
THEOREM AnswersTrue == AnswersSpec => []AnswerTrue
<1> QED
  BY AnswersInvariance, AnswersAreTrue, PTL

-----------------------------------------------------------------------------
(* What a branch that is not refused tells.                                *)
CellsOf(result, shown) == [k \in shown |-> result[k]]
CutOff(result, shown) == shown # DOMAIN result
CurrentOf(q, shown) == Proved(q.parts[1].metric, q, shown)
PriorOf(q, shown) == IF q.compare = None THEN None ELSE Proved(q.parts[1].metric, Prior(q), shown)
VerdictOf(q, shown) == Verdict(q, CurrentOf(q, shown), PriorOf(q, shown))
StateOn(q, result, shown) ==
    StateTold(q, CellsOf(result, shown), CutOff(result, shown), CurrentOf(q, shown), PriorOf(q, shown))
RowsOn(q, result, shown) ==
    RowsTold(q, CellsOf(result, shown), CutOff(result, shown), CurrentOf(q, shown))

Telling(q, additive, chosen, result, shown, told) ==
    told = Tell(q, additive, chosen, result, shown) /\ told.refused = None

LEMMA FailedIs ==
  ASSUME NEW code PROVE Failed(code).refused = code
BY DEF Failed

TellingIs(q, additive, chosen, result, shown, told) ==
    /\ told.state = StateOn(q, result, shown) /\ told.verdict = VerdictOf(q, shown)
    /\ told.claims = ClaimsOf(q, additive, VerdictOf(q, shown), RowsOn(q, result, shown))
    /\ told.period = [current |-> CurrentOf(q, shown), prior |-> PriorOf(q, shown)]
    /\ told.completeness = Completeness(told.state)
    /\ told.supports = Supports(told.state, told.claims)
    /\ told.ranking = IF OneSeries(q) /\ DOMAIN told.claims # {}
                      THEN Ranking(CurrentOf(q, shown), CutOff(result, shown), told.claims)
                      ELSE None
    /\ told.summary = IF OneSeries(q)
                      THEN Summary(q, CurrentOf(q, shown), CutOff(result, shown), told.claims, chosen)
                      ELSE None
    /\ told.state = "empty" <=> DOMAIN told.claims = {}

LEMMA ToldIs ==
  ASSUME NEW q, NEW additive, NEW chosen, NEW result, NEW shown, NEW told,
         Telling(q, additive, chosen, result, shown, told)
  PROVE  TellingIs(q, additive, chosen, result, shown, told)
<1> DEFINE rows == RowsOn(q, result, shown)
           verdict == VerdictOf(q, shown)
           claims == ClaimsOf(q, additive, verdict, rows)
           state == StateOn(q, result, shown)
           current == CurrentOf(q, shown)
           prior == PriorOf(q, shown)
           cut == CutOff(result, shown)
<1>0. told = Tell(q, additive, chosen, result, shown) /\ told.refused = None
  BY DEF Telling
<1>1. told = Wire(q, chosen, cut, state, verdict, current, prior, claims)
  <2>1. told # Failed("CONTRACT_UNAVAILABLE")
    BY <1>0, FailedIs, CalculationsAssumption DEF Codes
  <2>2. told = TellPeriods(q, additive, chosen, CellsOf(result, shown), cut, current, prior)
    BY <1>0, <2>1 DEF Tell, CellsOf, CutOff, CurrentOf, PriorOf, Current
  <2> QED
    BY <2>2 DEF TellPeriods, TellRows, VerdictOf, StateOn, RowsOn
<1> HIDE DEF rows, verdict, claims, state, current, prior, cut
<1>2. told # Failed("EVIDENCE_INTEGRITY_INVALID")
  BY <1>0, FailedIs, CalculationsAssumption DEF Codes
<1>3. /\ ~((state = "empty") # (DOMAIN claims = {}))
      /\ told = [refused |-> None, state |-> state, claims |-> claims, verdict |-> verdict,
          period |-> [current |-> current, prior |-> prior],
          completeness |-> Completeness(state), supports |-> Supports(state, claims),
          limitations |-> Limitations(state, verdict, {current, prior} \ {None}),
          ranking |-> IF OneSeries(q) /\ DOMAIN claims # {} THEN Ranking(current, cut, claims) ELSE None,
          summary |-> IF OneSeries(q) THEN Summary(q, current, cut, claims, chosen) ELSE None]
  BY <1>1, <1>2 DEF Wire
<1>4. /\ told.state = state /\ told.claims = claims /\ told.verdict = verdict
      /\ told.period = [current |-> current, prior |-> prior]
      /\ told.completeness = Completeness(state) /\ told.supports = Supports(state, claims)
      /\ told.ranking = IF OneSeries(q) /\ DOMAIN claims # {} THEN Ranking(current, cut, claims) ELSE None
      /\ told.summary = IF OneSeries(q) THEN Summary(q, current, cut, claims, chosen) ELSE None
  BY <1>3
<1>5. state = "empty" <=> DOMAIN claims = {}
  BY <1>3
<1> QED
  BY <1>4, <1>5 DEF TellingIs, rows, verdict, claims, state, current, prior, cut

LEMMA ProvedIs ==
  ASSUME NEW m, NEW q, NEW keys
  PROVE  /\ Proved(m, q, keys).source = PeriodRead(m, q).source
         /\ Proved(m, q, keys).from = PeriodRead(m, q).from
         /\ Proved(m, q, keys).to = PeriodRead(m, q).to
         /\ ~IsSnapshot(PeriodRead(m, q)) => Proved(m, q, keys).month = None
<1> DEFINE p == PeriodRead(m, q)
<1>1. p = [source |-> p.source, from |-> p.from, to |-> p.to, month |-> p.month] /\ p.month = None
  BY DEF PeriodRead
<1> HIDE DEF p
<1> QED
  BY <1>1 DEF Proved, WithMonth, p

(* Two questions of one metric whose periods are told alike read the same  *)
(* window.                                                                 *)
LEMMA SourcesDiffer ==
  ASSUME NEW m \in Governed, NEW q, q.window \in {None} \cup (Int \X Int)
  PROVE  LET p == PeriodRead(m, q)
         IN IF q.window # None
            THEN p.source = "explicit" /\ p.from = q.window[1] /\ p.to = q.window[2]
            ELSE /\ p.source # "explicit"
                 /\ p.source = "default_current_month" => p.from = Now /\ p.to = Now + 1
                 /\ IsSnapshot(p) <=> m.policy \in Snapshots
                 /\ IsWindow(p) <=> m.policy = "current_month"
<1>1. CASE q.window # None
  BY <1>1 DEF PeriodRead
<1>2. CASE q.window = None /\ m.policy = "current_month"
  BY <1>2 DEF PeriodRead, IsSnapshot, Snapshots, IsWindow, Windows
<1>3. CASE q.window = None /\ m.policy # "current_month"
  <2>1. m.policy \in {"latest_snapshot", "latest_non_null_snapshot", "current_snapshot"}
    BY <1>3 DEF Governed, Snapshots
  <2>2. PeriodRead(m, q).source = m.policy
    BY <1>3 DEF PeriodRead
  <2> QED
    BY <1>3, <2>1, <2>2 DEF IsSnapshot, Snapshots, IsWindow, Windows
<1> QED
  BY <1>1, <1>2, <1>3

LEMMA SameWindow ==
  ASSUME NEW m \in Governed, NEW l, NEW r, NEW a, NEW b,
         l.window \in {None} \cup (Int \X Int), r.window \in {None} \cup (Int \X Int),
         Proved(m, l, a) = Proved(m, r, b)
  PROVE  l.window = r.window
<1>1. /\ PeriodRead(m, l).source = PeriodRead(m, r).source
      /\ PeriodRead(m, l).from = PeriodRead(m, r).from
      /\ PeriodRead(m, l).to = PeriodRead(m, r).to
  BY ProvedIs
<1>2. CASE l.window # None
  <2>1. r.window # None
    BY <1>1, <1>2, SourcesDiffer
  <2>2. l.window[1] = r.window[1] /\ l.window[2] = r.window[2]
    BY <1>1, <1>2, <2>1, SourcesDiffer
  <2> QED
    BY <1>2, <2>1, <2>2
<1>3. CASE l.window = None
  BY <1>1, <1>3, SourcesDiffer
<1> QED
  BY <1>2, <1>3

(* Periods that may be compared are the same or both over.                 *)
LEMMA ComparableIsOver ==
  ASSUME NEW m \in Governed, NEW l, NEW r, NEW a, NEW b,
         l.window \in {None} \cup (Int \X Int), r.window \in {None} \cup (Int \X Int),
         Assess(Proved(m, l, a), Proved(m, r, b)) = "compatible", l.window # r.window
  PROVE  \A q \in {l, r} : q.window # None /\ q.window[2] <= Now
<1> DEFINE p == Proved(m, l, a)
           o == Proved(m, r, b)
<1>1. /\ p.source = PeriodRead(m, l).source /\ p.to = PeriodRead(m, l).to
      /\ o.source = PeriodRead(m, r).source /\ o.to = PeriodRead(m, r).to
  BY ProvedIs
<1>2. p # o
  BY SameWindow
<1>3. ~(IsSnapshot(p) /\ IsSnapshot(o))
  <2>1. \A q \in {l, r} : IsSnapshot(PeriodRead(m, q)) => q.window = None
    BY SourcesDiffer DEF IsSnapshot, Snapshots
  <2> QED
    BY <1>1, <2>1 DEF IsSnapshot
<1> HIDE DEF p, o
<1>4. Assess(p, o) = "compatible"
  BY DEF p, o
<1>5. {Progress(p), Progress(o)} = {"completed"}
  <2>1. ~IsSnapshot(p) /\ ~IsSnapshot(o)
    BY <1>3, <1>4 DEF Assess
  <2>2. "compatible" # None
    BY ClaimsAssumption DEF Verdicts
  <2> QED
    BY <1>2, <1>4, <2>1, <2>2 DEF Assess
<1>6. ASSUME NEW x, Progress(x) = "completed" PROVE IsWindow(x) /\ x.to <= Now
  BY <1>6, ClaimsAssumption DEF Progress, Courses
<1>7. IsWindow(p) /\ p.to <= Now /\ IsWindow(o) /\ o.to <= Now
  BY <1>5, <1>6
<1>8. ASSUME NEW q, q.window \in {None} \cup (Int \X Int),
             IsWindow(PeriodRead(m, q)), PeriodRead(m, q).to <= Now
      PROVE  q.window # None /\ q.window[2] <= Now
  <2>1. CASE q.window # None
    BY <1>8, <2>1, SourcesDiffer
  <2>2. CASE q.window = None
    <3>1. PeriodRead(m, q).to = Now + 1
      BY <1>8, <2>2, SourcesDiffer DEF IsWindow, Windows
    <3> QED
      BY <1>8, <3>1, MetricsAssumption
  <2> QED
    BY <2>1, <2>2
<1> QED
  BY <1>1, <1>7, <1>8 DEF IsWindow

-----------------------------------------------------------------------------
(* The arithmetic on two answers.                                          *)
LEMMA TruthIs ==
  ASSUME Numbered(facts), NEW m \in Governed, m.agg \in Summing, NEW rows \in SUBSET DOMAIN facts
  PROVE  Truth(m, rows) \in Int \cup {None}
<1> SUFFICES ASSUME \A r \in rows : ~Incomplete(m, r)
             PROVE  Sum([r \in rows |-> Worth(m, r)]) \in Int
  BY DEF Truth
<1> QED
  BY AggregateIsSum

LEMMA TruthType ==
  ASSUME Numbered(facts), NEW q, Admissible(q), Sums(q), q.form # "ratio", NEW k
  PROVE  TruthOf(q, k) \in Int \cup {None}
<1>1. /\ DOMAIN q.parts = 1..Len(q.parts) /\ Len(q.parts) \in Nat \ {0} /\ q.form \in Forms
      /\ \A i \in DOMAIN q.parts :
           /\ Fits(MetricOf(q, i), q) /\ MetricOf(q, i).agg \in Summing
           /\ q.parts[i].sign \in {1, -1}
  BY PartsFit
<1>2. ASSUME NEW i \in DOMAIN q.parts PROVE ValueOf(q, i, k) \in Int \cup {None}
  <2>1. CountedIn(MetricOf(q, i), q, k) \in SUBSET DOMAIN facts
    BY DEF CountedIn, Counted, Live
  <2> QED
    BY <1>1, <2>1, TruthIs DEF ValueOf, Fits
<1>3. CASE q.form = "core"
  BY <1>1, <1>2, <1>3 DEF TruthOf, ValueOf, MetricOf
<1>4. CASE q.form = "composite"
  <2> DEFINE all == [i \in DOMAIN q.parts |-> q.parts[i].sign * ValueOf(q, i, k)]
  <2>1. TruthOf(q, k) = IF \E i \in DOMAIN q.parts : ValueOf(q, i, k) = None THEN None ELSE Sum(all)
    BY <1>4 DEF TruthOf, ValueOf, MetricOf
  <2>2. ASSUME \A i \in DOMAIN q.parts : ValueOf(q, i, k) # None
        PROVE  Sum(all) \in Int
    <3>1. \A i \in DOMAIN q.parts : ValueOf(q, i, k) \in Int /\ q.parts[i].sign \in Int
      BY <1>1, <1>2, <2>2
    <3>2. \A i \in DOMAIN q.parts : q.parts[i].sign * ValueOf(q, i, k) \in Int
      BY <3>1
    <3>3. IsFiniteSet(DOMAIN q.parts)
      <4>1. PICK n \in Int : n = Len(q.parts)
        BY <1>1
      <4>2. 1 \in Int /\ IsFiniteSet(1..n)
        BY FS_Interval
      <4> QED
        BY <1>1, <4>1, <4>2
    <3>4. Ints(all)
      BY <3>2, <3>3 DEF Ints
    <3> HIDE DEF all
    <3> QED
      BY <3>4, SumType
  <2> HIDE DEF all
  <2> QED
    BY <2>1, <2>2
<1> QED
  BY <1>1, <1>3, <1>4 DEF Forms

LEMMA RunTrue ==
  ASSUME Numbered(facts), NEW q, Admissible(q), Sums(q)
  PROVE  /\ DOMAIN Run(q) = Keys(q)
         /\ \A k \in Keys(q) : Run(q)[k].value = TruthOf(q, k)
<1>1. CASE q.compare = None
  BY <1>1, TableTrue DEF Run, Keys, SideTrue
<1>2. CASE q.compare # None
  BY <1>2, ComparisonTrue DEF Run, Keys, Current
<1> QED
  BY <1>1, <1>2

LEMMA CountedFacts ==
  ASSUME NEW m, NEW q, NEW r \in Counted(m, q) PROVE r \in DOMAIN facts
BY DEF Counted, Scope, Live

LEMMA MonthsAreKeys ==
  ASSUME Numbered(facts), NEW q, q.dim = "period", NEW k \in Keys(q),
         q.compare # None => Prior(q).dim = q.dim
  PROVE  k \in Int
<1>1. ASSUME NEW o, o.dim = "period", NEW n \in KeysOf(o) PROVE n \in Int
  <2>1. o.dim # None
    BY <1>1, MetricsAssumption DEF Dimensions
  <2>2. PICK i \in DOMAIN o.parts : \E r \in Counted(o.parts[i].metric, o) : n = DimensionValue(o.dim, r)
    BY <1>1, <2>1 DEF KeysOf
  <2>3. PICK r \in Counted(o.parts[i].metric, o) : n = DimensionValue(o.dim, r)
    BY <2>2
  <2>4. n = facts[r].month
    BY <1>1, <2>3, MetricsAssumption DEF DimensionValue, Dimensions
  <2>5. r \in DOMAIN facts
    BY <2>3, CountedFacts
  <2> QED
    BY <2>4, <2>5 DEF Numbered
<1>2. CASE q.compare = None
  BY <1>1, <1>2 DEF Keys
<1>3. CASE q.compare # None
  BY <1>1, <1>3 DEF Keys, Current
<1> QED
  BY <1>2, <1>3

LEMMA ToldValues ==
  ASSUME NEW q, NEW additive, NEW chosen, NEW result, NEW shown, NEW told,
         Telling(q, additive, chosen, result, shown, told)
  PROVE  /\ DOMAIN told.claims = DOMAIN RowsOn(q, result, shown)
         /\ \A k \in DOMAIN RowsOn(q, result, shown) :
              told.claims[k] = ClaimOf(q, additive, VerdictOf(q, shown), k, RowsOn(q, result, shown)[k])
         /\ \A k \in DOMAIN RowsOn(q, result, shown) :
              told.claims[k].value = RowsOn(q, result, shown)[k].value
<1> DEFINE rows == RowsOn(q, result, shown)
           verdict == VerdictOf(q, shown)
<1>0. TellingIs(q, additive, chosen, result, shown, told)
  BY ToldIs
<1>1. told.claims = ClaimsOf(q, additive, verdict, rows)
  BY <1>0 DEF TellingIs
<1> HIDE DEF rows, verdict
<1>2. DOMAIN told.claims = DOMAIN rows
      /\ \A k \in DOMAIN rows : told.claims[k] = ClaimOf(q, additive, verdict, k, rows[k])
  BY <1>1 DEF ClaimsOf
<1>3. ASSUME NEW k \in DOMAIN rows PROVE told.claims[k].value = rows[k].value
  <2>1. told.claims[k] = ClaimOf(q, additive, verdict, k, rows[k])
    BY <1>2
  <2> QED
    BY <2>1 DEF ClaimOf
<1> QED
  BY <1>2, <1>3 DEF rows, verdict

LEMMA OperandIsTotal ==
  ASSUME Numbered(facts), NEW q, Admissible(q), Exact(q),
         NEW told, told = ToldWhole(q, Run(q)), OperandError(q, told) = None
  PROVE  q.dim = None /\ Operand(told) = TruthOf(q, All) /\ TruthOf(q, All) \in Int
<1> DEFINE result == Run(q)
           rows == RowsOn(q, result, DOMAIN result)
           cells == CellsOf(result, DOMAIN result)
           k == CHOOSE x \in DOMAIN told.claims : TRUE
<1>1. Sums(q) /\ q.form # "ratio"
  BY DEF Exact
<1>2. told = Tell(q, FALSE, {}, result, DOMAIN result)
  BY DEF ToldWhole
<1>3. /\ told.refused = None /\ Cardinality(DOMAIN told.claims) = 1
      /\ ~Displayed(q, k) /\ q.dim \in {None, "period"} /\ told.claims[k].value # None
  BY CalculationsAssumption DEF OperandError, Codes
<1>4. DOMAIN told.claims = DOMAIN rows
      /\ \A x \in DOMAIN rows : told.claims[x].value = rows[x].value
  <2>1. told.refused = None
    BY <1>3
  <2> HIDE DEF result, k, cells
  <2>2. PICK t, shown, additive, chosen :
          t = result /\ shown = DOMAIN result /\ additive = FALSE /\ chosen = {}
    OBVIOUS
  <2>3. Telling(q, additive, chosen, t, shown, told)
    BY <1>2, <2>1, <2>2 DEF Telling
  <2>4. /\ DOMAIN told.claims = DOMAIN RowsOn(q, t, shown)
        /\ \A x \in DOMAIN RowsOn(q, t, shown) : told.claims[x].value = RowsOn(q, t, shown)[x].value
    BY <2>3, ToldValues
  <2>5. rows = RowsOn(q, t, shown)
    BY <2>2 DEF rows
  <2> QED
    BY <2>4, <2>5
<1>5. DOMAIN told.claims # {}
  BY <1>3, FS_EmptySet
<1>6. k \in DOMAIN rows /\ rows[k].value # None /\ told.claims[k].value = rows[k].value
  BY <1>3, <1>4, <1>5
<1>7. rows = cells
  <2>1. rows # [x \in {None} |-> NoCell]
    BY <1>6 DEF NoCell
  <2>2. rows # <<>>
    BY <1>6
  <2> HIDE DEF rows
  <2> QED
    BY <2>1, <2>2 DEF RowsOn, RowsTold, rows
<1>8. cells = [x \in DOMAIN result |-> result[x]]
  BY DEF CellsOf
<1>9. k \in Keys(q) /\ rows[k].value = TruthOf(q, k)
  <2> HIDE DEF result, rows, cells, k
  <2>1. k \in DOMAIN result /\ rows[k] = result[k]
    BY <1>6, <1>7, <1>8
  <2> QED
    BY <1>1, <2>1, RunTrue DEF result
<1>10. q.dim = None
  <2> SUFFICES ASSUME q.dim = "period" PROVE FALSE
    BY <1>3
  <2>1. q.compare # None => Prior(q).dim = q.dim
    BY <1>1, PriorAdmissible
  <2>2. k \in Int
    BY <1>9, <2>1, MonthsAreKeys
  <2> QED
    BY <1>3, <2>2, MetricsAssumption DEF Displayed, Dimensions
<1>11. k = All
  <2>1. q.compare # None => Prior(q).dim = None
    BY <1>1, <1>10, PriorAdmissible
  <2>2. Keys(q) = {All}
    BY <1>10, <2>1 DEF Keys, KeysOf, Current
  <2> QED
    BY <1>9, <2>2
<1>12. Operand(told) = told.claims[k].value
  BY DEF Operand
<1> HIDE DEF k, rows, cells, result
<1>13. TruthOf(q, All) \in Int \cup {None} /\ TruthOf(q, All) # None
  BY <1>1, <1>6, <1>9, <1>11, TruthType
<1> QED
  BY <1>6, <1>9, <1>10, <1>11, <1>12, <1>13

LEMMA CodesAreNot ==
  ASSUME NEW q, NEW told, NEW op, NEW l, NEW r, NEW a, NEW b
  PROVE  /\ OperandError(q, told) \in Codes \cup {None}
         /\ ScopeError(op, l, r) \in Codes \cup {None}
         /\ ValueError(op, a, b) \in Codes \cup {None}
<1>1. OperandError(q, told) \in Codes \cup {None}
  BY DEF OperandError, Codes
<1>2. ScopeError(op, l, r) \in Codes \cup {None}
  BY DEF ScopeError, Codes
<1>3. ValueError(op, a, b) \in Codes \cup {None}
  BY DEF ValueError, Codes
<1> QED
  BY <1>1, <1>2, <1>3

LEMMA VerdictType ==
  ASSUME NEW l, NEW r
  PROVE  PeriodVerdict(l, r) \in Verdicts
<1>1. ASSUME NEW p, NEW o PROVE Assess(p, o) \in Verdicts \cup {None}
  BY DEF Assess, Verdicts
<1>2. AssessOperands(l.current, r.current) \in Verdicts
  BY <1>1 DEF AssessOperands, Verdicts
<1> QED
  BY <1>2 DEF PeriodVerdict, Verdicts

LEMMA ReasonsType ==
  ASSUME NEW verdict \in Verdicts, verdict # "compatible"
  PROVE  (CHOOSE c \in Reasons(verdict) : TRUE) \in Codes
<1>1. Reasons(verdict) \in SUBSET Codes /\ Reasons(verdict) # {}
  BY DEF Reasons, Verdicts, Codes
<1> QED
  BY <1>1

(* What a calculation that is not refused has passed.                      *)
LEMMA ShownIs ==
  ASSUME NEW op, NEW l, NEW r, NEW lost, Calculate(op, l, r, lost).refused = None
  PROVE  /\ OperandError(l.ask, l.told) = None /\ OperandError(r.ask, r.told) = None
         /\ ScopeError(op, l, r) = None
         /\ ValueError(op, Operand(l.told), Operand(r.told)) = None
         /\ lost = {} /\ PeriodVerdict(l.told.period, r.told.period) = "compatible"
         /\ Calculate(op, l, r, lost).value = Combined(op, Operand(l.told), Operand(r.told))
<1> DEFINE left == OperandError(l.ask, l.told)
           right == OperandError(r.ask, r.told)
           scope == ScopeError(op, l, r)
           number == ValueError(op, Operand(l.told), Operand(r.told))
           verdict == PeriodVerdict(l.told.period, r.told.period)
           reason == CHOOSE c \in Reasons(verdict) : TRUE
           shown == [refused |-> None, value |-> Combined(op, Operand(l.told), Operand(r.told))]
           calculated == Calculate(op, l, r, lost)
<1>1. calculated =
        IF left # None THEN Failed(left)
        ELSE IF right # None THEN Failed(right)
        ELSE IF scope # None THEN Failed(scope)
        ELSE IF number # None THEN Failed(number)
        ELSE IF lost # {} THEN Failed("CALCULATION_SOURCE_INTEGRITY_INVALID")
        ELSE IF verdict # "compatible" THEN Failed(reason)
        ELSE shown
  BY DEF Calculate
<1>2. verdict # "compatible" => reason # None
  BY VerdictType, ReasonsType, CalculationsAssumption
<1>3. "CALCULATION_SOURCE_INTEGRITY_INVALID" # None
  BY CalculationsAssumption DEF Codes
<1>4. shown.value = Combined(op, Operand(l.told), Operand(r.told))
  OBVIOUS
<1> HIDE DEF left, right, scope, number, verdict, reason, shown, calculated
<1>5. calculated.refused = None
  BY DEF calculated
<1>6. /\ left = None /\ right = None /\ scope = None /\ number = None /\ lost = {}
      /\ verdict = "compatible" /\ calculated = shown
  BY <1>1, <1>2, <1>3, <1>5, FailedIs
<1> QED
  BY <1>4, <1>6 DEF left, right, scope, number, verdict, calculated

LEMMA ToldPeriod ==
  ASSUME NEW q, NEW told, told = ToldWhole(q, Run(q)), told.refused = None
  PROVE  \E keys : /\ told.period.current = Proved(q.parts[1].metric, q, keys)
<1>1. PICK t, shown, additive, chosen :
        t = Run(q) /\ shown = DOMAIN t /\ additive = FALSE /\ chosen = {}
  OBVIOUS
<1>2. Telling(q, additive, chosen, t, shown, told)
  BY <1>1 DEF ToldWhole, Telling
<1>3. TellingIs(q, additive, chosen, t, shown, told)
  BY <1>2, ToldIs
<1>4. told.period = [current |-> CurrentOf(q, shown), prior |-> PriorOf(q, shown)]
  BY <1>3 DEF TellingIs
<1> QED
  BY <1>4 DEF CurrentOf

LEMMA OperandTold ==
  ASSUME NEW q, OperandError(q, WholeAnswer(q).told) = None
  PROVE  /\ WholeAnswer(q).told = ToldWhole(q, Run(q))
         /\ WholeAnswer(q).told.refused = None
<1>1. WholeAnswer(q).told.refused = None
  BY CalculationsAssumption DEF OperandError, Codes
<1>2. PlanRefusal(q) = None
  BY <1>1, FailedIs DEF WholeAnswer
<1> QED
  BY <1>1, <1>2 DEF WholeAnswer

(* Two operands read one window, or two that are over.                     *)
LEMMA OperandPeriods ==
  ASSUME NEW l, NEW r, Posed(l), Posed(r), l.parts = r.parts,
         NEW a, a = WholeAnswer(l), NEW b, b = WholeAnswer(r),
         OperandError(l, a.told) = None, OperandError(r, b.told) = None
  PROVE  /\ a.told.period = b.told.period => l.window = r.window
         /\ PeriodVerdict(a.told.period, b.told.period) = "compatible" /\ l.window # r.window =>
              \A q \in {l, r} : q.window # None /\ q.window[2] <= Now
<1> DEFINE m == l.parts[1].metric
<1>1. /\ m \in Governed /\ r.parts[1].metric = m
      /\ l.window \in {None} \cup (Int \X Int) /\ r.window \in {None} \cup (Int \X Int)
  <2>1. Admissible(l) /\ Admissible(r)
    BY DEF Posed
  <2>2. /\ l.parts \in Seq(SignedMetrics) /\ Len(l.parts) \in Nat \ {0}
        /\ l.window \in {None} \cup (Int \X Int) /\ r.window \in {None} \cup (Int \X Int)
    BY <2>1, PartsType
  <2>3. l.parts[1] \in SignedMetrics
    BY <2>2
  <2> QED
    BY <2>2, <2>3 DEF SignedMetrics
<1> HIDE DEF m
<1>2. PICK ka : a.told.period.current = Proved(m, l, ka)
  BY OperandTold, ToldPeriod DEF m
<1>3. PICK kb : b.told.period.current = Proved(m, r, kb)
  BY <1>1, OperandTold, ToldPeriod
<1>4. a.told.period = b.told.period => l.window = r.window
  BY <1>1, <1>2, <1>3, SameWindow
<1>5. ASSUME PeriodVerdict(a.told.period, b.told.period) = "compatible", l.window # r.window
      PROVE  \A q \in {l, r} : q.window # None /\ q.window[2] <= Now
  <2>1. a.told.period # b.told.period
    BY <1>4, <1>5
  <2>2. "not_assessable" # "compatible"
    OBVIOUS
  <2>3. AssessOperands(a.told.period.current, b.told.period.current) = "compatible"
    BY <1>5, <2>1, <2>2 DEF PeriodVerdict
  <2>4. Assess(a.told.period.current, b.told.period.current) = "compatible"
    BY <2>2, <2>3 DEF AssessOperands
  <2> QED
    BY <1>1, <1>2, <1>3, <1>5, <2>4, ComparableIsOver
<1> QED
  BY <1>4, <1>5

LEMMA SameFilter ==
  ASSUME NEW l, NEW r, Posed(l), Posed(r), FilterScope(l) = FilterScope(r)
  PROVE  l.filter = r.filter
<1>1. \A q \in {l, r} : /\ q.filter = None => DOMAIN FilterScope(q) = {}
                        /\ q.filter # None => /\ DOMAIN FilterScope(q) = {q.filter.dim}
                                              /\ FilterScope(q)[q.filter.dim] = q.filter.values
  BY DEF FilterScope
<1>2. CASE l.filter = None \/ r.filter = None
  BY <1>1, <1>2
<1>3. CASE l.filter # None /\ r.filter # None
  <2>1. l.filter.dim = r.filter.dim
    BY <1>1, <1>3
  <2>2. l.filter.values = r.filter.values
    BY <1>1, <1>3, <2>1
  <2> QED
    BY <1>3, <2>1, <2>2 DEF Posed
<1> QED
  BY <1>2, <1>3

LEMMA NarrowedSees ==
  ASSUME NEW l, NEW r, Posed(l), Posed(r), l.parts = r.parts, l.window = r.window,
         StrictSubsetDimensions(FilterScope(l), FilterScope(r)) # {}
  PROVE  Sees(l) \subseteq Sees(r)
<1>1. l.offset = r.offset
  BY DEF Posed
<1>2. ASSUME NEW x, Selected(l.filter, x) PROVE Selected(r.filter, x)
  <2>1. CASE r.filter = None
    BY <2>1 DEF Selected
  <2>2. CASE r.filter # None
    <3>1. /\ r.filter.dim \in DOMAIN FilterScope(l)
          /\ FilterScope(l)[r.filter.dim] \subseteq r.filter.values
      BY <2>2 DEF StrictSubsetDimensions, FilterScope
    <3>2. l.filter # None /\ l.filter.dim = r.filter.dim /\ l.filter.values \subseteq r.filter.values
      BY <3>1 DEF FilterScope
    <3> QED
      BY <1>2, <2>2, <3>2 DEF Selected
  <2> QED
    BY <2>1, <2>2
<1>3. ASSUME NEW m, NEW x PROVE InTime(m, l, x) <=> InTime(m, r, x)
  BY <1>1 DEF InTime
<1>4. \A m : Counted(m, l) \subseteq Counted(m, r)
  BY <1>2, <1>3 DEF Counted
<1> QED
  BY <1>4 DEF Sees, Current, SourceRows

LEMMA CalculationsAreTrue == AnswersInv => CalculationTrue
<1> SUFFICES ASSUME AnswersInv, answer # None, question.form = "calculation",
                    answer.result.refused = None
             PROVE  CalculationTrue
  BY DEF CalculationTrue
<1> DEFINE l == question.left
           r == question.right
           op == question.op
           a == WholeAnswer(l)
           b == WholeAnswer(r)
<1>1. /\ Posed(l) /\ Posed(r) /\ Numbered(facts) /\ op \in {"difference", "ratio", "share"}
      /\ CalculatesOf(question)
  BY DEF AnswersInv, WellPut, AnswerOf
<1>2. PICK lost \in SUBSET {"left", "right"} :
        answer = [lost |-> lost, result |-> Calculate(op, a, b, lost)]
  BY <1>1 DEF CalculatesOf
<1>3. a.ask = l /\ b.ask = r
  BY DEF WholeAnswer
<1> HIDE DEF l, r, op, a, b
<1>4. /\ OperandError(l, a.told) = None /\ OperandError(r, b.told) = None
      /\ ScopeError(op, a, b) = None
      /\ ValueError(op, Operand(a.told), Operand(b.told)) = None
      /\ lost = {} /\ PeriodVerdict(a.told.period, b.told.period) = "compatible"
      /\ answer.result.value = Combined(op, Operand(a.told), Operand(b.told))
      /\ answer.lost = {}
  <2>1. Calculate(op, a, b, lost).refused = None /\ answer.result = Calculate(op, a, b, lost)
        /\ answer.lost = lost
    BY <1>2
  <2> QED
    BY <1>3, <2>1, ShownIs
<1>5. /\ MetricBasis(l) = MetricBasis(r)
      /\ op # "share" => FilterScope(l) = FilterScope(r)
      /\ op = "share" => /\ a.told.period = b.told.period
                         /\ StrictSubsetDimensions(FilterScope(l), FilterScope(r)) # {}
  <2>1. "CALCULATION_SCOPE_MISMATCH" # None /\ "CALCULATION_SUBSET_NOT_PROVEN" # None
    BY CalculationsAssumption DEF Codes
  <2>2. CASE op # "share"
    BY <1>3, <1>4, <2>1, <2>2 DEF ScopeError
  <2>3. CASE op = "share"
    BY <1>3, <1>4, <2>1, <2>3 DEF ScopeError
  <2> QED
    BY <2>2, <2>3
<1>6. l.form = r.form /\ l.parts = r.parts
  BY <1>5 DEF MetricBasis
<1>7. /\ a.told.period = b.told.period => l.window = r.window
      /\ l.window # r.window => \A q \in {l, r} : q.window # None /\ q.window[2] <= Now
  BY <1>1, <1>4, <1>6, OperandPeriods DEF a, b
<1>8. l.filter = r.filter \/ op = "share"
  BY <1>1, <1>5, SameFilter
<1>9. op = "share" => Sees(l) \subseteq Sees(r)
  BY <1>1, <1>5, <1>6, <1>7, NarrowedSees
<1>10. ASSUME Exact(l)
       PROVE  /\ None \notin {TrueTotal(l), TrueTotal(r)}
              /\ answer.result.value = Combined(op, TrueTotal(l), TrueTotal(r))
              /\ op # "difference" => TrueTotal(r) # 0
              /\ op = "share" => 0 <= TrueTotal(l) /\ TrueTotal(l) <= TrueTotal(r)
  <2>1. Exact(r)
    BY <1>6, <1>10 DEF Exact, Sums
  <2>2. ASSUME NEW q \in {l, r}, Exact(q), NEW told, told = ToldWhole(q, Run(q)),
               OperandError(q, told) = None
        PROVE  Operand(told) = TrueTotal(q) /\ TrueTotal(q) \in Int
    <3>1. Admissible(q)
      BY <1>1 DEF Posed
    <3>2. q.dim = None /\ Operand(told) = TruthOf(q, All) /\ TruthOf(q, All) \in Int
      BY <1>1, <2>2, <3>1, OperandIsTotal
    <3>3. [q EXCEPT !.dim = None] = q
      BY <3>1, <3>2 DEF Admissible
    <3> QED
      BY <3>2, <3>3 DEF TrueTotal, Current
  <2>3. Operand(a.told) = TrueTotal(l) /\ TrueTotal(l) \in Int
    BY <1>4, <1>10, <2>2, OperandTold DEF a
  <2>4. Operand(b.told) = TrueTotal(r) /\ TrueTotal(r) \in Int
    BY <1>4, <2>1, <2>2, OperandTold DEF b
  <2>5. "CALCULATION_SHARE_OUT_OF_RANGE" # None /\ "CALCULATION_DIVISION_BY_ZERO" # None
    BY CalculationsAssumption DEF Codes
  <2>6. ASSUME NEW x \in Int, NEW y \in Int, ValueError(op, x, y) = None
        PROVE  /\ op # "difference" => y # 0
               /\ op = "share" => 0 <= x /\ x <= y
    <3>1. CASE op = "share"
      BY <2>5, <2>6, <3>1 DEF ValueError
    <3>2. CASE op = "ratio"
      BY <2>5, <2>6, <3>2 DEF ValueError
    <3> QED
      BY <1>1, <3>1, <3>2
  <2>7. None \notin Int
    BY MetricsAssumption
  <2> QED
    BY <1>4, <2>3, <2>4, <2>6, <2>7
<1> QED
  BY <1>4, <1>7, <1>8, <1>9, <1>10 DEF CalculationTrue, l, r, op

(* A number derived from two answers is the arithmetic of two true totals  *)
(* of one metric, of periods that are over or the same, and a share that   *)
(* of a part of its whole, for any tables and questions.                   *)
THEOREM CalculationsTrue == AnswersSpec => []CalculationTrue
<1> QED
  BY AnswersInvariance, CalculationsAreTrue, PTL

-----------------------------------------------------------------------------
(* The counts beside a value, whatever the aggregation: a cell matches     *)
(* something exactly when a source row counts there.                       *)
CountsRows(c, rows) ==
    /\ c.missing \in Nat /\ c.known \in Nat /\ c.match \in Nat
    /\ (c.match > 0 <=> rows # {}) /\ (c.missing + c.known > 0 <=> rows # {})
(* The source rows of a group, of all parts of a question.                 *)
GroupRows(q, k) == UNION {CountedIn(MetricOf(q, i), q, k) : i \in DOMAIN q.parts}

LEMMA PlainCounts ==
  ASSUME Numbered(facts), NEW m, ~m.overdue, NEW rows \in SUBSET DOMAIN facts, NEW sign
  PROVE  CountsRows(CellOf(m, rows, sign), rows)
<1> DEFINE incomplete == {r \in rows : Incomplete(m, r)}
           rest == rows \ incomplete
           c == CellOf(m, rows, sign)
<1>1. IsFiniteSet(incomplete) /\ IsFiniteSet(rest)
  BY FS_Subset DEF Numbered
<1>2. /\ Cardinality(incomplete) \in Nat /\ (Cardinality(incomplete) > 0 <=> incomplete # {})
      /\ Cardinality(rest) \in Nat /\ (Cardinality(rest) > 0 <=> rest # {})
  BY <1>1, HasSome
<1>3. /\ c.missing = Cardinality(incomplete) /\ c.known = Cardinality(rest)
      /\ c.match = Cardinality(rest) + Cardinality(incomplete)
  BY DEF CellOf, PlainCell, Cell
<1>4. rows # {} <=> incomplete # {} \/ rest # {}
  OBVIOUS
<1> HIDE DEF incomplete, rest, c
<1> QED
  BY <1>2, <1>3, <1>4 DEF CountsRows, c

LEMMA OverdueCounts ==
  ASSUME Numbered(facts), NEW m, m.overdue, NEW rows \in SUBSET DOMAIN facts, NEW sign
  PROVE  CountsRows(CellOf(m, rows, sign), {r \in rows : Overdue(r) \/ Unassessable(r)})
<1> DEFINE eligible == {r \in rows : Overdue(r)}
           unknown == {r \in rows : Unassessable(r)}
           selected == {r \in eligible : ~Incomplete(m, r) /\ Measure(m, r) # None}
           counted == {r \in rows : Overdue(r) \/ Unassessable(r)}
           doubtful == eligible \ selected
           c == CellOf(m, rows, sign)
<1>1. IsFiniteSet(selected) /\ IsFiniteSet(unknown) /\ IsFiniteSet(doubtful)
  BY FS_Subset DEF Numbered
<1>2. /\ Cardinality(selected) \in Nat /\ (Cardinality(selected) > 0 <=> selected # {})
      /\ Cardinality(unknown) \in Nat /\ (Cardinality(unknown) > 0 <=> unknown # {})
      /\ Cardinality(doubtful) \in Nat /\ (Cardinality(doubtful) > 0 <=> doubtful # {})
  BY <1>1, HasSome
<1>3. /\ c.missing = Cardinality(unknown) + Cardinality(doubtful)
      /\ c.known = Cardinality(selected)
      /\ c.match = Cardinality(selected) + (Cardinality(unknown) + Cardinality(doubtful))
  BY DEF CellOf, OverdueCell, Cell
<1>4. counted # {} <=> selected # {} \/ unknown # {} \/ doubtful # {}
  OBVIOUS
<1> HIDE DEF eligible, unknown, selected, counted, doubtful, c
<1>5. CountsRows(c, counted)
  BY <1>2, <1>3, <1>4 DEF CountsRows
<1> QED
  BY <1>5 DEF c, counted

LEMMA CoreCounts ==
  ASSUME Numbered(facts), NEW m, NEW q, Fits(m, q), NEW sign
  PROVE  /\ DOMAIN Core(m, q, sign) = GroupKeys(q, Counted(m, q))
         /\ \A k \in GroupKeys(q, Counted(m, q)) :
              CountsRows(Core(m, q, sign)[k], CountedIn(m, q, k))
<1> DEFINE rows == Scope(m, q)
           result == Grouped(m, q, sign, rows)
           Rows(k) == {r \in rows : DimensionValue(q.dim, r) = k}
<1>1. m \in Governed /\ m.overdue \in BOOLEAN
  BY DEF Fits, Governed
<1>2. /\ rows \in SUBSET DOMAIN facts
      /\ Counted(m, q) = {r \in rows : m.overdue => Overdue(r) \/ Unassessable(r)}
  BY ScopeIsCounted
<1>3. \A k : CountedIn(m, q, k) = {r \in Rows(k) : m.overdue => Overdue(r) \/ Unassessable(r)}
  BY <1>2 DEF CountedIn
<1>4. DOMAIN result = GroupKeys(q, rows) /\ \A k \in DOMAIN result : result[k] = CellOf(m, Rows(k), sign)
  BY DEF Grouped
<1>5. ASSUME NEW k \in DOMAIN result
      PROVE  CountsRows(result[k], CountedIn(m, q, k))
  <2>1. Rows(k) \in SUBSET DOMAIN facts
    BY <1>2
  <2>2. result[k] = CellOf(m, Rows(k), sign)
    BY <1>4
  <2>3. CountedIn(m, q, k) = {r \in Rows(k) : m.overdue => Overdue(r) \/ Unassessable(r)}
    BY <1>3
  <2> HIDE DEF Rows, result
  <2>4. CASE m.overdue
    <3>1. CountedIn(m, q, k) = {r \in Rows(k) : Overdue(r) \/ Unassessable(r)}
      BY <2>3, <2>4
    <3> QED
      BY <2>1, <2>2, <2>4, <3>1, OverdueCounts
  <2>5. CASE ~m.overdue
    <3>1. CountedIn(m, q, k) = Rows(k)
      BY <2>3, <2>5
    <3> QED
      BY <2>1, <2>2, <2>5, <3>1, PlainCounts
  <2> QED
    BY <2>4, <2>5
<1>6. DOMAIN Core(m, q, sign) = {k \in DOMAIN result : m.overdue /\ q.dim # None => result[k].match > 0}
      /\ \A k \in DOMAIN Core(m, q, sign) : Core(m, q, sign)[k] = result[k]
  <2> HIDE DEF result
  <2>1. Core(m, q, sign) = Having(m.overdue /\ q.dim # None, result)
    BY DEF Core, result
  <2> QED
    BY <2>1 DEF Having
<1>7. GroupKeys(q, Counted(m, q))
        = {k \in GroupKeys(q, rows) : m.overdue /\ q.dim # None => CountedIn(m, q, k) # {}}
  <2>1. CASE q.dim = None
    BY <2>1 DEF GroupKeys
  <2>2. CASE q.dim # None
    <3>1. GroupKeys(q, Counted(m, q)) = {DimensionValue(q.dim, r) : r \in Counted(m, q)}
          /\ GroupKeys(q, rows) = {DimensionValue(q.dim, r) : r \in rows}
      BY <2>2 DEF GroupKeys
    <3>2. ~m.overdue => Counted(m, q) = rows
      BY <1>2
    <3>3. Counted(m, q) \subseteq rows
      BY <1>2
    <3>4. {DimensionValue(q.dim, r) : r \in Counted(m, q)}
            = {k \in {DimensionValue(q.dim, r) : r \in rows} : CountedIn(m, q, k) # {}}
      BY <3>3 DEF CountedIn
    <3>5. ~m.overdue => \A k \in {DimensionValue(q.dim, r) : r \in rows} : CountedIn(m, q, k) # {}
      BY <3>2 DEF CountedIn
    <3> HIDE DEF rows
    <3> QED
      BY <2>2, <3>1, <3>4, <3>5
  <2> QED
    BY <2>1, <2>2
<1> HIDE DEF result, rows, Rows
<1>8. \A k \in DOMAIN result : result[k].match > 0 <=> CountedIn(m, q, k) # {}
  BY <1>5 DEF CountsRows
<1>9. DOMAIN Core(m, q, sign) = GroupKeys(q, Counted(m, q))
  BY <1>4, <1>6, <1>7, <1>8
<1> QED
  BY <1>5, <1>6, <1>9

LEMMA PartsAre ==
  ASSUME NEW q, Admissible(q)
  PROVE  /\ DOMAIN q.parts = 1..Len(q.parts) /\ Len(q.parts) \in Nat \ {0} /\ q.form \in Forms
         /\ IsFiniteSet(DOMAIN q.parts) /\ 1 \in DOMAIN q.parts
         /\ \A i \in DOMAIN q.parts : Fits(MetricOf(q, i), q) /\ q.parts[i].sign \in {1, -1}
         /\ q.form = "core" => DOMAIN q.parts = {1}
         /\ q.form = "ratio" => DOMAIN q.parts = {1, 2}
<1>1. /\ q.parts \in Seq(SignedMetrics) /\ DOMAIN q.parts = 1..Len(q.parts)
      /\ Len(q.parts) \in Nat \ {0} /\ q.form \in Forms
      /\ q.window \in {None} \cup (Int \X Int) /\ q.offset \in Int
  BY PartsType
<1>2. \A i \in DOMAIN q.parts : q.parts[i] \in SignedMetrics
  BY <1>1
<1>3. \A i \in DOMAIN q.parts : Fits(MetricOf(q, i), q) /\ q.parts[i].sign \in {1, -1}
  BY <1>1, <1>2 DEF Fits, MetricOf, SignedMetrics
<1>4. IsFiniteSet(DOMAIN q.parts) /\ 1 \in DOMAIN q.parts
  <2>1. PICK n \in Nat \ {0} : n = Len(q.parts)
    BY <1>1
  <2>2. IsFiniteSet(1..n) /\ 1 \in 1..n
    <3>1. 1 \in Int /\ n \in Int
      OBVIOUS
    <3>2. IsFiniteSet(1..n)
      BY <3>1, FS_Interval
    <3> QED
      BY <3>2
  <2> QED
    BY <1>1, <2>1, <2>2
<1>5. /\ q.form = "core" => Len(q.parts) = 1
      /\ q.form = "ratio" => Len(q.parts) = 2
  BY DEF Admissible
<1>6. 1..1 = {1} /\ 1..2 = {1, 2}
  OBVIOUS
<1> QED
  BY <1>1, <1>3, <1>4, <1>5, <1>6

LEMMA CompositeCounts ==
  ASSUME NEW parts, NEW R, IsFiniteSet(DOMAIN parts),
         NEW k \in UNION {DOMAIN parts[i] : i \in DOMAIN parts},
         \A i \in DOMAIN parts : k \in DOMAIN parts[i] => CountsRows(parts[i][k], R[i]),
         \A i \in DOMAIN parts : k \notin DOMAIN parts[i] => R[i] = {},
         NEW all, \A r : r \in all <=> \E i \in DOMAIN parts : r \in R[i]
  PROVE  CountsRows(Composite(parts)[k], all)
<1> DEFINE Of == {i \in DOMAIN parts : k \in DOMAIN parts[i]}
           miss == [i \in Of |-> parts[i][k].missing]
           know == [i \in Of |-> parts[i][k].known]
           meet == [i \in Of |-> parts[i][k].match]
           c == Composite(parts)[k]
<1>1. c.missing = Sum(miss) /\ c.known = Sum(know) /\ c.match = Sum(meet)
  BY DEF Composite
<1>2. IsFiniteSet(Of)
  BY FS_Subset
<1>3. \A i \in Of : CountsRows(parts[i][k], R[i])
  OBVIOUS
<1>4. /\ Ints(miss) /\ DOMAIN miss = Of /\ \A i \in Of : miss[i] \in Nat
      /\ Ints(know) /\ DOMAIN know = Of /\ \A i \in Of : know[i] \in Nat
      /\ Ints(meet) /\ DOMAIN meet = Of /\ \A i \in Of : meet[i] \in Nat
  BY <1>2, <1>3 DEF Ints, CountsRows
<1>5. \A i \in Of : (meet[i] > 0 <=> R[i] # {}) /\ (miss[i] + know[i] > 0 <=> R[i] # {})
  BY <1>3 DEF CountsRows
<1>6. all # {} <=> \E i \in Of : R[i] # {}
  <2>1. \A i \in DOMAIN parts \ Of : R[i] = {}
    OBVIOUS
  <2>2. Of \subseteq DOMAIN parts
    OBVIOUS
  <2> HIDE DEF Of
  <2> QED
    BY <2>1, <2>2
<1> HIDE DEF Of, miss, know, meet, c
<1>7. /\ Sum(miss) \in Nat /\ (Sum(miss) > 0 <=> \E i \in Of : miss[i] > 0)
      /\ Sum(know) \in Nat /\ (Sum(know) > 0 <=> \E i \in Of : know[i] > 0)
      /\ Sum(meet) \in Nat /\ (Sum(meet) > 0 <=> \E i \in Of : meet[i] > 0)
  BY <1>4, SomeInSum
<1>8. \A i \in Of : miss[i] + know[i] > 0 <=> miss[i] > 0 \/ know[i] > 0
  BY <1>4
<1>9. Sum(miss) + Sum(know) > 0 <=> Sum(miss) > 0 \/ Sum(know) > 0
  BY <1>7
<1>10. CountsRows(c, all)
  BY <1>1, <1>5, <1>6, <1>7, <1>8, <1>9 DEF CountsRows
<1> QED
  BY <1>10 DEF c

LEMMA NoCellCounts == CountsRows(NoCell, {})
<1>1. NoCell.missing = 0 /\ NoCell.known = 0 /\ NoCell.match = 0
  BY DEF NoCell
<1> QED
  BY <1>1 DEF CountsRows

LEMMA SumCounts ==
  ASSUME NEW a, NEW b, NEW c, NEW A, NEW B, CountsRows(a, A), CountsRows(b, B),
         c.missing = a.missing + b.missing, c.known = a.known + b.known, c.match = a.match + b.match
  PROVE  CountsRows(c, A \cup B)
<1>1. A \cup B # {} <=> A # {} \/ B # {}
  OBVIOUS
<1> QED
  BY <1>1 DEF CountsRows

LEMMA PartCounts ==
  ASSUME Numbered(facts), NEW m, NEW q, Fits(m, q), NEW sign, NEW k,
         q.dim # None \/ k \in GroupKeys(q, Counted(m, q))
  PROVE  CountsRows(At(Core(m, q, sign), k), CountedIn(m, q, k))
<1>1. DOMAIN Core(m, q, sign) = GroupKeys(q, Counted(m, q))
  BY CoreCounts
<1>2. CASE k \in GroupKeys(q, Counted(m, q))
  BY <1>1, <1>2, CoreCounts DEF At
<1>3. CASE k \notin GroupKeys(q, Counted(m, q))
  <2>1. CountedIn(m, q, k) = {}
    BY <1>3, NoRowNoCount
  <2>2. At(Core(m, q, sign), k) = NoCell
    BY <1>1, <1>3 DEF At
  <2> QED
    BY <2>1, <2>2, NoCellCounts
<1> QED
  BY <1>2, <1>3

LEMMA TableCounts ==
  ASSUME Numbered(facts), NEW q, Admissible(q)
  PROVE  /\ DOMAIN Table(q) = KeysOf(q)
         /\ \A k : q.dim # None \/ k \in KeysOf(q) => CountsRows(At(Table(q), k), GroupRows(q, k))
<1> DEFINE s == [i \in DOMAIN q.parts |-> IF q.form = "composite" THEN q.parts[i].sign ELSE 1]
           parts == [i \in DOMAIN q.parts |-> Core(MetricOf(q, i), q, s[i])]
<1>1. /\ IsFiniteSet(DOMAIN q.parts) /\ 1 \in DOMAIN q.parts /\ q.form \in Forms
      /\ \A i \in DOMAIN q.parts : Fits(MetricOf(q, i), q)
      /\ q.form = "core" => DOMAIN q.parts = {1}
      /\ q.form = "ratio" => DOMAIN q.parts = {1, 2}
  BY PartsAre
<1>2. Table(q) = Assembled(q, parts)
  <2>1. parts = [i \in DOMAIN q.parts |->
                   Core(q.parts[i].metric, q, IF q.form = "composite" THEN q.parts[i].sign ELSE 1)]
    BY DEF MetricOf
  <2> QED
    BY <2>1 DEF Table
<1>3. /\ DOMAIN parts = DOMAIN q.parts
      /\ \A i \in DOMAIN q.parts : parts[i] = Core(MetricOf(q, i), q, s[i])
  OBVIOUS
<1> HIDE DEF parts, s
<1>4. \A i \in DOMAIN q.parts : DOMAIN parts[i] = PartKeys(q, i)
  BY <1>1, <1>3, CoreCounts DEF PartKeys
<1>5. ASSUME NEW k, q.dim # None \/ k \in KeysOf(q), NEW i \in DOMAIN q.parts
      PROVE  /\ CountsRows(At(parts[i], k), CountedIn(MetricOf(q, i), q, k))
             /\ k \notin PartKeys(q, i) => CountedIn(MetricOf(q, i), q, k) = {}
  <2>1. q.dim # None \/ k \in PartKeys(q, i)
    BY <1>1, <1>5, KeysAre
  <2>2. CountsRows(At(Core(MetricOf(q, i), q, s[i]), k), CountedIn(MetricOf(q, i), q, k))
    BY <1>1, <2>1, PartCounts DEF PartKeys
  <2>3. k \notin PartKeys(q, i) => CountedIn(MetricOf(q, i), q, k) = {}
    BY <2>1, NoRowNoCount DEF PartKeys
  <2> QED
    BY <1>3, <2>2, <2>3
<1>6. KeysOf(q) = UNION {PartKeys(q, i) : i \in DOMAIN q.parts}
  BY <1>1, KeysAre
<1>7. CASE q.form = "core"
  <2>1. Table(q) = parts[1]
    BY <1>2, <1>7 DEF Assembled
  <2>2. KeysOf(q) = PartKeys(q, 1)
    BY <1>1, <1>6, <1>7
  <2>3. \A k : GroupRows(q, k) = CountedIn(MetricOf(q, 1), q, k)
    BY <1>1, <1>7 DEF GroupRows
  <2> QED
    BY <1>1, <1>4, <1>5, <2>1, <2>2, <2>3
<1>8. CASE q.form = "composite"
  <2>1. Table(q) = Composite(parts)
    BY <1>2, <1>8 DEF Assembled
  <2>2. UNION {DOMAIN parts[i] : i \in DOMAIN parts} = KeysOf(q)
    BY <1>3, <1>4, <1>6
  <2>3. DOMAIN Table(q) = KeysOf(q)
    BY <2>1, <2>2 DEF Composite
  <2>4. ASSUME NEW k, q.dim # None \/ k \in KeysOf(q)
        PROVE  CountsRows(At(Table(q), k), GroupRows(q, k))
    <3> DEFINE R == [i \in DOMAIN q.parts |-> CountedIn(MetricOf(q, i), q, k)]
    <3>1. GroupRows(q, k) = UNION {R[i] : i \in DOMAIN parts}
      BY <1>3 DEF GroupRows
    <3>2. /\ \A i \in DOMAIN parts : k \in DOMAIN parts[i] => CountsRows(parts[i][k], R[i])
          /\ \A i \in DOMAIN parts : k \notin DOMAIN parts[i] => R[i] = {}
      <4>1. ASSUME NEW i \in DOMAIN parts
            PROVE  CountsRows(At(parts[i], k), R[i]) /\ (k \notin DOMAIN parts[i] => R[i] = {})
        BY <1>3, <1>4, <1>5, <2>4
      <4> HIDE DEF R
      <4> QED
        BY <4>1 DEF At
    <3> HIDE DEF R
    <3>3. CASE k \in KeysOf(q)
      <4>1. CountsRows(Composite(parts)[k], GroupRows(q, k))
        <5>1. k \in UNION {DOMAIN parts[i] : i \in DOMAIN parts} /\ IsFiniteSet(DOMAIN parts)
          BY <1>1, <1>3, <2>2, <3>3
        <5>2. \A r : r \in GroupRows(q, k) <=> \E i \in DOMAIN parts : r \in R[i]
          BY <3>1
        <5> QED
          BY <3>2, <5>1, <5>2, CompositeCounts
      <4> QED
        BY <2>1, <2>3, <3>1, <3>3, <4>1 DEF At
    <3>4. CASE k \notin KeysOf(q)
      <4>1. \A i \in DOMAIN parts : R[i] = {}
        BY <2>2, <3>2, <3>4
      <4>2. GroupRows(q, k) = {}
        BY <3>1, <4>1
      <4> QED
        BY <2>3, <3>4, <4>2, NoCellCounts DEF At
    <3> QED
      BY <3>3, <3>4
  <2> QED
    BY <2>3, <2>4
<1>9. CASE q.form = "ratio"
  <2>1. Table(q) = Ratio(q.nonzero, parts)
    BY <1>2, <1>9 DEF Assembled
  <2>2. DOMAIN parts[1] \cup DOMAIN parts[2] = KeysOf(q)
    <3>1. UNION {PartKeys(q, i) : i \in {1, 2}} = PartKeys(q, 1) \cup PartKeys(q, 2)
      OBVIOUS
    <3> QED
      BY <1>1, <1>4, <1>6, <1>9, <3>1
  <2>3. DOMAIN Table(q) = KeysOf(q)
    BY <2>1, <2>2 DEF Ratio
  <2>4. ASSUME NEW k, q.dim # None \/ k \in KeysOf(q)
        PROVE  CountsRows(At(Table(q), k), GroupRows(q, k))
    <3> DEFINE A == CountedIn(MetricOf(q, 1), q, k)
               B == CountedIn(MetricOf(q, 2), q, k)
               n == At(parts[1], k)
               d == At(parts[2], k)
    <3>1. GroupRows(q, k) = A \cup B
      BY <1>1, <1>9 DEF GroupRows
    <3>2. CountsRows(n, A) /\ CountsRows(d, B)
      BY <1>1, <1>5, <1>9, <2>4
    <3>3. CASE k \in KeysOf(q)
      <4> DEFINE c == Quotient(q.nonzero, n, d, Full(n), Full(d))
      <4>1. At(Table(q), k) = c
        BY <2>1, <2>2, <2>3, <3>3 DEF At, Ratio
      <4>2. c.missing = n.missing + d.missing /\ c.known = n.known + d.known
            /\ c.match = n.match + d.match
        BY DEF Quotient, NoCell
      <4> HIDE DEF A, B, n, d, c
      <4>3. CountsRows(c, A \cup B)
        BY <3>2, <4>2, SumCounts
      <4> QED
        BY <3>1, <4>1, <4>3
    <3>4. CASE k \notin KeysOf(q)
      <4>1. A = {} /\ B = {}
        <5>1. k \notin PartKeys(q, 1) /\ k \notin PartKeys(q, 2)
          BY <1>1, <1>9, <2>2, <1>4, <3>4
        <5> QED
          BY <1>1, <1>5, <1>9, <2>4, <5>1
      <4>2. GroupRows(q, k) = {}
        BY <3>1, <4>1
      <4> QED
        BY <2>3, <3>4, <4>2, NoCellCounts DEF At
    <3> QED
      BY <3>3, <3>4
  <2> QED
    BY <2>3, <2>4
<1> QED
  BY <1>1, <1>7, <1>8, <1>9 DEF Forms

-----------------------------------------------------------------------------
SideRows(q, k) == UNION {GroupRows(s, k) : s \in Sides(q)}

LEMMA RunCounts ==
  ASSUME Numbered(facts), NEW q, Admissible(q)
  PROVE  /\ DOMAIN Run(q) = Keys(q)
         /\ \A k \in Keys(q) : CountsRows(Run(q)[k], SideRows(q, k))
<1>1. CASE q.compare = None
  <2>1. Run(q) = Table(q) /\ Keys(q) = KeysOf(q) /\ Sides(q) = {q}
    BY <1>1 DEF Run, Keys, Sides
  <2>2. \A k : SideRows(q, k) = GroupRows(q, k)
    BY <2>1 DEF SideRows
  <2> QED
    BY <2>1, <2>2, TableCounts DEF At
<1>2. CASE q.compare # None
  <2> DEFINE old == Prior(q)
  <2>1. Admissible(old) /\ old.dim = q.dim /\ old.form = q.form
    BY <1>2, PriorAdmissible
  <2>2. /\ Run(q) = Comparison(q) /\ Keys(q) = KeysOf(q) \cup KeysOf(old) /\ Sides(q) = {q, old}
    BY <1>2 DEF Run, Keys, Sides, Current
  <2>3. \A k : SideRows(q, k) = GroupRows(q, k) \cup GroupRows(old, k)
    BY <2>2 DEF SideRows
  <2>4. DOMAIN Table(q) = KeysOf(q) /\ DOMAIN Table(old) = KeysOf(old)
    BY <2>1, TableCounts
  <2>5. DOMAIN Run(q) = Keys(q)
    BY <2>2, <2>4 DEF Comparison, OnEitherKeys, SideBySide, Current
  <2>6. ASSUME NEW k \in Keys(q)
        PROVE  CountsRows(Run(q)[k], SideRows(q, k))
    <3> DEFINE now == At(Table(q), k)
               then == At(Table(old), k)
               a == SideValue(q, now)
               b == SideValue(q, then)
               c == Change(q, now, then, a, b)
    <3>1. (q.dim # None \/ k \in KeysOf(q)) /\ (old.dim # None \/ k \in KeysOf(old))
      <4>1. q.dim = None => KeysOf(q) = {All} /\ KeysOf(old) = {All}
        BY <2>1 DEF KeysOf
      <4> QED
        BY <2>1, <2>2, <4>1
    <3>2. CountsRows(now, GroupRows(q, k)) /\ CountsRows(then, GroupRows(old, k))
      BY <2>1, <3>1, TableCounts
    <3>3. Run(q)[k] = c
      BY <2>2, <2>4 DEF Comparison, OnEitherKeys, SideBySide, Current
    <3> HIDE DEF now, then, a, b
    <3>4. /\ c.missing = now.missing + then.missing /\ c.known = now.known + then.known
          /\ c.match = now.match + then.match
      BY DEF Change
    <3> HIDE DEF c, old
    <3> QED
      BY <2>3, <3>2, <3>3, <3>4, SumCounts
  <2> QED
    BY <2>5, <2>6
<1> QED
  BY <1>1, <1>2

(* Where an amount is unknown no value is told, and where all are known    *)
(* one is.                                                                 *)
LEMMA OverdueMarks ==
  ASSUME Numbered(facts), NEW m \in Governed, m.agg \in Summing, m.overdue,
         NEW rows \in SUBSET DOMAIN facts
  PROVE  LET c == CellOf(m, rows, 1)
         IN /\ c.missing > 0 => c.value = None
            /\ c.missing = 0 /\ c.known > 0 => c.value # None
<1> DEFINE eligible == {r \in rows : Overdue(r)}
           selected == {r \in eligible : ~Incomplete(m, r) /\ Measure(m, r) # None}
           c == CellOf(m, rows, 1)
           sum == Signed(Aggregate(m, selected), 1)
<1>1. IsFiniteSet(selected) /\ selected \in SUBSET DOMAIN facts
  BY FS_Subset DEF Numbered
<1>2. Cardinality(selected) \in Nat /\ (Cardinality(selected) > 0 <=> selected # {})
  BY <1>1, HasSome
<1>3. /\ c.known = Cardinality(selected)
      /\ c.value = IF c.missing > 0 THEN None ELSE IF selected = {} THEN None ELSE sum
  BY DEF CellOf, OverdueCell, Cell
<1>4. sum # None
  <2>1. \A r \in selected : ~Incomplete(m, r)
    OBVIOUS
  <2> HIDE DEF selected
  <2>2. Aggregate(m, selected) \in Int
    BY <1>1, <2>1, AggregateIsSum
  <2>3. sum = Aggregate(m, selected)
    BY DEF Signed
  <2> QED
    BY <2>2, <2>3, MetricsAssumption
<1> HIDE DEF eligible, selected, c, sum
<1>5. (c.missing > 0 => c.value = None) /\ (c.missing = 0 /\ c.known > 0 => c.value # None)
  <2>1. ASSUME c.missing = 0 PROVE ~(c.missing > 0)
    BY <2>1
  <2> QED
    BY <1>2, <1>3, <1>4, <2>1
<1> QED
  BY <1>5 DEF c

LEMMA FullMarks ==
  ASSUME NEW c, c.missing \in Nat
  PROVE  /\ c.missing > 0 => Full(c) = None
         /\ c.missing = 0 => Full(c) # None
<1>1. OrZero(c.value) # None
  BY MetricsAssumption DEF OrZero
<1> QED
  BY <1>1 DEF Full

-----------------------------------------------------------------------------
Marks(c, q, k) ==
    /\ c.missing > 0 => \E s \in Sides(q) : TruthOf(s, k) = None
    /\ c.missing = 0 /\ c.known > 0 => c.value # None

LEMMA OverdueTable ==
  ASSUME Numbered(facts), NEW q, Admissible(q), Sums(q), q.form = "core",
         MetricOf(q, 1).overdue, NEW k \in DOMAIN Table(q)
  PROVE  \E rows \in SUBSET DOMAIN facts : Table(q)[k] = CellOf(MetricOf(q, 1), rows, 1)
<1> DEFINE m == MetricOf(q, 1)
           result == Grouped(m, q, 1, Scope(m, q))
           rows == {r \in Scope(m, q) : DimensionValue(q.dim, r) = k}
<1>1. DOMAIN q.parts = {1}
  BY PartsAre
<1>2. Table(q) = Having(m.overdue /\ q.dim # None, result)
  BY <1>1 DEF Table, Assembled, MetricOf, Core
<1>3. rows \in SUBSET DOMAIN facts
  BY DEF Scope
<1>4. k \in DOMAIN result => result[k] = CellOf(m, rows, 1)
  BY DEF Grouped
<1> HIDE DEF result, rows, m
<1>5. k \in DOMAIN result /\ Table(q)[k] = result[k]
  BY <1>2 DEF Having
<1> QED
  BY <1>3, <1>4, <1>5 DEF m

LEMMA RunMarks ==
  ASSUME Numbered(facts), NEW q, Admissible(q), Exact(q), NEW k \in Keys(q)
  PROVE  Marks(Run(q)[k], q, k)
<1>1. Sums(q) /\ q.form # "ratio"
  BY DEF Exact
<1>2. CASE q.compare = None
  <2>1. Run(q) = Table(q) /\ Keys(q) = KeysOf(q) /\ Sides(q) = {q}
    BY <1>2 DEF Run, Keys, Sides
  <2>2. SideTrue(q)
    BY <1>1, TableTrue
  <2>3. k \in KeysOf(q) /\ k \in DOMAIN Table(q) /\ Table(q)[k].value = TruthOf(q, k)
    BY <2>1, <2>2 DEF SideTrue
  <2>4. CASE q.form = "core" /\ MetricOf(q, 1).overdue
    <3> DEFINE m == MetricOf(q, 1)
    <3>1. PICK rows \in SUBSET DOMAIN facts : Table(q)[k] = CellOf(m, rows, 1)
      BY <1>1, <2>3, <2>4, OverdueTable
    <3>2. m \in Governed /\ m.agg \in Summing
      BY <1>1, PartsAre, PartsFit DEF Fits
    <3>3. LET c == CellOf(m, rows, 1)
          IN /\ c.missing > 0 => c.value = None
             /\ c.missing = 0 /\ c.known > 0 => c.value # None
      BY <2>4, <3>2, OverdueMarks
    <3> QED
      BY <2>1, <2>3, <3>1, <3>3 DEF Marks
  <2>5. CASE ~(q.form = "core" /\ MetricOf(q, 1).overdue)
    <3>1. q.form \in {"core", "composite"}
      BY <1>1, PartsAre DEF Forms
    <3>2. WholeTrue(q)
      BY <1>1, <2>5, <3>1, CoreTrue, CompositeTrue
    <3> DEFINE c == Table(q)[k]
    <3>3. At(Table(q), k) = c
      BY <2>3 DEF At
    <3>4. Full(c) = TruthOf(q, k)
      BY <1>1, <2>3, <3>2, <3>3 DEF WholeTrue, SideValue
    <3>5. c.missing \in Nat
      BY <2>1, <2>3, RunCounts DEF CountsRows
    <3>6. (c.missing > 0 => Full(c) = None) /\ (c.missing = 0 => Full(c) # None)
      BY <3>5, FullMarks
    <3> QED
      BY <2>1, <2>3, <3>4, <3>6 DEF Marks
  <2> QED
    BY <2>4, <2>5
<1>3. CASE q.compare # None
  <2> DEFINE old == Prior(q)
             now == At(Table(q), k)
             then == At(Table(old), k)
             c == Run(q)[k]
  <2>1. /\ Admissible(old) /\ Sums(old) /\ old.dim = q.dim /\ old.form = q.form
        /\ old.compare = q.compare
    BY <1>1, <1>3, PriorAdmissible
  <2>2. /\ Run(q) = Comparison(q) /\ Keys(q) = KeysOf(q) \cup KeysOf(old) /\ Sides(q) = {q, old}
    BY <1>3 DEF Run, Keys, Sides, Current
  <2>3. DOMAIN Table(q) = KeysOf(q) /\ DOMAIN Table(old) = KeysOf(old)
    BY <2>1, TableCounts
  <2>4. (q.dim # None \/ k \in KeysOf(q)) /\ (old.dim # None \/ k \in KeysOf(old))
    <3>1. q.dim = None => KeysOf(q) = {All} /\ KeysOf(old) = {All}
      BY <2>1 DEF KeysOf
    <3> QED
      BY <2>1, <2>2, <3>1
  <2>5. now.missing \in Nat /\ then.missing \in Nat
    BY <2>1, <2>4, TableCounts DEF CountsRows
  <2>6. WholeTrue(q) /\ WholeTrue(old)
    BY <1>1, <1>3, <2>1, TableTrue
  <2>7. Full(now) = TruthOf(q, k) /\ Full(then) = TruthOf(old, k)
    BY <1>1, <2>1, <2>4, <2>6 DEF WholeTrue, SideValue
  <2>8. c = Change(q, now, then, SideValue(q, now), SideValue(q, then))
    BY <2>2, <2>3 DEF Comparison, OnEitherKeys, SideBySide, Current
  <2>9. SideValue(q, now) = Full(now)
    BY <1>1 DEF SideValue
  <2>10. c.missing = now.missing + then.missing /\ c.value = Full(now)
    <3> HIDE DEF now, then, c
    <3> QED
      BY <2>8, <2>9 DEF Change
  <2> HIDE DEF now, then, c, old
  <2>11. /\ now.missing > 0 => Full(now) = None
         /\ now.missing = 0 => Full(now) # None
         /\ then.missing > 0 => Full(then) = None
    BY <2>5, FullMarks
  <2>12. CASE c.missing > 0
    <3>1. now.missing > 0 \/ then.missing > 0
      BY <2>5, <2>10, <2>12
    <3>2. TruthOf(q, k) = None \/ TruthOf(old, k) = None
      BY <2>7, <2>11, <3>1
    <3> QED
      BY <2>2, <2>12, <3>2 DEF Marks, c
  <2>13. CASE ~(c.missing > 0)
    <3>1. c.missing = 0 => now.missing = 0
      BY <2>5, <2>10
    <3> QED
      BY <2>10, <2>11, <2>13, <3>1 DEF Marks, c
  <2> QED
    BY <2>12, <2>13
<1> QED
  BY <1>2, <1>3

-----------------------------------------------------------------------------
(* What a data state says of the cells it was derived from.                *)
LEMMA StateOfIs ==
  ASSUME NEW c
  PROVE  /\ StateOf(c) \in {"missing", "complete", "incomplete"}
         /\ StateOf(c) = "complete" => c.missing + c.known # 0 /\ c.missing = 0
         /\ StateOf(c) = "missing" => c.missing + c.known = 0 \/ (c.missing # 0 /\ c.known = 0)
BY DEF StateOf

LEMMA DataStateIs ==
  ASSUME NEW q, NEW cells, NEW cut, NEW state, state = DataState(q, cells, cut)
  PROVE  /\ state = "empty" => ~cut /\ \A k \in DOMAIN cells : cells[k].match = 0
         /\ state \in {"undefined", "zero", "rows"} => ~cut /\ \E k \in DOMAIN cells : cells[k].match # 0
         /\ state \in {"truncated", "empty", "undefined", "incomplete", "zero", "rows"}
         /\ state \in {"zero", "rows"} => \A k \in DOMAIN cells : StateOf(cells[k]) = "complete"
         /\ state = "zero" => \E k : DOMAIN cells = {k} /\ Nought(q, cells[k].value)
         /\ state = "undefined" => \/ \A k \in DOMAIN cells : StateOf(cells[k]) = "missing"
                                   \/ \E k : DOMAIN cells = {k} /\ cells[k].value = None
<1> DEFINE states == {StateOf(cells[k]) : k \in DOMAIN cells}
           empty == \A k \in DOMAIN cells : cells[k].match = 0
           gap == \E k \in DOMAIN cells : DOMAIN cells = {k} /\ cells[k].value = None
           nought == \E k \in DOMAIN cells : DOMAIN cells = {k} /\ Nought(q, cells[k].value)
<1>1. state = IF cut THEN "truncated"
              ELSE IF empty THEN "empty"
              ELSE IF "incomplete" \in states THEN "incomplete"
              ELSE IF states = {"missing"} THEN "undefined"
              ELSE IF "missing" \in states THEN "incomplete"
              ELSE IF gap THEN "undefined"
              ELSE IF nought THEN "zero" ELSE "rows"
  BY DEF DataState
<1>2. \A k \in DOMAIN cells : StateOf(cells[k]) \in states
  OBVIOUS
<1>3. \A k \in DOMAIN cells : StateOf(cells[k]) \in {"missing", "complete", "incomplete"}
  BY StateOfIs
<1>4. gap => \E k : DOMAIN cells = {k} /\ cells[k].value = None
  OBVIOUS
<1>5. nought => \E k : DOMAIN cells = {k} /\ Nought(q, cells[k].value)
  OBVIOUS
<1>6. ~empty <=> \E k \in DOMAIN cells : cells[k].match # 0
  OBVIOUS
<1>7. /\ "incomplete" \notin states /\ "missing" \notin states =>
           \A k \in DOMAIN cells : StateOf(cells[k]) = "complete"
      /\ states = {"missing"} => \A k \in DOMAIN cells : StateOf(cells[k]) = "missing"
  BY <1>2, <1>3
<1>8. empty => \A k \in DOMAIN cells : cells[k].match = 0
  OBVIOUS
<1> HIDE DEF states, empty, gap, nought
<1>9. state = "empty" => ~cut /\ empty
  BY <1>1
<1>10. state \in {"undefined", "zero", "rows"} => ~cut /\ ~empty
  BY <1>1
<1>11. state \in {"truncated", "empty", "undefined", "incomplete", "zero", "rows"}
  BY <1>1
<1>12. state \in {"zero", "rows"} => "incomplete" \notin states /\ "missing" \notin states
  BY <1>1
<1>13. state = "zero" => nought
  BY <1>1
<1>14. state = "undefined" => states = {"missing"} \/ gap
  BY <1>1
<1> QED
  BY <1>4, <1>5, <1>6, <1>7, <1>8, <1>9, <1>10, <1>11, <1>12, <1>13, <1>14

-----------------------------------------------------------------------------
(* A branch that is told: its question, the rows that fit on the page.     *)
Page(q, top, shown) ==
    /\ Posed(q) /\ Numbered(facts) /\ PlanRefusal(q) = None
    /\ top \in Nat \ {0} /\ shown \in Shown(Run(q), top)

LEMMA PageIs ==
  ASSUME NEW q, NEW top, NEW shown, Page(q, top, shown)
  PROVE  /\ DOMAIN Run(q) = Keys(q) /\ shown \subseteq Keys(q)
         /\ Keys(q) # {} => shown # {}
         /\ CutOff(Run(q), shown) <=> shown # Keys(q)
         /\ CellsOf(Run(q), shown) = [k \in shown |-> Run(q)[k]]
<1>1. DOMAIN Run(q) = Keys(q)
  BY RunCounts DEF Page, Posed
<1>2. CASE Cardinality(DOMAIN Run(q)) <= top
  <2>1. shown = Keys(q)
    BY <1>1, <1>2 DEF Page, Shown
  <2> QED
    BY <1>1, <2>1 DEF CutOff, CellsOf
<1>3. CASE ~(Cardinality(DOMAIN Run(q)) <= top)
  <2>1. shown \in SUBSET Keys(q) /\ Cardinality(shown) = top
    BY <1>1, <1>3 DEF Page, Shown, kSubset
  <2>2. shown # {}
    BY <2>1, FS_EmptySet DEF Page
  <2> QED
    BY <1>1, <2>1, <2>2 DEF CutOff, CellsOf
<1> QED
  BY <1>2, <1>3

(* Two reasons to call a result undefined before its cells are looked at.  *)
LEMMA DatedIs ==
  ASSUME NEW q, NEW top, NEW shown, Page(q, top, shown),
         AsOfMissing(q, CurrentOf(q, shown), shown)
  PROVE  Keys(q) = {} /\ q.compare = None
<1>1. Keys(q) = {}
  BY PageIs DEF AsOfMissing
<1>2. 1 \in DOMAIN q.parts
  BY PartsAre DEF Page, Posed
<1>3. q.parts[1].metric.dated
  BY DEF AsOfMissing
<1> QED
  BY <1>1, <1>2, <1>3 DEF Page, Posed, Admissible

LEMMA NewestIs ==
  ASSUME Numbered(facts), NEW rows \in SUBSET DOMAIN facts, rows # {}
  PROVE  LET f == [r \in rows |-> facts[r].month] IN SqlMax(f) \in {facts[r].month : r \in rows}
<1> DEFINE f == [r \in rows |-> facts[r].month]
           S == {f[i] : i \in Some(f)}
<1>1. \A r \in rows : f[r] \in Int /\ f[r] # None
  BY MetricsAssumption DEF Numbered
<1>2. Some(f) = rows
  BY <1>1 DEF Some
<1>3. S \in SUBSET Int /\ S # {} /\ S \subseteq {facts[r].month : r \in rows}
  BY <1>1, <1>2
<1>4. IsFiniteSet(S)
  <2>1. IsFiniteSet(rows)
    BY FS_Subset DEF Numbered
  <2>2. DOMAIN f = rows
    OBVIOUS
  <2> HIDE DEF f
  <2> QED
    BY <1>2, <2>1, <2>2, ImageIsFinite
<1>5. SqlMax(f) = Max(S)
  BY <1>2 DEF SqlMax
<1>6. Max(S) \in S
  <2> HIDE DEF S
  <2> QED
    BY <1>3, <1>4, GreatestOf
<1> HIDE DEF f, S
<1> QED
  BY <1>3, <1>5, <1>6 DEF f

-----------------------------------------------------------------------------
(* The rows of a snapshot are of one month, and no other is proved.        *)
LEMMA MonthIs ==
  ASSUME Numbered(facts), NEW m, NEW q, Fits(m, q), IsSnapshot(PeriodRead(m, q)), NEW keys
  PROVE  \E n : /\ \A r \in Scope(m, q) : facts[r].month = n
                /\ MonthsProved(m, q, keys) = {} \/ (MonthsProved(m, q, keys) = {n} /\ n \in Int)
<1> DEFINE latest == LatestSnapshot(m, q)
           n == latest - q.offset
           rows == Scope(m, q)
           RowsIn(k) == {x \in rows : DimensionValue(q.dim, x) = k}
           NewestIn(k) == SqlMax([r \in RowsIn(k) |-> facts[r].month])
<1>1. q.window = None /\ m.policy \in Snapshots
  <2>1. m \in Governed /\ q.window \in {None} \cup (Int \X Int)
    BY DEF Fits
  <2>2. "explicit" \notin Snapshots
    BY DEF Snapshots
  <2> QED
    BY <2>1, <2>2, SourcesDiffer DEF IsSnapshot
<1>2. MonthsRead(m, q) = IF latest = None THEN {} ELSE {n}
  BY <1>1 DEF MonthsRead, Snapshots
<1>3. rows \in SUBSET DOMAIN facts /\ \A r \in rows : facts[r].month \in MonthsRead(m, q)
  BY DEF Scope
<1> HIDE DEF latest, n, rows
<1>4. \A r \in rows : facts[r].month = n
  BY <1>2, <1>3
<1>5. ASSUME NEW k PROVE NewestIn(k) = None \/ (NewestIn(k) = n /\ n \in Int)
  <2> DEFINE R == RowsIn(k)
  <2>1. R \in SUBSET DOMAIN facts /\ \A r \in R : facts[r].month = n /\ facts[r].month \in Int
    BY <1>3, <1>4 DEF Numbered
  <2> HIDE DEF R
  <2>2. CASE R = {}
    <3>1. Some([r \in R |-> facts[r].month]) = {}
      BY <2>2 DEF Some
    <3> QED
      BY <3>1 DEF SqlMax, R
  <2>3. CASE R # {}
    <3>1. SqlMax([r \in R |-> facts[r].month]) \in {facts[r].month : r \in R}
      BY <2>1, <2>3, NewestIs
    <3> QED
      BY <2>1, <3>1 DEF R
  <2> QED
    BY <2>2, <2>3
<1>6. MonthsProved(m, q, keys) = IF q.form = "core" THEN {NewestIn(k) : k \in keys} \ {None} ELSE {}
  BY DEF MonthsProved, rows
<1> HIDE DEF NewestIn
<1>7. MonthsProved(m, q, keys) = {} \/ (MonthsProved(m, q, keys) = {n} /\ n \in Int)
  BY <1>5, <1>6
<1> QED
  BY <1>4, <1>7 DEF rows

LEMMA MonthTold ==
  ASSUME Numbered(facts), NEW m, NEW q, Fits(m, q), IsSnapshot(PeriodRead(m, q)), NEW keys,
         NEW p, p = Proved(m, q, keys)
  PROVE  /\ p.month = None => MonthsProved(m, q, keys) = {}
         /\ p.month # None => /\ \A r \in Scope(m, q) : facts[r].month = p.month
                              /\ q.form = "core"
<1>1. PICK n : /\ \A r \in Scope(m, q) : facts[r].month = n
               /\ MonthsProved(m, q, keys) = {} \/ (MonthsProved(m, q, keys) = {n} /\ n \in Int)
  BY MonthIs
<1> DEFINE o == PeriodRead(m, q)
           months == MonthsProved(m, q, keys)
<1>2. o = [source |-> o.source, from |-> o.from, to |-> o.to, month |-> o.month] /\ o.month = None
  BY DEF PeriodRead
<1>3. p = IF months # {} THEN [o EXCEPT !.month = Max(months)] ELSE o
  BY DEF Proved, WithMonth
<1>4. months # {} => q.form = "core"
  BY DEF MonthsProved
<1> HIDE DEF o, months
<1>5. CASE months = {}
  BY <1>2, <1>3, <1>5 DEF months
<1>6. CASE months # {}
  <2>1. months = {n} /\ n \in Int /\ n # None
    BY <1>1, <1>6, MetricsAssumption DEF months
  <2>2. Max({n}) = n
    <3>1. {n} \in SUBSET Int /\ IsFiniteSet({n}) /\ {n} # {}
      BY <2>1, FS_Singleton
    <3>2. Max({n}) \in {n}
      BY <3>1, GreatestOf
    <3> QED
      BY <3>2
  <2>3. p.month = n
    BY <1>2, <1>3, <1>6, <2>1, <2>2
  <2> QED
    BY <1>1, <1>4, <1>6, <2>1, <2>3
<1> QED
  BY <1>5, <1>6

LEMMA PeriodSource ==
  ASSUME NEW q, Posed(q)
  PROVE  LET m == q.parts[1].metric
         IN /\ m \in Governed /\ Fits(m, q) /\ (q.compare # None => Fits(m, Prior(q)))
            /\ q.window # None => /\ PeriodRead(m, q).source = "explicit"
                                  /\ q.compare # None => PeriodRead(m, Prior(q)).source = "explicit"
            /\ q.window = None /\ q.compare # None =>
                 /\ PeriodRead(m, q).source = "latest_snapshot"
                 /\ PeriodRead(m, Prior(q)).source = "latest_snapshot"
<1> DEFINE m == q.parts[1].metric
<1>1. Admissible(q)
  BY DEF Posed
<1>2. 1 \in DOMAIN q.parts /\ Fits(m, q)
  BY <1>1, PartsAre DEF MetricOf
<1>3. m \in Governed /\ q.window \in {None} \cup (Int \X Int)
  BY <1>2 DEF Fits
<1>4. CASE q.compare = None
  <2>1. q.window # None => PeriodRead(m, q).source = "explicit"
    BY DEF PeriodRead
  <2> HIDE DEF m
  <2> QED
    BY <1>2, <1>3, <1>4, <2>1 DEF m
<1>5. CASE q.compare # None
  <2> DEFINE old == Prior(q)
  <2>1. Admissible(old) /\ old.parts = q.parts
    BY <1>1, <1>5, PriorAdmissible
  <2>2. Fits(m, old)
    BY <2>1, PartsAre DEF MetricOf
  <2>3. q \in [form : Forms, parts : Seq(SignedMetrics), dim : {q.dim}, filter : {q.filter},
               window : {None} \cup (Int \X Int), offset : Int, compare : {None} \cup Int,
               nonzero : BOOLEAN]
    BY <1>1 DEF Admissible
  <2>4. CASE q.window # None
    <3>1. old = [q EXCEPT !.window = <<2 * q.window[1] - q.window[2], q.window[1]>>]
      BY <2>4 DEF Prior
    <3>2. q.window[1] \in Int /\ q.window[2] \in Int
      BY <1>3, <2>4
    <3>3. old.window = <<2 * q.window[1] - q.window[2], q.window[1]>> /\ old.window \in Int \X Int
      BY <2>3, <3>1, <3>2
    <3>4. old.window # None
      BY <3>3, MetricsAssumption
    <3> HIDE DEF old, m
    <3>5. PeriodRead(m, q).source = "explicit" /\ PeriodRead(m, old).source = "explicit"
      BY <2>4, <3>4 DEF PeriodRead
    <3> QED
      BY <1>2, <1>3, <2>2, <2>4, <3>5 DEF m, old
  <2>5. CASE q.window = None
    <3>1. old = [q EXCEPT !.offset = q.compare]
      BY <2>5 DEF Prior
    <3>2. old.window = None
      BY <2>3, <2>5, <3>1
    <3>3. m.policy = "latest_snapshot"
      BY <1>2, <1>5, <2>5 DEF Posed
    <3> HIDE DEF old, m
    <3>4. PeriodRead(m, q).source = "latest_snapshot" /\ PeriodRead(m, old).source = "latest_snapshot"
      BY <2>5, <3>2, <3>3 DEF PeriodRead
    <3> QED
      BY <1>2, <1>3, <2>2, <2>5, <3>4 DEF m, old
  <2> QED
    BY <2>4, <2>5
<1> QED
  BY <1>4, <1>5

LEMMA RequiredIs ==
  ASSUME NEW q, NEW top, NEW shown, Page(q, top, shown),
         NEW p \in {CurrentOf(q, shown), PriorOf(q, shown)} \ {None},
         RequiredValueMissing(q, p, shown)
  PROVE  shown = Keys(q) /\ shown # {} /\ \A k \in Keys(q) : Run(q)[k].match = 0
<1> DEFINE m == q.parts[1].metric
<1>1. /\ q.form = "core" /\ shown # {} /\ p.month = None
      /\ p.source = "latest_non_null_snapshot"
  BY DEF RequiredValueMissing
<1>2. Posed(q) /\ Admissible(q) /\ Numbered(facts)
  BY DEF Page, Posed
<1>3. q.compare # None => /\ CurrentOf(q, shown).source \in {"explicit", "latest_snapshot"}
                          /\ PriorOf(q, shown).source \in {"explicit", "latest_snapshot"}
  <2> SUFFICES ASSUME q.compare # None
               PROVE  /\ CurrentOf(q, shown).source \in {"explicit", "latest_snapshot"}
                      /\ PriorOf(q, shown).source \in {"explicit", "latest_snapshot"}
    OBVIOUS
  <2>1. /\ PeriodRead(m, q).source \in {"explicit", "latest_snapshot"}
        /\ PeriodRead(m, Prior(q)).source \in {"explicit", "latest_snapshot"}
    BY <1>2, PeriodSource
  <2> QED
    BY <2>1, ProvedIs DEF CurrentOf, PriorOf
<1>4. q.compare = None /\ p = Proved(m, q, shown)
  <2>1. p = CurrentOf(q, shown) \/ p = PriorOf(q, shown)
    OBVIOUS
  <2>2. q.compare = None
    BY <1>1, <1>3, <2>1
  <2> QED
    BY <2>1, <2>2 DEF CurrentOf, PriorOf
<1>5. Fits(m, q)
  BY <1>2, PeriodSource
<1>6. IsSnapshot(PeriodRead(m, q))
  BY <1>1, <1>4, ProvedIs DEF IsSnapshot, Snapshots
<1>7. MonthsProved(m, q, shown) = {}
  BY <1>1, <1>2, <1>4, <1>5, <1>6, MonthTold
<1>8. ASSUME NEW k \in shown
      PROVE  {x \in Scope(m, q) : DimensionValue(q.dim, x) = k} = {}
  <2> DEFINE R == {x \in Scope(m, q) : DimensionValue(q.dim, x) = k}
  <2>1. SqlMax([r \in R |-> facts[r].month]) = None
    BY <1>1, <1>7, <1>8 DEF MonthsProved
  <2>2. R \in SUBSET DOMAIN facts
    BY DEF Scope
  <2> HIDE DEF R
  <2>3. ASSUME R # {} PROVE FALSE
    <3>1. SqlMax([r \in R |-> facts[r].month]) \in {facts[r].month : r \in R}
      BY <1>2, <2>2, <2>3, NewestIs
    <3> QED
      BY <1>2, <2>1, <2>2, <3>1, MetricsAssumption DEF Numbered
  <2> QED
    BY <2>3 DEF R
<1>9. DOMAIN q.parts = {1}
  BY <1>1, <1>2, PartsAre
<1>10. Counted(m, q) \subseteq Scope(m, q)
  BY <1>2, <1>5, ScopeIsCounted
<1>11. \A k \in shown : SideRows(q, k) = {}
  <2> TAKE k \in shown
  <2>1. CountedIn(m, q, k) = {}
    BY <1>8, <1>10 DEF CountedIn
  <2>2. GroupRows(q, k) = {}
    BY <1>9, <2>1 DEF GroupRows, MetricOf
  <2> QED
    BY <1>4, <2>2 DEF SideRows, Sides
<1>12. shown \subseteq Keys(q) /\ Keys(q) = KeysOf(q)
  BY <1>4, PageIs DEF Keys
<1>13. q.dim = None
  <2> SUFFICES ASSUME q.dim # None PROVE FALSE
    OBVIOUS
  <2>1. PICK k \in shown : k \in KeysOf(q)
    BY <1>1, <1>12
  <2>2. PICK r \in Counted(m, q) : k = DimensionValue(q.dim, r)
    BY <1>9, <2>1 DEF KeysOf
  <2> QED
    BY <1>8, <1>10, <2>2
<1>14. shown = Keys(q)
  BY <1>1, <1>12, <1>13 DEF KeysOf
<1>15. \A k \in Keys(q) : CountsRows(Run(q)[k], SideRows(q, k))
  BY <1>2, RunCounts
<1>16. \A k \in Keys(q) : Run(q)[k].match = 0
  BY <1>11, <1>14, <1>15 DEF CountsRows
<1> QED
  BY <1>1, <1>14, <1>16

-----------------------------------------------------------------------------
(* The states of a branch that is told.                                    *)
LEMMA ToldStates ==
  ASSUME NEW q, NEW top, NEW shown, NEW additive, NEW chosen, NEW told,
         Page(q, top, shown), Telling(q, additive, chosen, Run(q), shown, told)
  PROVE  LET cells == CellsOf(Run(q), shown)
             rows == RowsOn(q, Run(q), shown)
             cut == CutOff(Run(q), shown)
         IN \/ told.state = "undefined" /\ Keys(q) = {}
            \/ /\ told.state = DataState(q, cells, cut)
               /\ rows = IF told.state = "empty" THEN <<>> ELSE cells
<1> DEFINE run == Run(q)
           cells == CellsOf(run, shown)
           rows == RowsOn(q, run, shown)
           cut == CutOff(run, shown)
           current == CurrentOf(q, shown)
           prior == PriorOf(q, shown)
           dated == AsOfMissing(q, current, shown)
           valued == \E p \in {current, prior} \ {None} : RequiredValueMissing(q, p, shown)
           nothing == \A k \in shown : ~cut /\ cells[k].match = 0
           state == DataState(q, cells, cut)
<1>1. told.state = StateOn(q, run, shown) /\ ((told.state = "empty") = (DOMAIN rows = {}))
  <2>1. TellingIs(q, additive, chosen, Run(q), shown, told)
    BY ToldIs
  <2>2. told.state = StateOn(q, run, shown) /\ ((told.state = "empty") = (DOMAIN told.claims = {}))
    BY <2>1 DEF TellingIs
  <2>3. DOMAIN told.claims = DOMAIN rows
    BY ToldValues
  <2> QED
    BY <2>2, <2>3
<1>2. DOMAIN cells = shown /\ \A k \in shown : cells[k] = run[k]
  BY DEF CellsOf
<1>3. shown \subseteq Keys(q) /\ (Keys(q) # {} => shown # {}) /\ (cut <=> shown # Keys(q))
  BY PageIs
<1>4. StateOn(q, run, shown) = IF dated \/ valued THEN "undefined" ELSE state
  BY <1>2 DEF StateOn, StateTold
<1>5. rows = IF dated THEN [k \in {None} |-> NoCell] ELSE IF nothing THEN <<>> ELSE cells
  BY <1>2 DEF RowsOn, RowsTold
<1>6. dated => Keys(q) = {}
  BY DatedIs
<1>7. valued => shown = Keys(q) /\ shown # {} /\ \A k \in Keys(q) : run[k].match = 0
  <2> SUFFICES ASSUME NEW p \in {current, prior} \ {None}, RequiredValueMissing(q, p, shown)
               PROVE  shown = Keys(q) /\ shown # {} /\ \A k \in Keys(q) : run[k].match = 0
    OBVIOUS
  <2> QED
    BY RequiredIs
<1>8. /\ state = "empty" => ~cut /\ \A k \in DOMAIN cells : cells[k].match = 0
      /\ cut => state = "truncated"
      /\ (~cut /\ \A k \in DOMAIN cells : cells[k].match = 0) => state = "empty"
  BY DEF DataState
<1>9. DOMAIN <<>> = {}
  OBVIOUS
<1> HIDE DEF run, cells, rows, cut, current, prior, dated, valued, state
<1>10. CASE dated
  BY <1>1, <1>4, <1>6, <1>10 DEF run, cells, rows, cut, state
<1>11. CASE ~dated /\ valued
  <2>1. nothing
    BY <1>2, <1>3, <1>7, <1>11
  <2>2. rows = <<>>
    BY <1>5, <1>11, <2>1
  <2>3. told.state = "undefined"
    BY <1>1, <1>4, <1>11
  <2> QED
    BY <1>1, <1>9, <2>2, <2>3
<1>12. CASE ~dated /\ ~valued
  <2>1. told.state = state
    BY <1>1, <1>4, <1>12
  <2>2. CASE nothing
    <3>1. rows = <<>>
      BY <1>5, <1>12, <2>2
    <3>2. told.state = "empty"
      BY <1>1, <1>9, <3>1
    <3> QED
      BY <2>1, <3>1, <3>2 DEF run, cells, rows, cut, state
  <2>3. CASE ~nothing
    <3>1. rows = cells
      BY <1>5, <1>12, <2>3
    <3>2. state # "empty"
      BY <1>2, <1>8, <2>3
    <3> QED
      BY <2>1, <3>1, <3>2 DEF run, cells, rows, cut, state
  <2> QED
    BY <2>2, <2>3
<1> QED
  BY <1>10, <1>11, <1>12

LEMMA StateCases ==
  ASSUME NEW q, NEW top, NEW shown, NEW additive, NEW chosen, NEW told,
         Page(q, top, shown), Telling(q, additive, chosen, Run(q), shown, told)
  PROVE  /\ told.state \in {"truncated", "empty", "undefined", "incomplete", "zero", "rows"}
         /\ told.state \in {"zero", "rows"} =>
              /\ RowsOn(q, Run(q), shown) = [k \in Keys(q) |-> Run(q)[k]]
              /\ \A k \in Keys(q) : StateOf(Run(q)[k]) = "complete"
         /\ told.state = "zero" => \E k : Keys(q) = {k} /\ Nought(q, Run(q)[k].value)
         /\ told.state = "empty" => \A k \in Keys(q) : Run(q)[k].match = 0
         /\ told.state = "undefined" /\ Keys(q) # {} =>
              /\ \E k \in Keys(q) : Run(q)[k].match # 0
              /\ \/ \A k \in Keys(q) : StateOf(Run(q)[k]) = "missing"
                 \/ \E k : Keys(q) = {k} /\ Run(q)[k].value = None
<1> DEFINE run == Run(q)
           cells == CellsOf(run, shown)
           rows == RowsOn(q, run, shown)
           cut == CutOff(run, shown)
<1>1. \/ told.state = "undefined" /\ Keys(q) = {}
      \/ /\ told.state = DataState(q, cells, cut)
         /\ rows = IF told.state = "empty" THEN <<>> ELSE cells
  BY ToldStates
<1>2. DOMAIN cells = shown /\ (\A k \in shown : cells[k] = run[k]) /\ (cut <=> shown # Keys(q))
      /\ cells = [k \in shown |-> run[k]]
  BY PageIs DEF CellsOf
<1> HIDE DEF run, cells, rows, cut
<1>3. CASE told.state = "undefined" /\ Keys(q) = {}
  BY <1>3
<1>4. CASE /\ told.state = DataState(q, cells, cut)
           /\ rows = IF told.state = "empty" THEN <<>> ELSE cells
  <2>1. PICK state : state = told.state
    OBVIOUS
  <2>0. state = DataState(q, cells, cut)
    BY <1>4, <2>1
  <2>2. /\ state = "empty" => ~cut /\ \A k \in DOMAIN cells : cells[k].match = 0
        /\ state \in {"undefined", "zero", "rows"} => ~cut /\ \E k \in DOMAIN cells : cells[k].match # 0
        /\ state \in {"truncated", "empty", "undefined", "incomplete", "zero", "rows"}
        /\ state \in {"zero", "rows"} => \A k \in DOMAIN cells : StateOf(cells[k]) = "complete"
        /\ state = "zero" => \E k : DOMAIN cells = {k} /\ Nought(q, cells[k].value)
        /\ state = "undefined" => \/ \A k \in DOMAIN cells : StateOf(cells[k]) = "missing"
                                  \/ \E k : DOMAIN cells = {k} /\ cells[k].value = None
    BY ZenonT(60), <2>0, DataStateIs
  <2>3. state \in {"zero", "rows"} =>
          /\ rows = [k \in Keys(q) |-> run[k]]
          /\ \A k \in Keys(q) : StateOf(run[k]) = "complete"
    BY <1>2, <1>4, <2>1, <2>2
  <2>4. state = "zero" => \E k : Keys(q) = {k} /\ Nought(q, run[k].value)
    BY <1>2, <2>2
  <2>5. state = "empty" => \A k \in Keys(q) : run[k].match = 0
    BY <1>2, <2>2
  <2>6. state = "undefined" =>
          /\ \E k \in Keys(q) : run[k].match # 0
          /\ \/ \A k \in Keys(q) : StateOf(run[k]) = "missing"
             \/ \E k : Keys(q) = {k} /\ run[k].value = None
    BY <1>2, <2>2
  <2> QED
    BY <2>1, <2>2, <2>3, <2>4, <2>5, <2>6 DEF run, rows
<1> QED
  BY <1>1, <1>3, <1>4

-----------------------------------------------------------------------------
(* The rows of the groups are the rows of the question.                    *)
LEMMA SidesAre ==
  ASSUME NEW q, Admissible(q), NEW s \in Sides(q)
  PROVE  /\ Admissible(s) /\ s.dim = q.dim /\ s.parts = q.parts /\ KeysOf(s) \subseteq Keys(q)
         /\ q \in Sides(q) /\ KeysOf(q) \subseteq Keys(q)
<1>1. CASE q.compare = None
  BY <1>1 DEF Sides, Keys
<1>2. CASE q.compare # None
  BY <1>2, PriorAdmissible DEF Sides, Keys, Current
<1> QED
  BY <1>1, <1>2

LEMMA Ungrouped ==
  ASSUME NEW r PROVE DimensionValue(None, r) = All
BY MetricsAssumption DEF DimensionValue, Dimensions

LEMMA RowHasGroup ==
  ASSUME NEW q, Admissible(q), NEW s \in Sides(q), NEW r \in SourceRows(s)
  PROVE  \E k \in Keys(q) : r \in GroupRows(s, k) /\ r \in SideRows(q, k)
<1> DEFINE k == DimensionValue(s.dim, r)
<1>1. PICK i \in DOMAIN s.parts : r \in Counted(s.parts[i].metric, s)
  BY DEF SourceRows
<1>2. k \in KeysOf(s)
  BY <1>1, Ungrouped DEF KeysOf
<1>3. r \in GroupRows(s, k)
  BY <1>1 DEF GroupRows, CountedIn, MetricOf
<1>4. r \in SideRows(q, k)
  BY <1>3 DEF SideRows
<1> QED
  BY <1>2, <1>3, <1>4, SidesAre

LEMMA GroupHasRow ==
  ASSUME NEW q, Admissible(q), q.dim # None, NEW k \in Keys(q)
  PROVE  SideRows(q, k) # {}
<1>1. PICK s \in Sides(q) : k \in KeysOf(s) /\ s.dim = q.dim
  <2>1. CASE q.compare = None
    BY <2>1 DEF Sides, Keys
  <2>2. CASE q.compare # None
    BY <2>2, PriorAdmissible DEF Sides, Keys, Current
  <2> QED
    BY <2>1, <2>2
<1>2. PICK i \in DOMAIN s.parts : \E r \in Counted(s.parts[i].metric, s) : k = DimensionValue(s.dim, r)
  BY <1>1 DEF KeysOf
<1>3. PICK r \in Counted(s.parts[i].metric, s) : k = DimensionValue(s.dim, r)
  BY <1>2
<1>4. r \in GroupRows(s, k)
  BY <1>3 DEF GroupRows, CountedIn, MetricOf
<1> QED
  BY <1>4 DEF SideRows

(* A question with one group has that group's value as its total.          *)
Whole(q) == [q EXCEPT !.dim = None]
LEMMA WholeIs ==
  ASSUME NEW q, Admissible(q)
  PROVE  /\ Whole(q).dim = None /\ Whole(q).parts = q.parts /\ Whole(q).form = q.form
         /\ Whole(q).nonzero = q.nonzero
         /\ \A m : Counted(m, Whole(q)) = Counted(m, q)
         /\ \A m : CountedIn(m, Whole(q), All) = Counted(m, q)
<1> DEFINE o == Whole(q)
<1>1. q \in [form : Forms, parts : Seq(SignedMetrics), dim : {q.dim}, filter : {q.filter},
              window : {None} \cup (Int \X Int), offset : Int, compare : {None} \cup Int,
              nonzero : BOOLEAN]
  BY DEF Admissible
<1>2. /\ o.dim = None /\ o.parts = q.parts /\ o.form = q.form /\ o.nonzero = q.nonzero
      /\ o.filter = q.filter /\ o.window = q.window /\ o.offset = q.offset
  BY <1>1 DEF Whole
<1> HIDE DEF o
<1>3. \A m, r : InTime(m, o, r) = InTime(m, q, r)
  BY <1>2 DEF InTime
<1>4. \A m : Counted(m, o) = Counted(m, q)
  BY <1>2, <1>3 DEF Counted
<1>5. \A m : CountedIn(m, o, All) = Counted(m, q)
  BY <1>2, <1>4, Ungrouped DEF CountedIn
<1> QED
  BY <1>2, <1>4, <1>5 DEF o

LEMMA OneGroup ==
  ASSUME NEW q, Admissible(q), NEW k, Keys(q) = {k}
  PROVE  TruthOf(Whole(q), All) = TruthOf(q, k)
<1>1. KeysOf(q) \subseteq {k}
  BY SidesAre DEF Sides, Keys, Current
<1>2. ASSUME NEW i \in DOMAIN q.parts
      PROVE  CountedIn(q.parts[i].metric, q, k) = Counted(q.parts[i].metric, q)
  <2>1. ASSUME NEW r \in Counted(q.parts[i].metric, q) PROVE DimensionValue(q.dim, r) = k
    <3>1. DimensionValue(q.dim, r) \in KeysOf(q)
      BY <2>1, Ungrouped DEF KeysOf
    <3> QED
      BY <1>1, <3>1
  <2> QED
    BY <2>1 DEF CountedIn
<1> DEFINE o == Whole(q)
           Of(i) == Truth(q.parts[i].metric, CountedIn(q.parts[i].metric, q, k))
           For(i) == Truth(o.parts[i].metric, CountedIn(o.parts[i].metric, o, All))
<1>3. o.parts = q.parts /\ o.form = q.form /\ o.nonzero = q.nonzero
  BY WholeIs
<1>4. \A i \in DOMAIN q.parts : For(i) = Of(i)
  BY <1>2, <1>3, WholeIs
<1>5. 1 \in DOMAIN q.parts /\ (q.form = "ratio" => 2 \in DOMAIN q.parts) /\ q.form \in Forms
  BY PartsAre
<1>6. /\ q.form = "core" => TruthOf(q, k) = Of(1) /\ TruthOf(o, All) = For(1)
      /\ q.form = "composite" =>
           /\ TruthOf(q, k) = IF \E i \in DOMAIN q.parts : Of(i) = None THEN None
                              ELSE Sum([i \in DOMAIN q.parts |-> q.parts[i].sign * Of(i)])
           /\ TruthOf(o, All) = IF \E i \in DOMAIN q.parts : For(i) = None THEN None
                                ELSE Sum([i \in DOMAIN q.parts |-> q.parts[i].sign * For(i)])
  BY <1>3 DEF TruthOf
<1>7. q.form = "ratio" =>
        /\ TruthOf(q, k) = IF None \in {Of(1), Of(2)} THEN None
                           ELSE IF Of(2) = 0 \/ (Of(2) < 0 /\ ~q.nonzero) THEN None
                           ELSE <<Of(1), Of(2)>>
        /\ TruthOf(o, All) = IF None \in {For(1), For(2)} THEN None
                             ELSE IF For(2) = 0 \/ (For(2) < 0 /\ ~q.nonzero) THEN None
                             ELSE <<For(1), For(2)>>
  BY <1>3 DEF TruthOf
<1> HIDE DEF Of, For, o
<1>8. [i \in DOMAIN q.parts |-> q.parts[i].sign * For(i)] = [i \in DOMAIN q.parts |-> q.parts[i].sign * Of(i)]
  BY <1>4
<1>9. CASE q.form = "core"
  BY <1>4, <1>5, <1>6, <1>9 DEF o
<1>10. CASE q.form = "composite"
  BY <1>4, <1>6, <1>8, <1>10 DEF o
<1>11. CASE q.form = "ratio"
  BY <1>4, <1>5, <1>7, <1>11 DEF o
<1> QED
  BY <1>5, <1>9, <1>10, <1>11 DEF Forms

-----------------------------------------------------------------------------
(* What the marks of a branch say of its state.                            *)
LEMMA SupportsAre ==
  ASSUME NEW q, NEW additive, NEW chosen, NEW result, NEW shown, NEW told,
         Telling(q, additive, chosen, result, shown, told)
  PROVE  /\ "empty_result_state" \in told.supports => told.state = "empty"
         /\ "undefined_result_state" \in told.supports => told.state = "undefined"
         /\ "verified_zero_state" \in told.supports => told.state = "zero"
<1> DEFINE rows == RowsOn(q, result, shown)
           verdict == VerdictOf(q, shown)
           state == told.state
           marks == CASE state = "empty" -> {"empty_result_state"}
                      [] state = "undefined" -> {"undefined_result_state"}
                      [] state = "zero" -> {"verified_zero_state"}
                      [] OTHER -> {}
           plain == {"observation", "period_comparison", "dimension_breakdown"}
<1>1. TellingIs(q, additive, chosen, result, shown, told)
  BY ToldIs
<1>2. told.supports = Supports(told.state, told.claims)
  BY <1>1 DEF TellingIs
<1>3. /\ DOMAIN told.claims = DOMAIN rows
      /\ \A k \in DOMAIN rows : told.claims[k] = ClaimOf(q, additive, verdict, k, rows[k])
  BY ToldValues
<1>4. ASSUME NEW k \in DOMAIN told.claims PROVE told.claims[k].relations \subseteq plain
  <2>1. told.claims[k] = ClaimOf(q, additive, verdict, k, rows[k])
    BY <1>3
  <2>2. told.claims[k].relations = Relations(q, additive, verdict, k, rows[k])
    BY <2>1 DEF ClaimOf
  <2> QED
    BY <2>2 DEF Relations
<1>5. told.supports \subseteq plain \cup marks
  BY <1>2, <1>4 DEF Supports
<1> HIDE DEF state
<1>6. /\ "empty_result_state" \in marks => state = "empty"
      /\ "undefined_result_state" \in marks => state = "undefined"
      /\ "verified_zero_state" \in marks => state = "zero"
  <2>1. state = "empty" => marks = {"empty_result_state"}
    OBVIOUS
  <2>2. state = "undefined" => marks = {"undefined_result_state"}
    OBVIOUS
  <2>3. state = "zero" => marks = {"verified_zero_state"}
    OBVIOUS
  <2>4. state \notin {"empty", "undefined", "zero"} => marks = {}
    OBVIOUS
  <2> HIDE DEF marks
  <2> QED
    BY <2>1, <2>2, <2>3, <2>4
<1> HIDE DEF marks
<1> QED
  BY <1>5, <1>6 DEF state

LEMMA CompleteIs ==
  ASSUME NEW state, Completeness(state) = "complete"
  PROVE  state \notin {"truncated", "empty", "undefined", "incomplete"}
BY DEF Completeness

LEMMA WholeRows ==
  ASSUME NEW q, NEW top, NEW shown, NEW additive, NEW chosen, NEW told,
         Page(q, top, shown), Telling(q, additive, chosen, Run(q), shown, told),
         told.completeness = "complete"
  PROVE  /\ DOMAIN told.claims = Keys(q)
         /\ Exact(q) => \A k \in Keys(q) : told.claims[k].value # None
                                           /\ told.claims[k].value = TruthOf(q, k)
<1> DEFINE run == Run(q)
           rows == RowsOn(q, run, shown)
<1>1. TellingIs(q, additive, chosen, run, shown, told)
  BY ToldIs
<1>2. told.completeness = Completeness(told.state)
  BY <1>1 DEF TellingIs
<1>3. told.state \notin {"truncated", "empty", "undefined", "incomplete"}
  BY <1>2, CompleteIs
<1>4. rows = [k \in Keys(q) |-> run[k]] /\ \A k \in Keys(q) : StateOf(run[k]) = "complete"
  BY <1>3, StateCases
<1>5. DOMAIN told.claims = DOMAIN rows /\ \A k \in DOMAIN rows : told.claims[k].value = rows[k].value
  BY ToldValues
<1> HIDE DEF run, rows
<1>6. DOMAIN told.claims = Keys(q) /\ \A k \in Keys(q) : told.claims[k].value = run[k].value
  BY <1>4, <1>5
<1>7. ASSUME Exact(q), NEW k \in Keys(q)
      PROVE  told.claims[k].value # None /\ told.claims[k].value = TruthOf(q, k)
  <2>1. Admissible(q) /\ Numbered(facts) /\ Sums(q)
    BY <1>7 DEF Page, Posed, Exact
  <2>2. run[k].value = TruthOf(q, k)
    BY <1>7, <2>1, RunTrue DEF run
  <2>3. Marks(run[k], q, k)
    BY <1>7, <2>1, RunMarks DEF run
  <2>4. run[k].missing \in Nat /\ run[k].known \in Nat
    BY <1>7, <2>1, RunCounts DEF run, CountsRows
  <2>5. run[k].missing = 0 /\ run[k].missing + run[k].known # 0
    BY <1>4, <1>7, StateOfIs
  <2>6. run[k].known > 0
    BY <2>4, <2>5
  <2> QED
    BY <1>6, <1>7, <2>2, <2>3, <2>5, <2>6 DEF Marks
<1> QED
  BY <1>6, <1>7

LEMMA ZeroTotal ==
  ASSUME NEW q, NEW top, NEW shown, NEW additive, NEW chosen, NEW told,
         Page(q, top, shown), Telling(q, additive, chosen, Run(q), shown, told),
         told.state = "zero", Exact(q)
  PROVE  TruthOf(Whole(q), All) = 0
<1>1. \E k : Keys(q) = {k} /\ Nought(q, Run(q)[k].value)
  BY StateCases
<1>2. PICK k : Keys(q) = {k} /\ Nought(q, Run(q)[k].value)
  BY <1>1
<1>3. Admissible(q) /\ Numbered(facts) /\ Sums(q)
  BY DEF Page, Posed, Exact
<1>4. Run(q)[k].value = TruthOf(q, k)
  BY <1>2, <1>3, RunTrue
<1>5. TruthOf(q, k) = 0
  BY <1>2, <1>4 DEF Nought, Exact
<1> QED
  BY <1>2, <1>3, <1>5, OneGroup

LEMMA EmptyRows ==
  ASSUME NEW q, NEW top, NEW shown, NEW additive, NEW chosen, NEW told,
         Page(q, top, shown), Telling(q, additive, chosen, Run(q), shown, told),
         told.state = "empty"
  PROVE  \A s \in Sides(q) : SourceRows(s) = {}
<1>1. \A k \in Keys(q) : Run(q)[k].match = 0
  BY StateCases
<1>2. Admissible(q) /\ Numbered(facts)
  BY DEF Page, Posed
<1>3. ASSUME NEW k \in Keys(q) PROVE SideRows(q, k) = {}
  <2>1. CountsRows(Run(q)[k], SideRows(q, k))
    BY <1>2, <1>3, RunCounts
  <2> QED
    BY <1>1, <1>3, <2>1 DEF CountsRows
<1>4. ASSUME NEW s \in Sides(q), NEW r \in SourceRows(s) PROVE FALSE
  BY <1>2, <1>3, <1>4, RowHasGroup
<1> QED
  BY <1>4

LEMMA UndefinedRows ==
  ASSUME NEW q, NEW top, NEW shown, NEW additive, NEW chosen, NEW told,
         Page(q, top, shown), Telling(q, additive, chosen, Run(q), shown, told),
         told.state = "undefined", Exact(q), NEW k \in Keys(q)
  PROVE  \E s \in Sides(q) : TruthOf(s, k) = None
<1> DEFINE run == Run(q)
<1>1. /\ \E x \in Keys(q) : run[x].match # 0
      /\ \/ \A x \in Keys(q) : StateOf(run[x]) = "missing"
         \/ \E x : Keys(q) = {x} /\ run[x].value = None
  <2>1. Keys(q) # {}
    OBVIOUS
  <2> QED
    BY <2>1, StateCases
<1>2. Admissible(q) /\ Numbered(facts) /\ Sums(q)
  BY DEF Page, Posed, Exact
<1>3. q \in Sides(q)
  BY DEF Sides, Current
<1>4. \A x \in Keys(q) : CountsRows(run[x], SideRows(q, x)) /\ run[x].value = TruthOf(q, x)
  BY <1>2, RunCounts, RunTrue
<1>5. Marks(run[k], q, k)
  BY <1>2, RunMarks
<1> HIDE DEF run
<1>6. CASE \A x \in Keys(q) : StateOf(run[x]) = "missing"
  <2>1. StateOf(run[k]) = "missing"
    BY <1>6
  <2>2. run[k].missing + run[k].known = 0 \/ run[k].missing # 0
    BY <2>1, StateOfIs
  <2>3. CountsRows(run[k], SideRows(q, k))
    BY <1>4
  <2>4. SideRows(q, k) # {}
    <3>1. CASE q.dim # None
      BY <1>2, <3>1, GroupHasRow
    <3>2. CASE q.dim = None
      <4>1. Keys(q) = {All}
        <5>1. CASE q.compare = None
          BY <3>2, <5>1 DEF Keys, KeysOf
        <5>2. CASE q.compare # None
          BY <1>2, <3>2, <5>2, PriorAdmissible DEF Keys, KeysOf, Current
        <5> QED
          BY <5>1, <5>2
      <4>2. run[k].match # 0
        BY <1>1, <4>1
      <4> QED
        BY <2>3, <4>2 DEF CountsRows
    <3> QED
      BY <3>1, <3>2
  <2>5. run[k].missing > 0
    BY <2>2, <2>3, <2>4 DEF CountsRows
  <2> QED
    BY <1>5, <2>5 DEF Marks
<1>7. CASE \E x : Keys(q) = {x} /\ run[x].value = None
  BY <1>3, <1>4, <1>7
<1> QED
  BY <1>1, <1>6, <1>7

StatesOf(q, told) ==
    /\ told.completeness = "complete" =>
         /\ DOMAIN told.claims = Keys(q)
         /\ Exact(q) => \A k \in DOMAIN told.claims :
              /\ told.claims[k].value # None
              /\ told.claims[k].value = TruthOf(Current(q), k)
    /\ "verified_zero_state" \in told.supports /\ Exact(q) =>
         TruthOf(Current([q EXCEPT !.dim = None]), All) = 0
    /\ "empty_result_state" \in told.supports =>
         \A s \in Sides(q) : SourceRows(s) = {}
    /\ "undefined_result_state" \in told.supports /\ Exact(q) =>
         \A k \in Keys(q) : None \in {TruthOf(s, k) : s \in Sides(q)}

LEMMA StatesHold ==
  ASSUME NEW q, NEW top, NEW shown, NEW additive, NEW chosen, NEW told,
         Page(q, top, shown), Telling(q, additive, chosen, Run(q), shown, told)
  PROVE  StatesOf(q, told)
<1>1. /\ "empty_result_state" \in told.supports => told.state = "empty"
      /\ "undefined_result_state" \in told.supports => told.state = "undefined"
      /\ "verified_zero_state" \in told.supports => told.state = "zero"
  BY SupportsAre
<1>2. told.completeness = "complete" =>
        /\ DOMAIN told.claims = Keys(q)
        /\ Exact(q) => \A k \in Keys(q) : told.claims[k].value # None
                                          /\ told.claims[k].value = TruthOf(q, k)
  BY WholeRows
<1>3. told.state = "zero" /\ Exact(q) => TruthOf(Whole(q), All) = 0
  BY ZeroTotal
<1>4. told.state = "empty" => \A s \in Sides(q) : SourceRows(s) = {}
  BY EmptyRows
<1>5. told.state = "undefined" /\ Exact(q) => \A k \in Keys(q) : \E s \in Sides(q) : TruthOf(s, k) = None
  BY UndefinedRows
<1>6. Whole(q) = [q EXCEPT !.dim = None]
  BY DEF Whole
<1> QED
  BY <1>1, <1>2, <1>3, <1>4, <1>5, <1>6 DEF StatesOf, Current

-----------------------------------------------------------------------------
(* A plan that is accepted reads windows that are not empty.               *)
LEMMA PlanIs ==
  ASSUME NEW q, Posed(q), PlanRefusal(q) = None
  PROVE  /\ \A i \in DOMAIN q.parts : Refusal(q.parts[i].metric, q) = None
         /\ q.window # None => q.window[1] < q.window[2]
<1> DEFINE Both == {q} \cup (IF q.compare = None THEN {} ELSE {Prior(q)})
           codes == {Refusal(q.parts[i].metric, p) : i \in DOMAIN q.parts, p \in Both}
<1>1. PlanRefusal(q) = IF codes # {None} THEN CHOOSE c \in codes : c # None
                       ELSE IF PeriodsAgree(q) THEN None ELSE "CONTRACT_UNAVAILABLE"
  BY DEF PlanRefusal
<1>2. q \in Both
  OBVIOUS
<1>3. 1 \in DOMAIN q.parts /\ q.window \in {None} \cup (Int \X Int)
  BY PartsAre DEF Posed, MetricOf, Fits
<1> HIDE DEF Both
<1>4. Refusal(q.parts[1].metric, q) \in codes
  BY <1>2, <1>3
<1>5. codes = {None}
  <2> SUFFICES ASSUME codes # {None} PROVE FALSE
    OBVIOUS
  <2>1. \E c \in codes : c # None
    BY <1>4
  <2>2. (CHOOSE c \in codes : c # None) # None
    BY <2>1
  <2> HIDE DEF codes
  <2>3. PlanRefusal(q) = CHOOSE c \in codes : c # None
    BY <1>1, ZenonT(30)
  <2>4. PlanRefusal(q) # None
    BY <2>2, <2>3
  <2> QED
    BY <2>4
<1>6. \A i \in DOMAIN q.parts : Refusal(q.parts[i].metric, q) \in codes
  BY <1>2
<1> HIDE DEF codes
<1>7. \A i \in DOMAIN q.parts : Refusal(q.parts[i].metric, q) = None
  BY <1>5, <1>6
<1>8. ASSUME q.window # None, q.window[1] >= q.window[2] PROVE FALSE
  <2>1. Refusal(q.parts[1].metric, q) \in Errors
    BY <1>8 DEF Refusal, Errors
  <2> QED
    BY <1>3, <1>7, <2>1, MetricsAssumption
<1>9. q.window # None => q.window[1] \in Int /\ q.window[2] \in Int
  BY <1>3
<1> QED
  BY <1>7, <1>8, <1>9

LEMMA PriorWindowIs ==
  ASSUME NEW q, Posed(q), q.compare # None, q.window # None
  PROVE  /\ q.window \in Int \X Int
         /\ Prior(q).window = <<2 * q.window[1] - q.window[2], q.window[1]>>
         /\ Prior(q).window \in Int \X Int
<1>1. q \in [form : Forms, parts : Seq(SignedMetrics), dim : {q.dim}, filter : {q.filter},
              window : {None} \cup (Int \X Int), offset : Int, compare : {None} \cup Int,
              nonzero : BOOLEAN]
  BY DEF Posed, Admissible
<1>2. q.window \in Int \X Int /\ q.window[1] \in Int /\ q.window[2] \in Int
  BY <1>1
<1>3. Prior(q) = [q EXCEPT !.window = <<2 * q.window[1] - q.window[2], q.window[1]>>]
  BY DEF Prior
<1>4. Prior(q).window = <<2 * q.window[1] - q.window[2], q.window[1]>>
  BY <1>1, <1>3
<1> QED
  BY <1>2, <1>4

(* Periods whose comparison is authorised are both over, or have a month.  *)
LEMMA ComparedPeriods ==
  ASSUME NEW q, Posed(q), PlanRefusal(q) = None, q.compare # None, NEW shown,
         Authorized(VerdictOf(q, shown))
  PROVE  LET l == CurrentOf(q, shown)
             r == PriorOf(q, shown)
         IN \/ \A p \in {l, r} : IsWindow(p) /\ Over(p)
            \/ \A p \in {l, r} : p.month # None
<1> DEFINE m == q.parts[1].metric
           l == CurrentOf(q, shown)
           r == PriorOf(q, shown)
<1>1. l = Proved(m, q, shown) /\ r = Proved(m, Prior(q), shown) /\ VerdictOf(q, shown) = Assess(l, r)
  BY DEF CurrentOf, PriorOf, VerdictOf, Verdict
<1>2. /\ l.source = PeriodRead(m, q).source /\ l.to = PeriodRead(m, q).to
      /\ r.source = PeriodRead(m, Prior(q)).source /\ r.to = PeriodRead(m, Prior(q)).to
  BY <1>1, ProvedIs
<1>3. m \in Governed /\ q.window \in {None} \cup (Int \X Int)
  BY PeriodSource DEF Fits
<1>4. None \notin Verdicts \cup Courses
  BY ClaimsAssumption
<1>5. CASE q.window # None
  <2> DEFINE old == Prior(q)
  <2>1. /\ PeriodRead(m, q).source = "explicit" /\ PeriodRead(m, old).source = "explicit"
    BY <1>5, PeriodSource
  <2>2. /\ q.window \in Int \X Int /\ old.window \in Int \X Int
        /\ old.window = <<2 * q.window[1] - q.window[2], q.window[1]>>
    BY <1>5, PriorWindowIs
  <2>3. q.window[1] < q.window[2]
    BY <1>5, PlanIs
  <2>4. q.window # old.window
    BY <2>2, <2>3
  <2>5. l.source = "explicit" /\ r.source = "explicit"
    BY <1>2, <2>1
  <2> HIDE DEF m, l, r, old
  <2>6. IsWindow(l) /\ IsWindow(r) /\ ~IsSnapshot(l) /\ ~IsSnapshot(r)
    BY <2>5 DEF IsWindow, Windows, IsSnapshot, Snapshots
  <2>7. Progress(l) # None /\ Progress(r) # None
    BY <1>4, <2>6 DEF Progress, Courses
  <2>8. Assess(l, r) # None
    BY <1>4, <2>6, <2>7 DEF Assess, Verdicts
  <2>9. Assess(l, r) = "compatible"
    BY <1>1, <2>8 DEF Authorized
  <2>10. old.window \in {None} \cup (Int \X Int)
    BY <2>2
  <2>11. Assess(Proved(m, q, shown), Proved(m, old, shown)) = "compatible"
    BY <1>1, <2>9 DEF old
  <2>12. \A s \in {q, old} : s.window # None /\ s.window[2] <= Now
    BY <1>3, <2>4, <2>10, <2>11, ComparableIsOver
  <2>13. PeriodRead(m, q).to = q.window[2] /\ PeriodRead(m, old).to = old.window[2]
    BY <2>12 DEF PeriodRead
  <2>14. l.to <= Now /\ r.to <= Now
    BY <1>2, <2>12, <2>13 DEF old
  <2> QED
    BY <2>6, <2>14 DEF Over, l, r
<1>6. CASE q.window = None
  <2>1. l.source = "latest_snapshot" /\ r.source = "latest_snapshot"
    BY <1>2, <1>6, PeriodSource
  <2> HIDE DEF m, l, r
  <2>2. IsSnapshot(l) /\ IsSnapshot(r)
    BY <2>1 DEF IsSnapshot, Snapshots
  <2>3. Assess(l, r) = IF None \notin {l.month, r.month} THEN "compatible" ELSE "not_assessable"
    BY <2>2 DEF Assess
  <2>4. None \notin {l.month, r.month}
    BY <1>1, <1>4, <2>3 DEF Authorized, Verdicts
  <2> QED
    BY <2>4 DEF l, r
<1> QED
  BY <1>5, <1>6

(* A row of a comparison that is told is one of the statement.             *)
LEMMA ComparedRow ==
  ASSUME NEW q, NEW top, NEW shown, Page(q, top, shown), q.compare # None,
         NEW k \in DOMAIN RowsOn(q, Run(q), shown)
  PROVE  k \in Keys(q) /\ RowsOn(q, Run(q), shown)[k] = Run(q)[k]
<1> DEFINE run == Run(q)
           cells == CellsOf(run, shown)
           rows == RowsOn(q, run, shown)
           cut == CutOff(run, shown)
           current == CurrentOf(q, shown)
<1>1. DOMAIN cells = shown /\ (\A x \in shown : cells[x] = run[x]) /\ shown \subseteq Keys(q)
  BY PageIs DEF CellsOf
<1>2. ~AsOfMissing(q, current, shown)
  BY DatedIs
<1>3. rows = IF \A x \in DOMAIN cells : ~cut /\ cells[x].match = 0 THEN <<>> ELSE cells
  BY <1>1, <1>2 DEF RowsOn, RowsTold
<1> HIDE DEF run, cells, rows, cut
<1>4. rows = cells
  BY <1>3 DEF rows, run
<1> QED
  BY <1>1, <1>4 DEF rows, run

LEMMA SnapshotMonth ==
  ASSUME NEW q, Posed(q), Numbered(facts), NEW shown, NEW p, p = CurrentOf(q, shown),
         IsSnapshot(p), p.month # None, NEW r \in SourceRows(q)
  PROVE  facts[r].month = p.month
<1> DEFINE m == q.parts[1].metric
<1>1. p = Proved(m, q, shown)
  BY DEF CurrentOf
<1>2. Admissible(q) /\ Fits(m, q)
  BY PeriodSource DEF Posed
<1>3. IsSnapshot(PeriodRead(m, q))
  BY <1>1, ProvedIs DEF IsSnapshot
<1>4. (\A x \in Scope(m, q) : facts[x].month = p.month) /\ q.form = "core"
  BY <1>1, <1>2, <1>3, MonthTold
<1>5. DOMAIN q.parts = {1}
  BY <1>2, <1>4, PartsAre
<1>6. r \in Counted(m, q)
  BY <1>5 DEF SourceRows
<1>7. Counted(m, q) \subseteq Scope(m, q)
  BY <1>2, ScopeIsCounted
<1> QED
  BY <1>4, <1>6, <1>7

-----------------------------------------------------------------------------
ComparisonsOf(q, told) ==
    /\ \A k \in DOMAIN told.claims :
         LET c == told.claims[k]
         IN /\ c.delta # None => \/ \A p \in {told.period.current, told.period.prior} :
                                      IsWindow(p) /\ Over(p)
                                 \/ \A p \in {told.period.current, told.period.prior} :
                                      p.month # None
            /\ "period_comparison" \in c.relations =>
                 /\ c.delta # None
                 /\ Exact(q) => c.delta = TruthOf(Current(q), k) - TruthOf(Prior(q), k)
    /\ IsSnapshot(told.period.current) /\ told.period.current.month # None =>
         \A r \in SourceRows(Current(q)) : facts[r].month = told.period.current.month

LEMMA ComparisonsHold ==
  ASSUME NEW q, NEW top, NEW shown, NEW additive, NEW chosen, NEW told,
         Page(q, top, shown), Telling(q, additive, chosen, Run(q), shown, told)
  PROVE  ComparisonsOf(q, told)
<1> DEFINE run == Run(q)
           rows == RowsOn(q, run, shown)
           verdict == VerdictOf(q, shown)
           l == CurrentOf(q, shown)
           r == PriorOf(q, shown)
<1>1. TellingIs(q, additive, chosen, run, shown, told)
  BY ToldIs
<1>2. told.period = [current |-> l, prior |-> r]
  BY <1>1 DEF TellingIs
<1>3. /\ DOMAIN told.claims = DOMAIN rows
      /\ \A k \in DOMAIN rows : told.claims[k] = ClaimOf(q, additive, verdict, k, rows[k])
  BY ToldValues
<1>4. told.period.current = l /\ told.period.prior = r
  BY <1>2
<1>5. Posed(q) /\ Admissible(q) /\ Numbered(facts) /\ PlanRefusal(q) = None
  BY DEF Page, Posed
<1> HIDE DEF run, rows, verdict, l, r
<1>6. ASSUME NEW k \in DOMAIN rows
      PROVE  /\ told.claims[k].delta =
                  IF q.compare # None /\ Authorized(verdict) THEN rows[k].delta ELSE None
             /\ "period_comparison" \in told.claims[k].relations =>
                  q.compare # None /\ Authorized(verdict) /\ rows[k].delta # None
  <2> DEFINE c == told.claims[k]
             cell == rows[k]
  <2>1. c = ClaimOf(q, additive, verdict, k, cell)
    BY <1>3, <1>6
  <2> HIDE DEF c, cell
  <2>2. /\ c.delta = IF q.compare # None /\ Authorized(verdict) THEN cell.delta ELSE None
        /\ c.relations = Relations(q, additive, verdict, k, cell)
    BY <2>1 DEF ClaimOf
  <2>3. "period_comparison" \in c.relations =>
          q.compare # None /\ Authorized(verdict) /\ ComparisonComplete(q, additive, k, cell)
    BY <2>2 DEF Relations
  <2>4. ComparisonComplete(q, additive, k, cell) => cell.delta # None
    BY DEF ComparisonComplete
  <2> QED
    BY <2>2, <2>3, <2>4 DEF c, cell
<1>7. ASSUME NEW k \in DOMAIN told.claims, told.claims[k].delta # None
      PROVE  \/ \A p \in {l, r} : IsWindow(p) /\ Over(p)
             \/ \A p \in {l, r} : p.month # None
  <2>1. q.compare # None /\ Authorized(VerdictOf(q, shown))
    BY <1>3, <1>6, <1>7 DEF verdict
  <2> QED
    BY <1>5, <2>1, ComparedPeriods DEF l, r
<1>8. ASSUME NEW k \in DOMAIN told.claims, "period_comparison" \in told.claims[k].relations
      PROVE  /\ told.claims[k].delta # None
             /\ Exact(q) => told.claims[k].delta = TruthOf(q, k) - TruthOf(Prior(q), k)
  <2>1. q.compare # None /\ told.claims[k].delta = rows[k].delta /\ rows[k].delta # None
    BY <1>3, <1>6, <1>8
  <2>2. k \in DOMAIN rows
    BY <1>3, <1>8
  <2>3. k \in Keys(q) /\ rows[k] = run[k]
    BY <2>1, <2>2, ComparedRow DEF rows, run
  <2>4. ASSUME Exact(q) PROVE run[k].delta = TruthOf(q, k) - TruthOf(Prior(q), k)
    <3>1. Sums(q) /\ q.form # "ratio"
      BY <2>4 DEF Exact
    <3>2. Run(q) = Comparison(q) /\ DOMAIN Comparison(q) = Keys(q)
      BY <1>5, <2>1, <3>1, ComparisonTrue DEF Run, Keys, Current
    <3>3. k \in DOMAIN Comparison(q)
      BY <2>3, <3>2
    <3>4. LET a == Comparison(q)[k]
              c == TruthOf(q, k)
              p == TruthOf(Prior(q), k)
          IN q.form # "ratio" /\ a.delta # None => a.delta = c - p
      BY <1>5, <2>1, <3>1, <3>3, ComparisonTrue
    <3> QED
      BY <2>1, <2>3, <3>1, <3>2, <3>4 DEF run
  <2> QED
    BY <2>1, <2>3, <2>4
<1>9. ASSUME IsSnapshot(l), l.month # None
      PROVE  \A x \in SourceRows(q) : facts[x].month = l.month
  BY <1>5, <1>9, SnapshotMonth DEF l
<1> QED
  BY <1>4, <1>7, <1>8, <1>9 DEF ComparisonsOf, Current

-----------------------------------------------------------------------------
(* Double sums.                                                            *)
Across(F, n) == [i \in DOMAIN F |-> F[i][n]]
(* A family of rows of numbers, all of them over the same columns M.       *)
Rowed(F, M) == /\ IsFiniteSet(DOMAIN F) /\ IsFiniteSet(M)
               /\ \A i \in DOMAIN F : Ints(F[i]) /\ DOMAIN F[i] = M

LEMMA AcrossInts ==
  ASSUME NEW F, NEW M, Rowed(F, M), NEW n \in M
  PROVE  Ints(Across(F, n)) /\ DOMAIN Across(F, n) = DOMAIN F
<1>1. \A i \in DOMAIN F : F[i][n] \in Int
  BY DEF Rowed, Ints
<1> QED
  BY <1>1 DEF Rowed, Ints, Across

(* Rows first or columns first: the sum is the same.                       *)
LEMMA SumOfSums ==
  ASSUME NEW F, NEW M, Rowed(F, M)
  PROVE  /\ Ints([n \in M |-> Sum(Across(F, n))]) /\ Ints([i \in DOMAIN F |-> Sum(F[i])])
         /\ Sum([n \in M |-> Sum(Across(F, n))]) = Sum([i \in DOMAIN F |-> Sum(F[i])])
<1> DEFINE I == DOMAIN F
           rs == [i \in I |-> Sum(F[i])]
           ColumnOf(n) == TheFold(Across(F, n))
           Upto(T) == [n \in M |-> ColumnOf(n)[T]]
           G == {T \in SUBSET I : Sum(Upto(T)) = TheFold(rs)[T]}
<1>1. \A i \in I : Ints(F[i]) /\ DOMAIN F[i] = M /\ Sum(F[i]) \in Int
  BY SumType DEF Rowed
<1>2. Ints(rs) /\ DOMAIN rs = I
  BY <1>1 DEF Ints, Rowed
<1>3. \A n \in M : Ints(Across(F, n)) /\ DOMAIN Across(F, n) = I
  BY AcrossInts
<1>4. ASSUME NEW T \in SUBSET I PROVE Ints(Upto(T))
  <2>1. \A n \in M : ColumnOf(n)[T] \in Int
    BY <1>3, FoldAdds
  <2> QED
    BY <2>1 DEF Ints, Rowed
<1>5. {} \in G
  <2>1. \A n \in M : ColumnOf(n)[{}] = 0
    BY <1>3, TheFoldIs
  <2>2. Sum(Upto({})) = 0
    <3>1. {} \in SUBSET I
      OBVIOUS
    <3>2. Ints(Upto({})) /\ \A n \in DOMAIN Upto({}) : Upto({})[n] = 0
      BY <1>4, <2>1, <3>1
    <3> QED
      BY <3>2, SumOfZeros
  <2>3. TheFold(rs)[{}] = 0
    BY <1>2, TheFoldIs
  <2> QED
    BY <2>2, <2>3
<1>6. ASSUME NEW T \in SUBSET I, NEW x \in I \ T, T \in G
      PROVE  T \cup {x} \in G
  <2> DEFINE V == T \cup {x}
             f == Upto(V)
             g == Upto(T)
             h == F[x]
  <2>1. V \in SUBSET I /\ x \in I
    OBVIOUS
  <2>2. Ints(f) /\ Ints(g) /\ Ints(h) /\ DOMAIN f = M /\ DOMAIN g = M /\ DOMAIN h = M
    BY <1>1, <1>4, <2>1
  <2>3. ASSUME NEW n \in M PROVE h[n] = f[n] - g[n]
    <3>1. ColumnOf(n)[V] = Across(F, n)[x] + ColumnOf(n)[T]
      BY <1>3, FoldAdds
    <3>2. Across(F, n)[x] = F[x][n]
      BY DEF Across
    <3>3. F[x][n] \in Int /\ ColumnOf(n)[T] \in Int
      BY <2>2 DEF Ints
    <3> QED
      BY <3>1, <3>2, <3>3
  <2> HIDE DEF f, g, h, V
  <2>4. Sum(h) = Sum(f) - Sum(g)
    BY <2>2, <2>3, SumOfDifferences
  <2>5. Sum(h) \in Int /\ Sum(f) \in Int /\ Sum(g) \in Int
    BY <2>2, SumType
  <2>6. TheFold(rs)[V] = rs[x] + TheFold(rs)[T] /\ rs[x] = Sum(h)
    BY <1>2, FoldAdds DEF V, h
  <2>7. Sum(g) = TheFold(rs)[T]
    BY <1>6 DEF g
  <2>8. Sum(f) = TheFold(rs)[V]
    BY <2>4, <2>5, <2>6, <2>7
  <2> QED
    BY <2>1, <2>8 DEF f, V
<1>7. I \in G
  <2>1. IsFiniteSet(I)
    BY DEF Rowed
  <2> HIDE DEF G, I
  <2> QED
    BY <1>5, <1>6, <2>1, Growing
<1>8. \A n \in M : ColumnOf(n)[I] = Sum(Across(F, n))
  BY <1>3, SumIsFold
<1>9. Upto(I) = [n \in M |-> Sum(Across(F, n))]
  BY <1>8
<1>10. TheFold(rs)[I] = Sum(rs)
  BY <1>2, SumIsFold
<1>11. I \in SUBSET I
  OBVIOUS
<1>12. Ints([n \in M |-> Sum(Across(F, n))])
  BY <1>4, <1>9, <1>11
<1> QED
  BY <1>2, <1>7, <1>9, <1>10, <1>12

LEMMA SumNegated ==
  ASSUME NEW f, Ints(f), NEW s \in {1, -1}
  PROVE  Sum([x \in DOMAIN f |-> s * f[x]]) = s * Sum(f) /\ Ints([x \in DOMAIN f |-> s * f[x]])
<1> DEFINE h == [x \in DOMAIN f |-> s * f[x]]
           z == [x \in DOMAIN f |-> 0]
<1>1. \A x \in DOMAIN f : f[x] \in Int /\ s * f[x] \in Int /\ (s = 1 => s * f[x] = f[x])
                          /\ (s = -1 => s * f[x] = 0 - f[x])
  BY DEF Ints
<1>2. Ints(h) /\ Ints(z)
  BY <1>1 DEF Ints
<1>3. Sum(f) \in Int
  BY SumType
<1>4. CASE s = 1
  <2>1. h = f
    BY <1>1, <1>4 DEF Ints
  <2> QED
    BY <1>2, <1>3, <1>4, <2>1
<1>5. CASE s = -1
  <2>1. Sum(z) = 0
    BY <1>2, SumOfZeros
  <2>2. \A x \in DOMAIN f : h[x] = z[x] - f[x]
    BY <1>1, <1>5
  <2>3. DOMAIN h = DOMAIN f /\ DOMAIN z = DOMAIN f
    OBVIOUS
  <2> HIDE DEF h, z
  <2>4. Sum(h) = Sum(z) - Sum(f)
    BY <1>2, <2>2, <2>3, SumOfDifferences
  <2> QED
    BY <1>2, <1>3, <1>5, <2>1, <2>4 DEF h
<1> QED
  BY <1>4, <1>5

(* A sum by groups: every element lies in one of the groups M.             *)
LEMMA SumByGroup ==
  ASSUME NEW f, Ints(f), NEW key, NEW M, IsFiniteSet(M), \A r \in DOMAIN f : key[r] \in M
  PROVE  /\ Ints([n \in M |-> Sum(Restricted(f, {r \in DOMAIN f : key[r] = n}))])
         /\ Sum(f) = Sum([n \in M |-> Sum(Restricted(f, {r \in DOMAIN f : key[r] = n}))])
<1> DEFINE R == DOMAIN f
           F == [r \in R |-> [n \in M |-> IF key[r] = n THEN f[r] ELSE 0]]
           In(n) == {r \in R : key[r] = n}
<1>1. \A r \in R : f[r] \in Int
  BY DEF Ints
<1>2. ASSUME NEW r \in R PROVE Ints(F[r]) /\ DOMAIN F[r] = M
  <2>1. F[r] = [n \in M |-> IF key[r] = n THEN f[r] ELSE 0]
    BY <1>2
  <2> QED
    BY <1>1, <2>1 DEF Ints
<1>3. Rowed(F, M)
  BY <1>2 DEF Rowed, Ints
<1>4. ASSUME NEW r \in R PROVE Sum(F[r]) = f[r]
  <2> DEFINE g == F[r]
             only == Restricted(g, {key[r]})
  <2>1. key[r] \in M /\ {key[r]} \in SUBSET DOMAIN g /\ g[key[r]] = f[r]
    BY <1>2
  <2>2. \A n \in DOMAIN g \ {key[r]} : g[n] = 0
    BY <1>2
  <2>3. Ints(g)
    BY <1>2
  <2> HIDE DEF g
  <2>4. Sum(g) = Sum(only)
    BY <2>1, <2>2, <2>3, SumWithoutZeros
  <2>5. Sum(only) = TheFold(g)[{key[r]}]
    BY <2>1, <2>3, SumOfPart
  <2>6. TheFold(g)[{key[r]}] = f[r]
    <3>1. TheFold(g)[{} \cup {key[r]}] = g[key[r]] + TheFold(g)[{}]
      BY <2>1, <2>3, FoldAdds
    <3>2. TheFold(g)[{}] = 0 /\ {} \cup {key[r]} = {key[r]}
      BY <2>3, TheFoldIs
    <3> QED
      BY <1>1, <2>1, <3>1, <3>2
  <2> QED
    BY <2>4, <2>5, <2>6 DEF g
<1>5. ASSUME NEW n \in M PROVE Sum(Across(F, n)) = Sum(Restricted(f, In(n)))
  <2> DEFINE g == Across(F, n)
  <2>1. Ints(g) /\ DOMAIN g = R
    BY <1>3, AcrossInts
  <2>2. \A r \in R : g[r] = IF key[r] = n THEN f[r] ELSE 0
    BY DEF Across
  <2> HIDE DEF g
  <2>3. In(n) \in SUBSET DOMAIN g /\ \A r \in DOMAIN g \ In(n) : g[r] = 0
    BY <2>1, <2>2
  <2> HIDE DEF In
  <2>4. Sum(g) = Sum(Restricted(g, In(n)))
    BY <2>1, <2>3, SumWithoutZeros
  <2>5. Restricted(g, In(n)) = Restricted(f, In(n))
    BY <2>1, <2>2 DEF Restricted, In
  <2> QED
    BY <2>4, <2>5 DEF g
<1>6. /\ Ints([n \in M |-> Sum(Across(F, n))])
      /\ Sum([n \in M |-> Sum(Across(F, n))]) = Sum([r \in DOMAIN F |-> Sum(F[r])])
  BY <1>3, SumOfSums
<1>7. DOMAIN F = R
  OBVIOUS
<1> HIDE DEF F
<1>8. [r \in DOMAIN F |-> Sum(F[r])] = f
  BY <1>4, <1>7 DEF Ints
<1>9. [n \in M |-> Sum(Across(F, n))] = [n \in M |-> Sum(Restricted(f, In(n)))]
  BY <1>5
<1> QED
  BY <1>6, <1>8, <1>9

-----------------------------------------------------------------------------
(* The value of a metric over rows is the sum of its values by month.      *)
Monthly(m, rows, M, v) ==
    /\ m \in Governed /\ m.agg \in Summing /\ rows \in SUBSET DOMAIN facts
    /\ IsFiniteSet(M) /\ (\A r \in rows : facts[r].month \in M) /\ (m.overdue => rows # {})
    /\ \A n \in M : v[n] = Truth(m, {r \in rows : facts[r].month = n}) /\ v[n] # None

LEMMA ByMonth ==
  ASSUME Numbered(facts), NEW m, NEW rows, NEW M, NEW v, Monthly(m, rows, M, v)
  PROVE  Truth(m, rows) \in Int /\ Ints([n \in M |-> v[n]]) /\ Truth(m, rows) = Sum([n \in M |-> v[n]])
<1> DEFINE f == [r \in rows |-> Worth(m, r)]
           key == [r \in rows |-> facts[r].month]
           In(n) == {r \in rows : facts[r].month = n}
           Doubt(r) == Incomplete(m, r) \/ (m.overdue /\ Unassessable(r))
<1>0. /\ m \in Governed /\ m.agg \in Summing /\ rows \in SUBSET DOMAIN facts
      /\ IsFiniteSet(M) /\ (\A r \in rows : facts[r].month \in M) /\ (m.overdue => rows # {})
      /\ \A n \in M : v[n] = Truth(m, {r \in rows : facts[r].month = n}) /\ v[n] # None
  BY DEF Monthly
<1>1. ASSUME NEW n \in M PROVE v[n] = Sum([r \in In(n) |-> Worth(m, r)]) /\ \A r \in In(n) : ~Doubt(r)
  <2>1. Truth(m, In(n)) # None /\ v[n] = Truth(m, In(n))
    BY <1>0, <1>1
  <2> HIDE DEF In
  <2> QED
    BY <2>1 DEF Truth
<1>2. \A r \in rows : ~Doubt(r)
  <2> TAKE r \in rows
  <2>1. facts[r].month \in M /\ r \in In(facts[r].month)
    BY <1>0
  <2> HIDE DEF In
  <2> QED
    BY <1>1, <2>1
<1>3. \A r \in rows : Worth(m, r) \in Int
  BY <1>0, <1>2, KnownIsWorth
<1>4. Ints(f)
  BY <1>0, <1>3, FS_Subset DEF Ints, Numbered
<1>5. Truth(m, rows) = Sum(f)
  BY <1>0, <1>2 DEF Truth
<1>6. \A r \in DOMAIN f : key[r] \in M
  BY <1>0
<1>7. \A n \in M : {r \in DOMAIN f : key[r] = n} = In(n)
  OBVIOUS
<1>8. \A n \in M : Restricted(f, In(n)) = [r \in In(n) |-> Worth(m, r)]
  BY DEF Restricted
<1>9. \A n \in M : Sum(Restricted(f, {r \in DOMAIN f : key[r] = n})) = v[n]
  BY <1>1, <1>7, <1>8
<1> HIDE DEF f, key
<1>10. /\ Ints([n \in M |-> Sum(Restricted(f, {r \in DOMAIN f : key[r] = n}))])
       /\ Sum(f) = Sum([n \in M |-> Sum(Restricted(f, {r \in DOMAIN f : key[r] = n}))])
  BY <1>0, <1>4, <1>6, SumByGroup
<1>11. [n \in M |-> Sum(Restricted(f, {r \in DOMAIN f : key[r] = n}))] = [n \in M |-> v[n]]
  BY <1>9
<1>12. Sum(f) \in Int
  BY <1>4, SumType
<1> QED
  BY <1>5, <1>10, <1>11, <1>12

LEMMA MonthOf ==
  ASSUME NEW r PROVE DimensionValue("period", r) = facts[r].month
BY MetricsAssumption DEF DimensionValue, Dimensions

(* The part of one metric: over all the months it is the whole.            *)
LEMMA PartByMonth ==
  ASSUME Numbered(facts), NEW q, Admissible(q), Sums(q), q.dim = "period",
         NEW i \in DOMAIN q.parts, MetricOf(q, i).overdue => q.form = "core",
         NEW M, IsFiniteSet(M), M # {}, M = KeysOf(q), \A n \in M : ValueOf(q, i, n) # None
  PROVE  LET all == Truth(MetricOf(q, i), Counted(MetricOf(q, i), q))
         IN /\ all \in Int /\ Ints([n \in M |-> ValueOf(q, i, n)])
            /\ all = Sum([n \in M |-> ValueOf(q, i, n)])
<1> DEFINE m == MetricOf(q, i)
           rows == Counted(m, q)
           v == [n \in M |-> ValueOf(q, i, n)]
<1>1. Fits(m, q) /\ m.agg \in Summing
  BY PartsFit
<1>2. rows \in SUBSET DOMAIN facts
  BY DEF Counted, Live
<1>3. q.dim # None
  BY MetricsAssumption DEF Dimensions
<1>4. \A r \in rows : facts[r].month \in M
  BY <1>3, MonthOf DEF KeysOf, MetricOf
<1>5. m.overdue => rows # {}
  <2> SUFFICES ASSUME m.overdue PROVE rows # {}
    OBVIOUS
  <2>1. DOMAIN q.parts = {1}
    BY PartsAre
  <2>2. PICK n \in M : n \in KeysOf(q)
    OBVIOUS
  <2> QED
    BY <1>3, <2>1, <2>2 DEF KeysOf, MetricOf
<1>6. \A n \in M : CountedIn(m, q, n) = {r \in rows : facts[r].month = n}
  BY MonthOf DEF CountedIn
<1>7. \A n \in M : v[n] = Truth(m, {r \in rows : facts[r].month = n}) /\ v[n] # None
  BY <1>6 DEF ValueOf
<1>8. m \in Governed
  BY <1>1 DEF Fits
<1>10. [n \in M |-> v[n]] = v
  OBVIOUS
<1> HIDE DEF m, rows, v
<1>9. Monthly(m, rows, M, v)
  BY <1>1, <1>2, <1>4, <1>5, <1>7, <1>8 DEF Monthly
<1>11. Truth(m, rows) \in Int /\ Ints([n \in M |-> v[n]]) /\ Truth(m, rows) = Sum([n \in M |-> v[n]])
  BY <1>9, ByMonth
<1> QED
  BY <1>10, <1>11 DEF m, rows, v

LEMMA WholeIsSum ==
  ASSUME Numbered(facts), NEW q, Admissible(q), Exact(q), q.dim = "period",
         NEW M, IsFiniteSet(M), M # {}, M = KeysOf(q), \A n \in M : TruthOf(q, n) # None
  PROVE  Sum([n \in M |-> TruthOf(q, n)]) = TruthOf(Whole(q), All)
<1> DEFINE I == DOMAIN q.parts
           o == Whole(q)
           V(i) == Truth(MetricOf(q, i), Counted(MetricOf(q, i), q))
<1>1. Sums(q) /\ q.form \in {"core", "composite"}
  BY PartsAre DEF Exact, Forms
<1>2. /\ o.parts = q.parts /\ o.form = q.form
      /\ \A i \in I : CountedIn(o.parts[i].metric, o, All) = Counted(MetricOf(q, i), q)
  BY WholeIs DEF MetricOf
<1>3. IsFiniteSet(I) /\ 1 \in I /\ \A i \in I : q.parts[i].sign \in {1, -1}
  BY PartsAre
<1>4. \A i \in I : MetricOf(q, i).overdue => q.form = "core"
  BY DEF Admissible, MetricOf
<1> HIDE DEF o
<1>5. CASE q.form = "core"
  <2>1. \A n \in M : TruthOf(q, n) = ValueOf(q, 1, n)
    BY <1>5 DEF TruthOf, ValueOf, MetricOf
  <2>2. TruthOf(o, All) = V(1)
    BY <1>2, <1>3, <1>5 DEF TruthOf, MetricOf
  <2>3. V(1) = Sum([n \in M |-> ValueOf(q, 1, n)])
    <3>1. PICK i \in I : i = 1
      BY <1>3
    <3>2. \A n \in M : ValueOf(q, i, n) # None
      BY <2>1, <3>1
    <3>3. V(i) = Sum([n \in M |-> ValueOf(q, i, n)])
      BY <1>1, <1>4, <3>2, PartByMonth
    <3> QED
      BY <3>1, <3>3
  <2>4. [n \in M |-> ValueOf(q, 1, n)] = [n \in M |-> TruthOf(q, n)]
    BY <2>1
  <2> QED
    BY <2>2, <2>3, <2>4 DEF o
<1>6. CASE q.form = "composite"
  <2> DEFINE F == [i \in I |-> [n \in M |-> q.parts[i].sign * ValueOf(q, i, n)]]
  <2>1. \A n : TruthOf(q, n) = IF \E i \in I : ValueOf(q, i, n) = None THEN None
                               ELSE Sum([i \in I |-> q.parts[i].sign * ValueOf(q, i, n)])
    BY <1>6 DEF TruthOf, ValueOf, MetricOf
  <2>2. \A n \in M, i \in I : ValueOf(q, i, n) # None
    BY <2>1
  <2>3. ASSUME NEW i \in I
        PROVE  /\ V(i) \in Int /\ V(i) # None
               /\ Ints(F[i]) /\ DOMAIN F[i] = M /\ Sum(F[i]) = q.parts[i].sign * V(i)
    <3> DEFINE v == [n \in M |-> ValueOf(q, i, n)]
    <3>1. V(i) \in Int /\ Ints(v) /\ V(i) = Sum(v)
      BY <1>1, <1>4, <2>2, <2>3, PartByMonth
    <3>2. DOMAIN v = M /\ F[i] = [n \in DOMAIN v |-> q.parts[i].sign * v[n]]
      BY <2>3
    <3> HIDE DEF v, F, V
    <3>3. Ints(F[i]) /\ Sum(F[i]) = q.parts[i].sign * Sum(v)
      BY <1>3, <2>3, <3>1, <3>2, SumNegated
    <3>4. V(i) # None
      BY <3>1, MetricsAssumption
    <3> QED
      BY <3>1, <3>2, <3>3, <3>4
  <2>4. DOMAIN F = I
    OBVIOUS
  <2>5. \A n \in M : Across(F, n) = [i \in I |-> q.parts[i].sign * ValueOf(q, i, n)]
    BY DEF Across
  <2> HIDE DEF F, V, I
  <2>6. Rowed(F, M)
    BY <1>3, <2>3, <2>4 DEF Rowed
  <2>7. Sum([n \in M |-> Sum(Across(F, n))]) = Sum([i \in I |-> Sum(F[i])])
    BY <2>4, <2>6, SumOfSums
  <2>8. [n \in M |-> Sum(Across(F, n))] = [n \in M |-> TruthOf(q, n)]
    BY <2>1, <2>2, <2>5
  <2>9. [i \in I |-> Sum(F[i])] = [i \in I |-> q.parts[i].sign * V(i)]
    BY <2>3
  <2>10. TruthOf(o, All) = Sum([i \in I |-> q.parts[i].sign * V(i)])
    <3> DEFINE For(i) == Truth(o.parts[i].metric, CountedIn(o.parts[i].metric, o, All))
    <3>1. \A i \in I : For(i) = V(i) /\ For(i) # None
      BY <1>2, <2>3 DEF V, MetricOf
    <3>2. TruthOf(o, All) = IF \E i \in I : For(i) = None THEN None
                            ELSE Sum([i \in I |-> q.parts[i].sign * For(i)])
      BY <1>2, <1>6 DEF TruthOf, I
    <3> HIDE DEF For
    <3>3. TruthOf(o, All) = Sum([i \in I |-> q.parts[i].sign * For(i)])
      BY <3>1, <3>2
    <3>4. [i \in I |-> q.parts[i].sign * For(i)] = [i \in I |-> q.parts[i].sign * V(i)]
      BY <3>1
    <3> QED
      BY <3>3, <3>4
  <2> QED
    BY <2>7, <2>8, <2>9, <2>10 DEF o
<1> QED
  BY <1>1, <1>5, <1>6

-----------------------------------------------------------------------------
(* A series without a gap has the value of every month of a window that is *)
(* over.                                                                   *)
LEMMA GapIs ==
  ASSUME NEW p, NEW cut, NEW months, SeriesGap(p, cut, months) = None
  PROVE  IsWindow(p) /\ ~cut /\ Progress(p) = "completed" /\ p.to <= Now /\ months = p.from..(p.to - 1)
<1>1. IsWindow(p) /\ ~cut /\ Progress(p) = "completed" /\ months = p.from..(p.to - 1)
  BY ClaimsAssumption DEF SeriesGap, SeriesGaps
<1>2. p.to <= Now
  BY <1>1, ClaimsAssumption DEF Progress, Courses
<1> QED
  BY <1>1, <1>2

LEMMA SeriesIs ==
  ASSUME NEW q, NEW top, NEW shown, NEW additive, NEW chosen, NEW told,
         Page(q, top, shown), Telling(q, additive, chosen, Run(q), shown, told), Exact(q),
         SeriesGap(CurrentOf(q, shown), CutOff(Run(q), shown), DOMAIN told.claims) = None
  PROVE  /\ q.window # None /\ q.window \in Int \X Int /\ q.window[1] < q.window[2]
         /\ IsWindow(CurrentOf(q, shown))
         /\ CurrentOf(q, shown).from = q.window[1] /\ CurrentOf(q, shown).to = q.window[2]
         /\ DOMAIN told.claims = Keys(q) /\ Keys(q) = q.window[1]..(q.window[2] - 1)
         /\ \A n \in Keys(q) : told.claims[n].value = TruthOf(q, n)
<1> DEFINE run == Run(q)
           cells == CellsOf(run, shown)
           rows == RowsOn(q, run, shown)
           cut == CutOff(run, shown)
           p == CurrentOf(q, shown)
           m == q.parts[1].metric
<1>1. /\ IsWindow(p) /\ ~cut /\ p.to <= Now /\ DOMAIN told.claims = p.from..(p.to - 1)
  BY GapIs
<1>2. Posed(q) /\ Admissible(q) /\ Numbered(facts) /\ PlanRefusal(q) = None /\ Sums(q)
  BY DEF Page, Posed, Exact
<1>3. p = Proved(m, q, shown)
  BY DEF CurrentOf
<1>4. /\ p.source = PeriodRead(m, q).source /\ p.from = PeriodRead(m, q).from
      /\ p.to = PeriodRead(m, q).to
  BY <1>3, ProvedIs
<1>5. m \in Governed /\ q.window \in {None} \cup (Int \X Int)
  BY <1>2, PeriodSource DEF Fits
<1>6. q.window # None
  <2> SUFFICES ASSUME q.window = None PROVE FALSE
    OBVIOUS
  <2>1. p.source \in {"explicit", "default_current_month"}
    BY <1>1 DEF IsWindow, Windows
  <2>2. p.source = "default_current_month" /\ p.to = Now + 1
    BY <1>4, <1>5, <2>1, SourcesDiffer
  <2> QED
    BY <1>1, <2>2, MetricsAssumption
<1>7. p.from = q.window[1] /\ p.to = q.window[2]
  BY <1>4, <1>5, <1>6, SourcesDiffer
<1>8. q.window[1] < q.window[2] /\ q.window \in Int \X Int
  BY <1>2, <1>5, <1>6, PlanIs
<1>9. DOMAIN told.claims # {}
  <2>1. q.window[1] \in Int /\ q.window[2] \in Int
    BY <1>8
  <2>2. q.window[1] \in q.window[1]..(q.window[2] - 1)
    BY <1>8, <2>1
  <2> QED
    BY <1>1, <1>7, <2>2
<1>10. DOMAIN told.claims = DOMAIN rows /\ \A k \in DOMAIN rows : told.claims[k].value = rows[k].value
  BY ToldValues
<1>11. shown = Keys(q) /\ DOMAIN cells = shown /\ \A k \in shown : cells[k] = run[k]
  BY <1>1, PageIs DEF CellsOf
<1>12. rows = cells
  <2>1. p.source = "explicit"
    BY <1>4, <1>5, <1>6, SourcesDiffer
  <2>2. ~AsOfMissing(q, p, DOMAIN cells)
    BY <2>1 DEF AsOfMissing
  <2>3. rows = IF \A k \in DOMAIN cells : ~cut /\ cells[k].match = 0 THEN <<>> ELSE cells
    BY <2>2 DEF RowsOn, RowsTold
  <2> HIDE DEF rows, cells, cut
  <2>4. rows # <<>>
    BY <1>9, <1>10
  <2> QED
    BY <2>3, <2>4
<1>13. \A k \in Keys(q) : run[k].value = TruthOf(q, k)
  BY <1>2, RunTrue
<1> HIDE DEF rows, cells, cut, run, p
<1>14. DOMAIN told.claims = Keys(q) /\ \A n \in Keys(q) : told.claims[n].value = TruthOf(q, n)
  BY <1>10, <1>11, <1>12, <1>13
<1> QED
  BY <1>1, <1>6, <1>7, <1>8, <1>14 DEF p

SeriesOf(q, chosen, told) ==
    q.dim = "period" /\ Exact(q) =>
      /\ told.summary # None /\ told.summary.gap = None =>
           /\ told.summary.total = TruthOf([q EXCEPT !.dim = None], All)
           /\ told.summary.selected = Sum([n \in chosen |-> InMonth(q, n)])
      /\ told.ranking # None => \A n \in q.window[1]..(q.window[2] - 1) :
           told.ranking[n] = 1 + Cardinality({x \in q.window[1]..(q.window[2] - 1) :
                                                InMonth(q, x) < InMonth(q, n)})

LEMMA SummaryIs ==
  ASSUME NEW q, NEW p, NEW cut, NEW claims, NEW chosen, NEW s, s = Summary(q, p, cut, claims, chosen),
         s.gap = None
  PROVE  /\ SeriesGap(p, cut, DOMAIN claims) = None
         /\ IsWindow(p) => chosen \subseteq p.from..(p.to - 1)
         /\ \A n \in DOMAIN claims : claims[n].value # None
         /\ s.selected = Sum([n \in chosen |-> claims[n].value])
         /\ s.total = Sum([n \in DOMAIN claims |-> claims[n].value])
<1> DEFINE gap == SummaryGap(q, p, cut, claims, chosen)
           part == Sum([n \in chosen |-> claims[n].value])
           all == Sum([n \in DOMAIN claims |-> claims[n].value])
<1>1. s = IF gap # None THEN [gap |-> gap, selected |-> None, total |-> None]
          ELSE [gap |-> None, selected |-> part, total |-> all]
  BY DEF Summary, SummaryUnless
<1> HIDE DEF gap, part, all
<1>2. gap = None /\ s.selected = part /\ s.total = all
  BY <1>1
<1>3. /\ SeriesGap(p, cut, DOMAIN claims) = None
      /\ IsWindow(p) => chosen \subseteq p.from..(p.to - 1)
      /\ \A n \in DOMAIN claims : claims[n].value # None
  BY <1>2, ClaimsAssumption DEF gap, SummaryGap, SeriesGaps
<1> QED
  BY <1>2, <1>3 DEF part, all

LEMMA RankingIs ==
  ASSUME NEW p, NEW cut, NEW claims, NEW s, s = Ranking(p, cut, claims), s # None
  PROVE  /\ SeriesGap(p, cut, DOMAIN claims) = None
         /\ \A n \in DOMAIN claims :
              s[n] = 1 + Cardinality({x \in DOMAIN claims : claims[x].value < claims[n].value})
BY DEF Ranking

LEMMA SeriesHolds ==
  ASSUME NEW q, NEW top, NEW shown, NEW additive, NEW chosen, NEW told,
         Page(q, top, shown), Telling(q, additive, chosen, Run(q), shown, told)
  PROVE  SeriesOf(q, chosen, told)
<1> SUFFICES ASSUME q.dim = "period", Exact(q)
             PROVE  SeriesOf(q, chosen, told)
  BY DEF SeriesOf
<1> DEFINE run == Run(q)
           cut == CutOff(run, shown)
           p == CurrentOf(q, shown)
           M == Keys(q)
<1>1. TellingIs(q, additive, chosen, run, shown, told)
  BY ToldIs
<1>2. Posed(q) /\ Admissible(q) /\ Numbered(facts) /\ q.compare = None
  BY DEF Page, Posed
<1>3. /\ told.ranking = IF OneSeries(q) /\ DOMAIN told.claims # {} THEN Ranking(p, cut, told.claims) ELSE None
      /\ told.summary = IF OneSeries(q) THEN Summary(q, p, cut, told.claims, chosen) ELSE None
  BY <1>1 DEF TellingIs
<1> HIDE DEF run, cut, p, M
<1>4. ASSUME SeriesGap(p, cut, DOMAIN told.claims) = None
      PROVE  /\ q.window # None /\ q.window \in Int \X Int /\ q.window[1] < q.window[2]
             /\ IsWindow(p) /\ p.from = q.window[1] /\ p.to = q.window[2]
             /\ DOMAIN told.claims = M /\ M = q.window[1]..(q.window[2] - 1)
             /\ \A n \in M : told.claims[n].value = TruthOf(q, n)
  BY <1>4, SeriesIs DEF run, cut, p, M
<1>5. ASSUME told.summary # None, told.summary.gap = None
      PROVE  /\ told.summary.total = TruthOf([q EXCEPT !.dim = None], All)
             /\ told.summary.selected = Sum([n \in chosen |-> InMonth(q, n)])
  <2> DEFINE claims == told.claims
             s == told.summary
  <2>1. s = Summary(q, p, cut, claims, chosen) /\ s.gap = None
    BY <1>3, <1>5
  <2> HIDE DEF claims, s
  <2>2. /\ SeriesGap(p, cut, DOMAIN claims) = None
        /\ IsWindow(p) => chosen \subseteq p.from..(p.to - 1)
        /\ \A n \in DOMAIN claims : claims[n].value # None
        /\ s.selected = Sum([n \in chosen |-> claims[n].value])
        /\ s.total = Sum([n \in DOMAIN claims |-> claims[n].value])
    BY <2>1, SummaryIs
  <2>3. /\ q.window \in Int \X Int /\ q.window[1] < q.window[2]
        /\ IsWindow(p) /\ p.from = q.window[1] /\ p.to = q.window[2]
        /\ DOMAIN claims = M /\ M = q.window[1]..(q.window[2] - 1)
        /\ \A n \in M : claims[n].value = TruthOf(q, n)
    BY <1>4, <2>2 DEF claims
  <2>4. chosen \subseteq M
    BY <2>2, <2>3
  <2>5. [n \in chosen |-> claims[n].value] = [n \in chosen |-> InMonth(q, n)]
    BY <2>3, <2>4 DEF InMonth
  <2>6. [n \in DOMAIN claims |-> claims[n].value] = [n \in M |-> TruthOf(q, n)]
    BY <2>3
  <2>7. q.window[1] \in Int /\ q.window[2] \in Int
    BY <2>3
  <2>8. IsFiniteSet(M) /\ M # {}
    <3>1. q.window[2] - 1 \in Int
      BY <2>7
    <3>2. IsFiniteSet(q.window[1]..(q.window[2] - 1))
      BY <2>7, <3>1, FS_Interval
    <3>3. q.window[1] \in q.window[1]..(q.window[2] - 1)
      BY <2>3, <2>7
    <3> QED
      BY <2>3, <3>2, <3>3
  <2>9. M = KeysOf(q)
    BY <1>2 DEF M, Keys
  <2>10. \A n \in M : TruthOf(q, n) # None
    BY <2>2, <2>3
  <2>11. Sum([n \in M |-> TruthOf(q, n)]) = TruthOf(Whole(q), All)
    BY <1>2, <2>8, <2>9, <2>10, WholeIsSum
  <2> QED
    BY <2>2, <2>5, <2>6, <2>11 DEF Whole, s
<1>6. ASSUME told.ranking # None
      PROVE  \A n \in q.window[1]..(q.window[2] - 1) :
               told.ranking[n] = 1 + Cardinality({x \in q.window[1]..(q.window[2] - 1) :
                                                    InMonth(q, x) < InMonth(q, n)})
  <2> DEFINE claims == told.claims
             s == told.ranking
  <2>1. s = Ranking(p, cut, claims) /\ s # None
    BY <1>3, <1>6
  <2> HIDE DEF claims, s
  <2>2. /\ SeriesGap(p, cut, DOMAIN claims) = None
        /\ \A n \in DOMAIN claims :
             s[n] = 1 + Cardinality({x \in DOMAIN claims : claims[x].value < claims[n].value})
    BY <2>1, RankingIs
  <2>3. /\ DOMAIN claims = M /\ M = q.window[1]..(q.window[2] - 1)
        /\ \A n \in M : claims[n].value = TruthOf(q, n)
    BY <1>4, <2>2 DEF claims
  <2>4. ASSUME NEW n \in M
        PROVE  {x \in DOMAIN claims : claims[x].value < claims[n].value}
                 = {x \in M : InMonth(q, x) < InMonth(q, n)}
    BY <2>3, <2>4 DEF InMonth
  <2>5. \A n \in M : s[n] = 1 + Cardinality({x \in M : InMonth(q, x) < InMonth(q, n)})
    BY <2>2, <2>3, <2>4
  <2> QED
    BY <2>3, <2>5 DEF s
<1> QED
  BY <1>5, <1>6 DEF SeriesOf

-----------------------------------------------------------------------------
(* An answer that is told is the page its statement returned.              *)
LEMMA TellingFound ==
  ASSUME AnswersInv, Told
  PROVE  \E q, top, shown, additive :
           /\ q = Asked /\ Page(q, top, shown)
           /\ Telling(q, additive, question.chosen, Run(q), shown, answer)
<1> DEFINE q == question.ask
<1>1. WellPut(question) /\ AnswerOf(question) /\ question.form = "claims" /\ answer.refused = None
  BY DEF AnswersInv, Told
<1>2. PlanRefusal(q) = None
  <2> SUFFICES ASSUME PlanRefusal(q) # None PROVE FALSE
    OBVIOUS
  <2>1. answer = Failed(PlanRefusal(q))
    BY <1>1 DEF AnswerOf
  <2> QED
    BY <1>1, <2>1, FailedIs
<1>3. PICK shown \in Shown(Run(q), question.limit) :
        answer = Tell(q, question.additive, question.chosen, Run(q), shown)
  BY <1>1, <1>2 DEF AnswerOf, TellsOf
<1>4. Page(q, question.limit, shown)
  BY <1>1, <1>2, <1>3 DEF WellPut, Page
<1>5. Telling(q, question.additive, question.chosen, Run(q), shown, answer)
  BY <1>1, <1>3 DEF Telling
<1>6. q = Asked
  BY DEF Asked
<1> QED
  BY <1>4, <1>5, <1>6

LEMMA ClaimsHold == AnswersInv => ClaimsTrue
<1> SUFFICES ASSUME AnswersInv, Told PROVE ClaimsTrue
  BY DEF ClaimsTrue, StatesTrue, ComparisonsTrue, SeriesTrue
<1>1. PICK q, top, shown, additive :
        /\ q = Asked /\ Page(q, top, shown)
        /\ Telling(q, additive, question.chosen, Run(q), shown, answer)
  BY TellingFound
<1>2. StatesOf(q, answer) /\ ComparisonsOf(q, answer) /\ SeriesOf(q, question.chosen, answer)
  BY <1>1, StatesHold, ComparisonsHold, SeriesHolds
<1>3. StatesTrue
  BY <1>1, <1>2 DEF StatesOf, StatesTrue
<1>4. ComparisonsTrue
  BY <1>1, <1>2 DEF ComparisonsOf, ComparisonsTrue
<1>5. SeriesTrue
  BY <1>1, <1>2 DEF SeriesOf, SeriesTrue
<1> QED
  BY <1>3, <1>4, <1>5 DEF ClaimsTrue

(* What is said of an answer, its state, its comparisons and its series,   *)
(* is true of its source rows, for any tables and questions.               *)
THEOREM ClaimsAreTrue == AnswersSpec => []ClaimsTrue
<1> QED
  BY AnswersInvariance, ClaimsHold, PTL

-----------------------------------------------------------------------------
(* Counts are sums.                                                        *)
LEMMA CardinalityIsSum ==
  ASSUME NEW S, IsFiniteSet(S)
  PROVE  Cardinality(S) = Sum([x \in S |-> 1])
<1> DEFINE f == [x \in S |-> 1]
           G == {T \in SUBSET S : Cardinality(T) = TheFold(f)[T]}
<1>1. Ints(f) /\ DOMAIN f = S
  BY DEF Ints
<1> HIDE DEF f
<1>2. {} \in G
  BY <1>1, TheFoldIs, FS_EmptySet
<1>3. ASSUME NEW T \in SUBSET S, NEW x \in S \ T, T \in G
      PROVE  T \cup {x} \in G
  <2>1. IsFiniteSet(T)
    BY FS_Subset
  <2>2. Cardinality(T \cup {x}) = Cardinality(T) + 1
    BY <2>1, FS_AddElement
  <2>3. TheFold(f)[T \cup {x}] = f[x] + TheFold(f)[T] /\ TheFold(f)[T] \in Int
    BY <1>1, FoldAdds
  <2>4. f[x] = 1
    BY DEF f
  <2> QED
    BY <1>3, <2>2, <2>3, <2>4
<1>4. S \in G
  <2> HIDE DEF G
  <2> QED
    BY <1>2, <1>3, Growing
<1>5. Sum(f) = TheFold(f)[S]
  BY <1>1, SumIsFold
<1> QED
  BY <1>4, <1>5 DEF f

LEMMA CountByGroup ==
  ASSUME NEW R, IsFiniteSet(R), NEW key, NEW M, IsFiniteSet(M), \A r \in R : key[r] \in M
  PROVE  /\ Ints([n \in M |-> Cardinality({r \in R : key[r] = n})])
         /\ Cardinality(R) = Sum([n \in M |-> Cardinality({r \in R : key[r] = n})])
<1> DEFINE f == [r \in R |-> 1]
           In(n) == {r \in R : key[r] = n}
<1>1. Ints(f) /\ DOMAIN f = R
  BY DEF Ints
<1>2. ASSUME NEW n \in M PROVE Sum(Restricted(f, {r \in DOMAIN f : key[r] = n})) = Cardinality(In(n))
  <2>1. IsFiniteSet(In(n))
    BY FS_Subset
  <2>2. Restricted(f, {r \in DOMAIN f : key[r] = n}) = [r \in In(n) |-> 1]
    BY DEF Restricted
  <2> HIDE DEF In
  <2> QED
    BY <2>1, <2>2, CardinalityIsSum
<1>3. Sum(f) = Cardinality(R)
  BY CardinalityIsSum
<1> HIDE DEF f
<1>4. /\ Ints([n \in M |-> Sum(Restricted(f, {r \in DOMAIN f : key[r] = n}))])
      /\ Sum(f) = Sum([n \in M |-> Sum(Restricted(f, {r \in DOMAIN f : key[r] = n}))])
  BY <1>1, SumByGroup
<1>5. [n \in M |-> Sum(Restricted(f, {r \in DOMAIN f : key[r] = n}))] = [n \in M |-> Cardinality(In(n))]
  BY <1>2
<1> QED
  BY <1>3, <1>4, <1>5

LEMMA SumOfOne ==
  ASSUME NEW f, Ints(f), NEW x, DOMAIN f = {x}
  PROVE  Sum(f) = f[x] /\ f[x] \in Int
<1>1. Sum(f) = TheFold(f)[{} \cup {x}]
  <2>1. {} \cup {x} = DOMAIN f
    OBVIOUS
  <2> QED
    BY <2>1, SumIsFold
<1>2. TheFold(f)[{} \cup {x}] = f[x] + TheFold(f)[{}] /\ TheFold(f)[{}] = 0
  BY FoldAdds, TheFoldIs
<1>3. f[x] \in Int
  BY DEF Ints
<1> QED
  BY <1>1, <1>2, <1>3

LEMMA SumOfTwo ==
  ASSUME NEW f, Ints(f), DOMAIN f = {1, 2}
  PROVE  Sum(f) = f[1] + f[2] /\ f[1] \in Int /\ f[2] \in Int
<1>1. f[1] \in Int /\ f[2] \in Int
  BY DEF Ints
<1>2. Sum(f) = TheFold(f)[{1} \cup {2}]
  <2>1. {1} \cup {2} = DOMAIN f
    OBVIOUS
  <2> QED
    BY <2>1, SumIsFold
<1>3. /\ TheFold(f)[{1} \cup {2}] = f[2] + TheFold(f)[{1}]
      /\ TheFold(f)[{} \cup {1}] = f[1] + TheFold(f)[{}] /\ TheFold(f)[{}] = 0
  <2>1. /\ {1} \in SUBSET DOMAIN f /\ {} \in SUBSET DOMAIN f
        /\ 1 \in DOMAIN f \ {} /\ 2 \in DOMAIN f \ {1}
    OBVIOUS
  <2>2. \A T \in SUBSET DOMAIN f : \A x \in DOMAIN f \ T :
          TheFold(f)[T \cup {x}] = f[x] + TheFold(f)[T]
    BY FoldAdds
  <2>3. TheFold(f)[{}] = 0
    BY TheFoldIs
  <2> QED
    BY <2>1, <2>2, <2>3
<1>4. {} \cup {1} = {1}
  OBVIOUS
<1> QED
  BY <1>1, <1>2, <1>3, <1>4

LEMMA SumOfAdded ==
  ASSUME NEW f, NEW g, NEW h, Ints(f), Ints(g), Ints(h),
         DOMAIN g = DOMAIN f, DOMAIN h = DOMAIN f, \A x \in DOMAIN f : h[x] = f[x] + g[x]
  PROVE  Sum(h) = Sum(f) + Sum(g)
<1>1. \A x \in DOMAIN f : f[x] \in Int /\ g[x] \in Int /\ h[x] \in Int
  BY DEF Ints
<1>2. \A x \in DOMAIN h : f[x] = h[x] - g[x]
  BY <1>1
<1>3. Sum(f) = Sum(h) - Sum(g)
  BY <1>2, SumOfDifferences
<1>4. Sum(f) \in Int /\ Sum(g) \in Int /\ Sum(h) \in Int
  BY SumType
<1> QED
  BY <1>3, <1>4

-----------------------------------------------------------------------------
(* What each count of a cell counts: of the rows that count for a metric,  *)
(* those it can tell the value of, those it cannot, and all of them.       *)
Fields == {"missing", "known", "match"}
Assessed(m, r) == ~Incomplete(m, r) /\ (m.overdue => Overdue(r) /\ Measure(m, r) # None)
Tallied(m, field, r) == CASE field = "known" -> Assessed(m, r)
                          [] field = "missing" -> ~Assessed(m, r)
                          [] field = "match" -> TRUE
Tally(m, field, rows) == Cardinality({r \in rows : Tallied(m, field, r)})

LEMMA TallyType ==
  ASSUME Numbered(facts), NEW m, NEW field, NEW rows \in SUBSET DOMAIN facts
  PROVE  /\ Tally(m, field, rows) \in Nat /\ IsFiniteSet(rows) /\ Tally(m, field, {}) = 0
         /\ IsFiniteSet({r \in rows : Tallied(m, field, r)})
<1>1. IsFiniteSet(rows) /\ IsFiniteSet({r \in rows : Tallied(m, field, r)})
  BY FS_Subset DEF Numbered
<1>2. {r \in {} : Tallied(m, field, r)} = {}
  OBVIOUS
<1> QED
  BY <1>1, <1>2, FS_CardinalityType, FS_EmptySet DEF Tally

LEMMA PlainTally ==
  ASSUME Numbered(facts), NEW m, ~m.overdue, NEW rows \in SUBSET DOMAIN facts, NEW sign
  PROVE  \A field \in Fields : CellOf(m, rows, sign)[field] = Tally(m, field, rows)
<1> DEFINE incomplete == {r \in rows : Incomplete(m, r)}
           rest == rows \ incomplete
           c == CellOf(m, rows, sign)
<1>1. /\ c.missing = Cardinality(incomplete) /\ c.known = Cardinality(rest)
      /\ c.match = Cardinality(rest) + Cardinality(incomplete)
  BY DEF CellOf, PlainCell, Cell
<1>2. /\ {r \in rows : Tallied(m, "missing", r)} = incomplete
      /\ {r \in rows : Tallied(m, "known", r)} = rest
      /\ {r \in rows : Tallied(m, "match", r)} = rows
  BY DEF Tallied, Assessed
<1>3. IsFiniteSet(rows) /\ incomplete \subseteq rows
  BY TallyType
<1>4. rows \cap incomplete = incomplete
  OBVIOUS
<1>5. Cardinality(rest) = Cardinality(rows) - Cardinality(incomplete)
  <2> HIDE DEF incomplete
  <2> QED
    BY <1>3, <1>4, FS_Difference
<1>6. Cardinality(rows) \in Nat /\ Cardinality(incomplete) \in Nat
  <2> HIDE DEF incomplete
  <2> QED
    BY <1>3, FS_CardinalityType, FS_Subset
<1>7. /\ Tally(m, "missing", rows) = Cardinality(incomplete)
      /\ Tally(m, "known", rows) = Cardinality(rest) /\ Tally(m, "match", rows) = Cardinality(rows)
  <2> HIDE DEF incomplete, rest
  <2> QED
    BY <1>2 DEF Tally
<1> HIDE DEF incomplete, rest, c
<1>8. Cardinality(rest) + Cardinality(incomplete) = Cardinality(rows)
  BY <1>5, <1>6
<1>9. /\ c.missing = Tally(m, "missing", rows) /\ c.known = Tally(m, "known", rows)
      /\ c.match = Tally(m, "match", rows)
  BY <1>1, <1>7, <1>8
<1> QED
  BY <1>9 DEF Fields, c

LEMMA OverdueTally ==
  ASSUME Numbered(facts), NEW m, m.overdue, NEW rows \in SUBSET DOMAIN facts, NEW sign,
         NEW counted, counted = {r \in rows : Overdue(r) \/ Unassessable(r)}
  PROVE  \A field \in Fields : CellOf(m, rows, sign)[field] = Tally(m, field, counted)
<1> DEFINE eligible == {r \in rows : Overdue(r)}
           unknown == {r \in rows : Unassessable(r)}
           selected == {r \in eligible : ~Incomplete(m, r) /\ Measure(m, r) # None}
           doubtful == eligible \ selected
           lost == unknown \cup doubtful
           c == CellOf(m, rows, sign)
<1>1. /\ IsFiniteSet(selected) /\ IsFiniteSet(unknown) /\ IsFiniteSet(doubtful)
      /\ IsFiniteSet(lost) /\ IsFiniteSet(counted)
  BY FS_Subset DEF Numbered
<1>2. /\ c.missing = Cardinality(unknown) + Cardinality(doubtful)
      /\ c.known = Cardinality(selected)
      /\ c.match = Cardinality(selected) + (Cardinality(unknown) + Cardinality(doubtful))
  BY DEF CellOf, OverdueCell, Cell
<1>3. \A r \in rows : Overdue(r) => ~Unassessable(r)
  BY DEF Overdue
<1>4. /\ {r \in counted : Tallied(m, "missing", r)} = lost
      /\ {r \in counted : Tallied(m, "known", r)} = selected
      /\ {r \in counted : Tallied(m, "match", r)} = counted
  BY <1>3 DEF Tallied, Assessed
<1>5. unknown \cap doubtful = {} /\ selected \cap lost = {} /\ selected \cup lost = counted
  BY <1>3
<1> HIDE DEF eligible, selected, unknown, doubtful
<1>6. Cardinality(lost) = Cardinality(unknown) + Cardinality(doubtful) - Cardinality({})
  BY <1>1, <1>5, FS_Union
<1> HIDE DEF lost
<1>7. Cardinality(counted) = Cardinality(selected) + Cardinality(lost) - Cardinality({})
  BY <1>1, <1>5, FS_Union
<1>8. /\ Cardinality(selected) \in Nat /\ Cardinality(unknown) \in Nat /\ Cardinality(doubtful) \in Nat
      /\ Cardinality({}) = 0
  BY <1>1, FS_CardinalityType, FS_EmptySet
<1> HIDE DEF c
<1>9. /\ Tally(m, "missing", counted) = Cardinality(lost)
      /\ Tally(m, "known", counted) = Cardinality(selected)
      /\ Tally(m, "match", counted) = Cardinality(counted)
  BY <1>4 DEF Tally
<1>10. /\ Cardinality(lost) = Cardinality(unknown) + Cardinality(doubtful)
       /\ Cardinality(counted) = Cardinality(selected) + Cardinality(lost)
  BY <1>6, <1>7, <1>8
<1>11. /\ c.missing = Tally(m, "missing", counted) /\ c.known = Tally(m, "known", counted)
       /\ c.match = Tally(m, "match", counted)
  BY <1>2, <1>9, <1>10
<1> QED
  BY <1>11 DEF Fields, c

LEMMA CoreCell ==
  ASSUME Numbered(facts), NEW m, NEW q, Fits(m, q), NEW sign, NEW k \in GroupKeys(q, Counted(m, q))
  PROVE  Core(m, q, sign)[k] = CellOf(m, {r \in Scope(m, q) : DimensionValue(q.dim, r) = k}, sign)
<1> DEFINE result == Grouped(m, q, sign, Scope(m, q))
<1>1. k \in DOMAIN Core(m, q, sign)
  BY CoreCounts
<1>2. k \in DOMAIN result =>
        result[k] = CellOf(m, {r \in Scope(m, q) : DimensionValue(q.dim, r) = k}, sign)
  BY DEF Grouped
<1>3. Core(m, q, sign) = Having(m.overdue /\ q.dim # None, result)
  BY DEF Core
<1> HIDE DEF result
<1> QED
  BY <1>1, <1>2, <1>3 DEF Having

LEMMA CoreTally ==
  ASSUME Numbered(facts), NEW m, NEW q, Fits(m, q), NEW sign, NEW k,
         q.dim # None \/ k \in GroupKeys(q, Counted(m, q)), NEW field \in Fields
  PROVE  At(Core(m, q, sign), k)[field] = Tally(m, field, CountedIn(m, q, k))
<1> DEFINE rows == {r \in Scope(m, q) : DimensionValue(q.dim, r) = k}
<1>1. DOMAIN Core(m, q, sign) = GroupKeys(q, Counted(m, q)) /\ m.overdue \in BOOLEAN
  BY CoreCounts DEF Fits, Governed
<1>2. CASE k \in GroupKeys(q, Counted(m, q))
  <2>1. At(Core(m, q, sign), k) = CellOf(m, rows, sign)
    BY <1>1, <1>2, CoreCell DEF At
  <2>2. /\ rows \in SUBSET DOMAIN facts
        /\ CountedIn(m, q, k) = {r \in rows : m.overdue => Overdue(r) \/ Unassessable(r)}
    BY ScopeIsCounted DEF CountedIn
  <2> HIDE DEF rows
  <2>3. CASE m.overdue
    <3>1. CountedIn(m, q, k) = {r \in rows : Overdue(r) \/ Unassessable(r)}
      BY <2>2, <2>3
    <3> QED
      BY <2>1, <2>2, <2>3, <3>1, OverdueTally
  <2>4. CASE ~m.overdue
    <3>1. CountedIn(m, q, k) = rows
      BY <2>2, <2>4
    <3> QED
      BY <2>1, <2>2, <2>4, <3>1, PlainTally
  <2> QED
    BY <2>3, <2>4
<1>3. CASE k \notin GroupKeys(q, Counted(m, q))
  <2>1. CountedIn(m, q, k) = {}
    BY <1>3, NoRowNoCount
  <2>2. At(Core(m, q, sign), k) = NoCell
    BY <1>1, <1>3 DEF At
  <2>3. Tally(m, field, {}) = 0
    BY TallyType
  <2>4. NoCell[field] = 0
    BY DEF NoCell, Fields
  <2> QED
    BY <2>1, <2>2, <2>3, <2>4
<1> QED
  BY <1>2, <1>3

(* A statement counts in a group what its parts count there.               *)
TalliesOf(q, field, k) ==
    [i \in DOMAIN q.parts |-> Tally(MetricOf(q, i), field, CountedIn(MetricOf(q, i), q, k))]

LEMMA CountedAreRows ==
  ASSUME NEW m, NEW q
  PROVE  /\ Counted(m, q) \in SUBSET DOMAIN facts
         /\ \A k : CountedIn(m, q, k) \in SUBSET DOMAIN facts
BY DEF Counted, CountedIn, Live

LEMMA TalliesType ==
  ASSUME Numbered(facts), NEW q, Admissible(q), NEW field, NEW k
  PROVE  /\ Ints(TalliesOf(q, field, k)) /\ DOMAIN TalliesOf(q, field, k) = DOMAIN q.parts
         /\ \A i \in DOMAIN q.parts : TalliesOf(q, field, k)[i] \in Nat
<1> DEFINE f == TalliesOf(q, field, k)
<1>1. IsFiniteSet(DOMAIN q.parts)
  BY PartsAre
<1>2. DOMAIN f = DOMAIN q.parts /\ f = [i \in DOMAIN f |-> f[i]]
  BY DEF TalliesOf
<1>3. \A i \in DOMAIN q.parts : f[i] \in Nat
  BY CountedAreRows, TallyType DEF TalliesOf
<1> HIDE DEF f
<1>4. Ints(f)
  BY <1>1, <1>2, <1>3 DEF Ints
<1> QED
  BY <1>2, <1>3, <1>4 DEF f

LEMMA CompositeTally ==
  ASSUME NEW parts, IsFiniteSet(DOMAIN parts), NEW k \in UNION {DOMAIN parts[i] : i \in DOMAIN parts},
         NEW field \in Fields, NEW f, Ints(f), DOMAIN f = DOMAIN parts,
         \A i \in DOMAIN parts : At(parts[i], k)[field] = f[i]
  PROVE  Composite(parts)[k][field] = Sum(f)
<1> DEFINE Of == {i \in DOMAIN parts : k \in DOMAIN parts[i]}
           g == [i \in Of |-> parts[i][k][field]]
           c == Composite(parts)[k]
<1>1. /\ c.missing = Sum([i \in Of |-> parts[i][k].missing])
      /\ c.known = Sum([i \in Of |-> parts[i][k].known])
      /\ c.match = Sum([i \in Of |-> parts[i][k].match])
  BY DEF Composite
<1>2. c[field] = Sum(g)
  <2> HIDE DEF c, Of
  <2> QED
    BY <1>1 DEF Fields
<1>3. g = Restricted(f, Of)
  BY DEF Restricted, At
<1>4. Of \in SUBSET DOMAIN f
  OBVIOUS
<1>5. \A i \in DOMAIN f \ Of : f[i] = 0
  BY DEF At, NoCell, Fields
<1> HIDE DEF Of, g, c
<1>6. Sum(f) = Sum(g)
  BY <1>3, <1>4, <1>5, SumWithoutZeros
<1> QED
  BY <1>2, <1>6 DEF c

LEMMA TableTally ==
  ASSUME Numbered(facts), NEW q, Admissible(q), NEW k, q.dim # None \/ k \in KeysOf(q),
         NEW field \in Fields
  PROVE  At(Table(q), k)[field] = Sum(TalliesOf(q, field, k))
<1> DEFINE s == [i \in DOMAIN q.parts |-> IF q.form = "composite" THEN q.parts[i].sign ELSE 1]
           parts == [i \in DOMAIN q.parts |-> Core(MetricOf(q, i), q, s[i])]
           f == TalliesOf(q, field, k)
<1>1. /\ IsFiniteSet(DOMAIN q.parts) /\ 1 \in DOMAIN q.parts /\ q.form \in Forms
      /\ \A i \in DOMAIN q.parts : Fits(MetricOf(q, i), q)
      /\ q.form = "core" => DOMAIN q.parts = {1}
      /\ q.form = "ratio" => DOMAIN q.parts = {1, 2}
  BY PartsAre
<1>2. Table(q) = Assembled(q, parts)
  <2>1. parts = [i \in DOMAIN q.parts |->
                   Core(q.parts[i].metric, q, IF q.form = "composite" THEN q.parts[i].sign ELSE 1)]
    BY DEF MetricOf
  <2> QED
    BY <2>1 DEF Table
<1>3. /\ DOMAIN parts = DOMAIN q.parts
      /\ \A i \in DOMAIN q.parts : parts[i] = Core(MetricOf(q, i), q, s[i])
  OBVIOUS
<1> HIDE DEF parts, s
<1>4. ASSUME NEW i \in DOMAIN q.parts
      PROVE  At(parts[i], k)[field] = f[i]
  <2>1. q.dim # None \/ k \in PartKeys(q, i)
    BY <1>1, KeysAre
  <2>2. At(Core(MetricOf(q, i), q, s[i]), k)[field]
          = Tally(MetricOf(q, i), field, CountedIn(MetricOf(q, i), q, k))
    BY <1>1, <2>1, CoreTally DEF PartKeys
  <2> QED
    BY <1>3, <2>2 DEF TalliesOf
<1>5. Ints(f) /\ DOMAIN f = DOMAIN q.parts
  BY TalliesType
<1>6. DOMAIN Table(q) = KeysOf(q)
  BY TableCounts
<1> HIDE DEF f
<1>7. CASE q.form = "core"
  <2>1. Table(q) = parts[1]
    BY <1>2, <1>7 DEF Assembled
  <2>2. Sum(f) = f[1]
    BY <1>1, <1>5, <1>7, SumOfOne
  <2> QED
    BY <1>1, <1>4, <2>1, <2>2 DEF f
<1>8. CASE q.form = "composite"
  <2>1. Table(q) = Composite(parts)
    BY <1>2, <1>8 DEF Assembled
  <2>2. CASE k \in KeysOf(q)
    <3>1. k \in UNION {DOMAIN parts[i] : i \in DOMAIN parts}
      BY <1>6, <2>1, <2>2 DEF Composite
    <3>2. Composite(parts)[k][field] = Sum(f)
      BY <1>1, <1>3, <1>4, <1>5, <3>1, CompositeTally
    <3> QED
      BY <1>6, <2>1, <2>2, <3>2 DEF At, f
  <2>3. CASE k \notin KeysOf(q)
    <3>1. \A i \in DOMAIN parts : k \notin DOMAIN parts[i]
      BY <1>6, <2>1, <2>3 DEF Composite
    <3>2. \A i \in DOMAIN f : f[i] = 0
      BY <1>3, <1>4, <1>5, <3>1 DEF At, NoCell, Fields
    <3>3. Sum(f) = 0
      BY <1>5, <3>2, SumOfZeros
    <3>4. At(Table(q), k)[field] = 0
      BY <1>6, <2>3 DEF At, NoCell, Fields
    <3> QED
      BY <3>3, <3>4 DEF f
  <2> QED
    BY <2>2, <2>3
<1>9. CASE q.form = "ratio"
  <2> DEFINE n == At(parts[1], k)
             d == At(parts[2], k)
  <2>1. Table(q) = Ratio(q.nonzero, parts)
    BY <1>2, <1>9 DEF Assembled
  <2>2. n[field] = f[1] /\ d[field] = f[2]
    BY <1>1, <1>4, <1>9
  <2>3. Sum(f) = f[1] + f[2]
    BY <1>1, <1>5, <1>9, SumOfTwo
  <2>4. CASE k \in KeysOf(q)
    <3> DEFINE c == Quotient(q.nonzero, n, d, Full(n), Full(d))
    <3>1. At(Table(q), k) = c
      BY <1>6, <2>1, <2>4 DEF At, Ratio
    <3>2. c.missing = n.missing + d.missing /\ c.known = n.known + d.known
          /\ c.match = n.match + d.match
      BY DEF Quotient, NoCell
    <3> HIDE DEF c, n, d
    <3>3. c[field] = n[field] + d[field]
      BY <3>2 DEF Fields
    <3> QED
      BY <2>2, <2>3, <3>1, <3>3 DEF f
  <2>5. CASE k \notin KeysOf(q)
    <3>1. k \notin DOMAIN parts[1] /\ k \notin DOMAIN parts[2]
      BY <1>6, <2>1, <2>5 DEF Ratio
    <3>2. n[field] = 0 /\ d[field] = 0
      BY <3>1 DEF At, NoCell, Fields
    <3>3. At(Table(q), k)[field] = 0
      BY <1>6, <2>5 DEF At, NoCell, Fields
    <3> QED
      BY <2>2, <2>3, <3>2, <3>3 DEF f
  <2> QED
    BY <2>4, <2>5
<1> QED
  BY <1>1, <1>7, <1>8, <1>9 DEF Forms

(* Over all the groups, the counts of a statement are those of the whole.  *)
LEMMA TallyAdds ==
  ASSUME Numbered(facts), NEW q, Admissible(q), NEW M, IsFiniteSet(M), KeysOf(q) \subseteq M, NEW field
  PROVE  /\ Ints([k \in M |-> Sum(TalliesOf(q, field, k))])
         /\ Sum([k \in M |-> Sum(TalliesOf(q, field, k))]) = Sum(TalliesOf(Whole(q), field, All))
<1> DEFINE I == DOMAIN q.parts
           F == [i \in I |-> [k \in M |-> Tally(MetricOf(q, i), field, CountedIn(MetricOf(q, i), q, k))]]
           all == TalliesOf(Whole(q), field, All)
<1>1. IsFiniteSet(I)
  BY PartsAre
<1>2. all = [i \in I |-> Tally(MetricOf(q, i), field, Counted(MetricOf(q, i), q))]
  BY WholeIs DEF TalliesOf, MetricOf
<1>3. ASSUME NEW i \in I
      PROVE  Ints(F[i]) /\ DOMAIN F[i] = M /\ Sum(F[i]) = all[i]
  <2> DEFINE m == MetricOf(q, i)
             R == {r \in Counted(m, q) : Tallied(m, field, r)}
             key == [r \in R |-> DimensionValue(q.dim, r)]
  <2>1. IsFiniteSet(R)
    BY CountedAreRows, TallyType
  <2>2. \A r \in R : key[r] \in M
    BY Ungrouped DEF KeysOf, MetricOf
  <2>3. \A k \in M : {r \in R : key[r] = k} = {r \in CountedIn(m, q, k) : Tallied(m, field, r)}
    BY DEF CountedIn
  <2>4. F[i] = [k \in M |-> Cardinality({r \in R : key[r] = k})]
    <3>1. F[i] = [k \in M |-> Tally(m, field, CountedIn(m, q, k))]
      BY <1>3
    <3> QED
      BY <2>3, <3>1 DEF Tally
  <2>5. all[i] = Cardinality(R)
    BY <1>2 DEF Tally
  <2> HIDE DEF R, key, F, all
  <2>6. /\ Ints([k \in M |-> Cardinality({r \in R : key[r] = k})])
        /\ Cardinality(R) = Sum([k \in M |-> Cardinality({r \in R : key[r] = k})])
    BY <2>1, <2>2, CountByGroup
  <2> QED
    BY <2>4, <2>5, <2>6
<1>4. DOMAIN F = I
  OBVIOUS
<1>5. \A k \in M : Across(F, k) = TalliesOf(q, field, k)
  BY DEF Across, TalliesOf
<1>6. all = [i \in I |-> all[i]]
  BY <1>2
<1> HIDE DEF F, I, all
<1>7. Rowed(F, M)
  BY <1>1, <1>3, <1>4 DEF Rowed
<1>8. /\ Ints([k \in M |-> Sum(Across(F, k))])
      /\ Sum([k \in M |-> Sum(Across(F, k))]) = Sum([i \in DOMAIN F |-> Sum(F[i])])
  BY <1>7, SumOfSums
<1>9. [i \in DOMAIN F |-> Sum(F[i])] = all
  BY <1>3, <1>4, <1>6
<1>10. [k \in M |-> Sum(Across(F, k))] = [k \in M |-> Sum(TalliesOf(q, field, k))]
  BY <1>5
<1> QED
  BY <1>8, <1>9, <1>10 DEF all

-----------------------------------------------------------------------------
(* The value of a metric over rows is the sum of its values by group.      *)
Split(m, rows, key, M) ==
    /\ m \in Governed /\ m.agg \in Summing /\ rows \in SUBSET DOMAIN facts
    /\ IsFiniteSet(M) /\ DOMAIN key = rows /\ (\A r \in rows : key[r] \in M)
    /\ Truth(m, rows) # None /\ (m.overdue => \A k \in M : {r \in rows : key[r] = k} # {})
Shared(m, rows, key, M) ==
    /\ \A k \in M : Truth(m, {r \in rows : key[r] = k}) \in Int
    /\ Ints([k \in M |-> Truth(m, {r \in rows : key[r] = k})])
    /\ Truth(m, rows) \in Int
    /\ Truth(m, rows) = Sum([k \in M |-> Truth(m, {r \in rows : key[r] = k})])

LEMMA SplitIsShared ==
  ASSUME Numbered(facts), NEW m, NEW rows, NEW key, NEW M, Split(m, rows, key, M)
  PROVE  Shared(m, rows, key, M)
<1> DEFINE f == [r \in rows |-> Worth(m, r)]
           In(k) == {r \in rows : key[r] = k}
           Doubt(r) == Incomplete(m, r) \/ (m.overdue /\ Unassessable(r))
<1>0. /\ m \in Governed /\ m.agg \in Summing /\ rows \in SUBSET DOMAIN facts
      /\ IsFiniteSet(M) /\ DOMAIN key = rows /\ (\A r \in rows : key[r] \in M)
      /\ Truth(m, rows) # None /\ (m.overdue => \A k \in M : In(k) # {})
  BY DEF Split
<1>1. Truth(m, rows) = Sum(f) /\ \A r \in rows : ~Doubt(r)
  BY <1>0 DEF Truth
<1>2. \A r \in rows : Worth(m, r) \in Int
  BY <1>0, <1>1, KnownIsWorth
<1>3. Ints(f) /\ DOMAIN f = rows
  BY <1>0, <1>2, FS_Subset DEF Ints, Numbered
<1>4. ASSUME NEW k \in M
      PROVE  Truth(m, In(k)) = Sum([r \in In(k) |-> Worth(m, r)])
  <2>1. \A r \in In(k) : ~Doubt(r)
    BY <1>1
  <2>2. m.overdue => In(k) # {}
    BY <1>0
  <2> HIDE DEF In
  <2> QED
    BY <2>1, <2>2 DEF Truth
<1>5. \A k \in M : Sum(Restricted(f, {r \in DOMAIN f : key[r] = k})) = Truth(m, In(k))
  <2> TAKE k \in M
  <2>1. Restricted(f, {r \in DOMAIN f : key[r] = k}) = [r \in In(k) |-> Worth(m, r)]
    BY DEF Restricted
  <2> QED
    BY <1>4, <2>1
<1> HIDE DEF f
<1>6. /\ Ints([k \in M |-> Sum(Restricted(f, {r \in DOMAIN f : key[r] = k}))])
      /\ Sum(f) = Sum([k \in M |-> Sum(Restricted(f, {r \in DOMAIN f : key[r] = k}))])
  BY <1>0, <1>3, SumByGroup
<1>7. [k \in M |-> Sum(Restricted(f, {r \in DOMAIN f : key[r] = k}))] = [k \in M |-> Truth(m, In(k))]
  BY <1>5
<1>8. \A k \in M : Truth(m, In(k)) \in Int
  BY <1>6, <1>7 DEF Ints
<1>9. Sum(f) \in Int
  BY <1>3, SumType
<1> HIDE DEF In
<1>10. /\ Ints([k \in M |-> Truth(m, In(k))])
       /\ Truth(m, rows) = Sum([k \in M |-> Truth(m, In(k))]) /\ Truth(m, rows) \in Int
  BY <1>1, <1>6, <1>7, <1>9
<1> QED
  BY <1>8, <1>10 DEF Shared, In

LEMMA PartByGroup ==
  ASSUME Numbered(facts), NEW q, Admissible(q), Sums(q), NEW i \in DOMAIN q.parts,
         NEW M, IsFiniteSet(M), KeysOf(q) \subseteq M,
         MetricOf(q, i).overdue => q.form = "core" /\ M = KeysOf(q),
         Truth(MetricOf(q, i), Counted(MetricOf(q, i), q)) # None
  PROVE  LET all == Truth(MetricOf(q, i), Counted(MetricOf(q, i), q))
         IN /\ all \in Int /\ \A k \in M : ValueOf(q, i, k) \in Int
            /\ Ints([k \in M |-> ValueOf(q, i, k)])
            /\ all = Sum([k \in M |-> ValueOf(q, i, k)])
<1> DEFINE m == MetricOf(q, i)
           rows == Counted(m, q)
           key == [r \in rows |-> DimensionValue(q.dim, r)]
<1>1. m \in Governed /\ m.agg \in Summing
  BY PartsFit DEF Fits
<1>2. rows \in SUBSET DOMAIN facts
  BY CountedAreRows
<1>3. \A r \in rows : key[r] \in M
  BY Ungrouped DEF KeysOf, MetricOf
<1>4. \A k : CountedIn(m, q, k) = {r \in rows : key[r] = k}
  BY DEF CountedIn
<1>5. m.overdue => \A k \in M : {r \in rows : key[r] = k} # {}
  <2> SUFFICES ASSUME m.overdue, NEW k \in M PROVE {r \in rows : key[r] = k} # {}
    OBVIOUS
  <2>1. DOMAIN q.parts = {1} /\ k \in KeysOf(q)
    BY PartsAre
  <2>2. CASE q.dim = None
    <3>1. rows # {}
      BY DEF Truth
    <3>2. k = All /\ \A r \in rows : key[r] = All
      BY <2>1, <2>2, Ungrouped DEF KeysOf
    <3> QED
      BY <3>1, <3>2
  <2>3. CASE q.dim # None
    <3>1. PICK j \in DOMAIN q.parts : \E r \in Counted(q.parts[j].metric, q) : DimensionValue(q.dim, r) = k
      BY <2>1, <2>3 DEF KeysOf
    <3>2. q.parts[j].metric = m
      BY <2>1, <3>1 DEF MetricOf
    <3> QED
      BY <3>1, <3>2
  <2> QED
    BY <2>2, <2>3
<1>6. DOMAIN key = rows /\ Truth(m, rows) # None
  OBVIOUS
<1> HIDE DEF m, rows, key
<1>7. Split(m, rows, key, M)
  BY <1>1, <1>2, <1>3, <1>5, <1>6 DEF Split
<1>8. Shared(m, rows, key, M)
  BY <1>7, SplitIsShared
<1>9. \A k : Truth(m, {r \in rows : key[r] = k}) = ValueOf(q, i, k)
  BY <1>4 DEF ValueOf, m
<1>10. [k \in M |-> Truth(m, {r \in rows : key[r] = k})] = [k \in M |-> ValueOf(q, i, k)]
  BY <1>9
<1> QED
  BY <1>8, <1>9, <1>10 DEF Shared, m, rows

(* A whole that is known is the sum of its groups.                         *)
LEMMA ValueAdds ==
  ASSUME Numbered(facts), NEW q, Admissible(q), Exact(q), NEW M, IsFiniteSet(M), KeysOf(q) \subseteq M,
         \A i \in DOMAIN q.parts : MetricOf(q, i).overdue => M = KeysOf(q),
         TruthOf(Whole(q), All) # None
  PROVE  Sum([k \in M |-> TruthOf(q, k)]) = TruthOf(Whole(q), All)
<1> DEFINE I == DOMAIN q.parts
           o == Whole(q)
           V(i) == Truth(MetricOf(q, i), Counted(MetricOf(q, i), q))
<1>1. Sums(q) /\ q.form \in {"core", "composite"}
  BY PartsAre DEF Exact, Forms
<1>2. /\ o.parts = q.parts /\ o.form = q.form
      /\ \A i \in I : CountedIn(o.parts[i].metric, o, All) = Counted(MetricOf(q, i), q)
  BY WholeIs DEF MetricOf
<1>3. IsFiniteSet(I) /\ 1 \in I /\ \A i \in I : q.parts[i].sign \in {1, -1}
  BY PartsAre
<1>4. \A i \in I : MetricOf(q, i).overdue => q.form = "core" /\ M = KeysOf(q)
  BY DEF Admissible, MetricOf
<1> HIDE DEF o
<1>5. CASE q.form = "core"
  <2>1. \A k : TruthOf(q, k) = ValueOf(q, 1, k)
    BY <1>5 DEF TruthOf, ValueOf, MetricOf
  <2>2. TruthOf(o, All) = V(1)
    BY <1>2, <1>3, <1>5 DEF TruthOf, MetricOf
  <2>3. PICK i \in I : i = 1
    BY <1>3
  <2>4. V(i) # None
    BY <2>2, <2>3 DEF o
  <2>5. V(i) = Sum([k \in M |-> ValueOf(q, i, k)])
    BY <1>1, <1>4, <2>4, PartByGroup
  <2>6. [k \in M |-> ValueOf(q, i, k)] = [k \in M |-> TruthOf(q, k)]
    BY <2>1, <2>3
  <2> QED
    BY <2>2, <2>3, <2>5, <2>6 DEF o
<1>6. CASE q.form = "composite"
  <2> DEFINE F == [i \in I |-> [k \in M |-> q.parts[i].sign * ValueOf(q, i, k)]]
             total == [i \in I |-> q.parts[i].sign * V(i)]
  <2>1. \A k : TruthOf(q, k) = IF \E i \in I : ValueOf(q, i, k) = None THEN None
                               ELSE Sum([i \in I |-> q.parts[i].sign * ValueOf(q, i, k)])
    BY <1>6 DEF TruthOf, ValueOf, MetricOf
  <2>2. TruthOf(o, All) = IF \E i \in I : V(i) = None THEN None ELSE Sum(total)
    BY <1>2, <1>6 DEF TruthOf, MetricOf
  <2>3. (\A i \in I : V(i) # None) /\ TruthOf(o, All) = Sum(total)
    BY <2>2 DEF o
  <2>4. ASSUME NEW i \in I
        PROVE  /\ \A k \in M : ValueOf(q, i, k) # None
               /\ Ints(F[i]) /\ DOMAIN F[i] = M /\ Sum(F[i]) = total[i]
    <3> DEFINE v == [k \in M |-> ValueOf(q, i, k)]
    <3>1. Ints(v) /\ V(i) = Sum(v) /\ \A k \in M : ValueOf(q, i, k) \in Int
      BY <1>1, <1>4, <2>3, <2>4, PartByGroup
    <3>2. DOMAIN v = M /\ F[i] = [k \in DOMAIN v |-> q.parts[i].sign * v[k]]
      BY <2>4
    <3>3. total[i] = q.parts[i].sign * V(i)
      BY <2>4
    <3> HIDE DEF v, F, V, total
    <3>4. Ints(F[i]) /\ Sum(F[i]) = q.parts[i].sign * Sum(v)
      BY <1>3, <2>4, <3>1, <3>2, SumNegated
    <3> QED
      BY <3>1, <3>2, <3>3, <3>4, MetricsAssumption
  <2>5. DOMAIN F = I /\ DOMAIN total = I /\ total = [i \in I |-> total[i]]
    OBVIOUS
  <2>6. \A k \in M : Across(F, k) = [i \in I |-> q.parts[i].sign * ValueOf(q, i, k)]
    BY DEF Across
  <2> HIDE DEF F, V, I, total
  <2>7. Rowed(F, M)
    BY <1>3, <2>4, <2>5 DEF Rowed
  <2>8. Sum([k \in M |-> Sum(Across(F, k))]) = Sum([i \in I |-> Sum(F[i])])
    BY <2>5, <2>7, SumOfSums
  <2>9. [i \in I |-> Sum(F[i])] = total
    BY <2>4, <2>5
  <2>10. [k \in M |-> Sum(Across(F, k))] = [k \in M |-> TruthOf(q, k)]
    BY <2>1, <2>4, <2>6
  <2> QED
    BY <2>3, <2>8, <2>9, <2>10 DEF o
<1> QED
  BY <1>1, <1>5, <1>6

LEMMA KeysAreFinite ==
  ASSUME Numbered(facts), NEW q, Admissible(q)
  PROVE  IsFiniteSet(KeysOf(q)) /\ IsFiniteSet(Keys(q))
<1>1. ASSUME NEW s, Admissible(s) PROVE IsFiniteSet(KeysOf(s))
  <2>1. IsFiniteSet(DOMAIN s.parts) /\ DOMAIN s.parts # {}
    BY <1>1, PartsAre
  <2>2. ASSUME NEW i \in DOMAIN s.parts PROVE IsFiniteSet(PartKeys(s, i))
    <3> DEFINE rows == Counted(MetricOf(s, i), s)
               key == [r \in rows |-> DimensionValue(s.dim, r)]
    <3>1. IsFiniteSet(rows)
      BY CountedAreRows, FS_Subset DEF Numbered
    <3>2. DOMAIN key = rows /\ \A r \in rows : key[r] = DimensionValue(s.dim, r)
      OBVIOUS
    <3> HIDE DEF key, rows
    <3>3. IsFiniteSet({key[r] : r \in rows})
      BY <3>1, <3>2, ImageIsFinite
    <3>4. {key[r] : r \in rows} = {DimensionValue(s.dim, r) : r \in rows}
      BY <3>2
    <3>5. PartKeys(s, i) = IF s.dim = None THEN {All} ELSE {DimensionValue(s.dim, r) : r \in rows}
      BY DEF PartKeys, GroupKeys, rows
    <3> QED
      BY <3>3, <3>4, <3>5, FS_Singleton
  <2> DEFINE f == [i \in DOMAIN s.parts |-> PartKeys(s, i)]
  <2>3. KeysOf(s) = UNION {f[i] : i \in DOMAIN s.parts}
    BY <2>1, KeysAre
  <2>4. \A T \in {f[i] : i \in DOMAIN s.parts} : IsFiniteSet(T)
    BY <2>2
  <2>5. DOMAIN f = DOMAIN s.parts
    OBVIOUS
  <2> HIDE DEF f
  <2>6. IsFiniteSet({f[i] : i \in DOMAIN s.parts})
    BY <2>1, <2>5, ImageIsFinite
  <2> QED
    BY <2>3, <2>4, <2>6, FS_UNION
<1>2. CASE q.compare = None
  BY <1>1, <1>2 DEF Keys
<1>3. CASE q.compare # None
  BY <1>1, <1>3, PriorAdmissible, FS_Union DEF Keys, Current
<1> QED
  BY <1>1, <1>2, <1>3

-----------------------------------------------------------------------------
(* The ungrouped question, and its period before.                          *)
LEMMA WholeAdmissible ==
  ASSUME NEW q, Admissible(q)
  PROVE  /\ Admissible(Whole(q)) /\ (Sums(q) => Sums(Whole(q)))
         /\ Whole(q).compare = q.compare /\ Whole(q).form = q.form /\ Whole(q).dim = None
         /\ KeysOf(Whole(q)) = {All}
         /\ q.compare # None => Prior(Whole(q)) = Whole(Prior(q))
<1> DEFINE o == Whole(q)
<1>1. q \in [form : Forms, parts : Seq(SignedMetrics), dim : {q.dim}, filter : {q.filter},
              window : {None} \cup (Int \X Int), offset : Int, compare : {None} \cup Int,
              nonzero : BOOLEAN]
  BY DEF Admissible
<1>2. /\ o.form = q.form /\ o.parts = q.parts /\ o.dim = None /\ o.filter = q.filter
      /\ o.window = q.window /\ o.offset = q.offset /\ o.compare = q.compare /\ o.nonzero = q.nonzero
      /\ o \in [form : Forms, parts : Seq(SignedMetrics), dim : {o.dim}, filter : {o.filter},
                window : {None} \cup (Int \X Int), offset : Int, compare : {None} \cup Int,
                nonzero : BOOLEAN]
  BY <1>1 DEF Whole
<1>3. Prior(Whole(q)) = Whole(Prior(q))
  <2>1. CASE q.window # None
    BY <1>1, <1>2, <2>1 DEF Prior, Whole
  <2>2. CASE q.window = None
    BY <1>1, <1>2, <2>2 DEF Prior, Whole
  <2> QED
    BY <2>1, <2>2
<1> HIDE DEF o
<1>4. Admissible(o)
  BY <1>2 DEF Admissible
<1>5. Sums(q) => Sums(o)
  BY <1>2 DEF Sums
<1>6. KeysOf(o) = {All}
  BY <1>2 DEF KeysOf
<1> QED
  BY <1>2, <1>3, <1>4, <1>5, <1>6 DEF o

(* What the counts of an answer are, its comparison included.              *)
LEMMA RunTally ==
  ASSUME Numbered(facts), NEW q, Admissible(q), NEW k \in Keys(q), NEW field \in Fields
  PROVE  Run(q)[k][field] =
           IF q.compare = None THEN Sum(TalliesOf(q, field, k))
           ELSE Sum(TalliesOf(q, field, k)) + Sum(TalliesOf(Prior(q), field, k))
<1>1. CASE q.compare = None
  <2>1. Run(q) = Table(q) /\ Keys(q) = KeysOf(q) /\ DOMAIN Table(q) = KeysOf(q)
    BY <1>1, TableCounts DEF Run, Keys
  <2>2. At(Table(q), k)[field] = Sum(TalliesOf(q, field, k))
    BY <2>1, TableTally
  <2> QED
    BY <1>1, <2>1, <2>2 DEF At
<1>2. CASE q.compare # None
  <2> DEFINE old == Prior(q)
             now == At(Table(q), k)
             then == At(Table(old), k)
             a == SideValue(q, now)
             b == SideValue(q, then)
             c == Change(q, now, then, a, b)
  <2>1. Admissible(old) /\ old.dim = q.dim
    BY <1>2, PriorAdmissible
  <2>2. /\ Run(q) = Comparison(q) /\ Keys(q) = KeysOf(q) \cup KeysOf(old)
        /\ DOMAIN Table(q) = KeysOf(q) /\ DOMAIN Table(old) = KeysOf(old)
    BY <1>2, <2>1, TableCounts DEF Run, Keys, Current
  <2>3. (q.dim # None \/ k \in KeysOf(q)) /\ (old.dim # None \/ k \in KeysOf(old))
    <3>1. q.dim = None => KeysOf(q) = {All} /\ KeysOf(old) = {All}
      BY <2>1 DEF KeysOf
    <3> QED
      BY <2>1, <2>2, <3>1
  <2>4. now[field] = Sum(TalliesOf(q, field, k)) /\ then[field] = Sum(TalliesOf(old, field, k))
    BY <2>1, <2>3, TableTally
  <2>5. Run(q)[k] = c
    BY <2>2 DEF Comparison, OnEitherKeys, SideBySide, Current
  <2> HIDE DEF now, then, a, b
  <2>6. /\ c.missing = now.missing + then.missing /\ c.known = now.known + then.known
        /\ c.match = now.match + then.match
    BY DEF Change
  <2> HIDE DEF c, old
  <2>7. c[field] = now[field] + then[field]
    BY <2>6 DEF Fields
  <2> QED
    BY <1>2, <2>4, <2>5, <2>7 DEF old
<1> QED
  BY <1>1, <1>2

LEMMA RunTallyAdds ==
  ASSUME Numbered(facts), NEW q, Admissible(q), NEW field \in Fields
  PROVE  Run(Whole(q))[All][field] = Sum([k \in DOMAIN Run(q) |-> Run(q)[k][field]])
<1> DEFINE o == Whole(q)
           M == Keys(q)
           now == [k \in M |-> Sum(TalliesOf(q, field, k))]
<1>1. IsFiniteSet(M) /\ DOMAIN Run(q) = M
  BY KeysAreFinite, RunCounts
<1>2. /\ Admissible(o) /\ o.compare = q.compare /\ KeysOf(o) = {All}
      /\ q.compare # None => Prior(o) = Whole(Prior(q))
  BY WholeAdmissible
<1>3. All \in Keys(o)
  BY <1>2 DEF Keys, Current
<1>4. KeysOf(q) \subseteq M
  BY DEF Keys, Current
<1>5. Ints(now) /\ Sum(now) = Sum(TalliesOf(o, field, All))
  BY <1>1, <1>4, TallyAdds
<1>6. CASE q.compare = None
  <2>1. Run(o)[All][field] = Sum(TalliesOf(o, field, All))
    BY <1>2, <1>3, <1>6, RunTally
  <2>2. \A k \in M : Run(q)[k][field] = Sum(TalliesOf(q, field, k))
    BY <1>6, RunTally
  <2>3. [k \in DOMAIN Run(q) |-> Run(q)[k][field]] = now
    BY <1>1, <2>2
  <2> QED
    BY <1>5, <2>1, <2>3
<1>7. CASE q.compare # None
  <2> DEFINE old == Prior(q)
             then == [k \in M |-> Sum(TalliesOf(old, field, k))]
             both == [k \in DOMAIN Run(q) |-> Run(q)[k][field]]
  <2>1. Admissible(old) /\ KeysOf(old) \subseteq M
    BY <1>7, PriorAdmissible DEF Keys
  <2>2. Ints(then) /\ Sum(then) = Sum(TalliesOf(Whole(old), field, All))
    BY <1>1, <2>1, TallyAdds
  <2>3. Run(o)[All][field] = Sum(TalliesOf(o, field, All)) + Sum(TalliesOf(Whole(old), field, All))
    BY <1>2, <1>3, <1>7, RunTally
  <2>4. \A k \in M : Run(q)[k][field] = Sum(TalliesOf(q, field, k)) + Sum(TalliesOf(old, field, k))
    BY <1>7, RunTally
  <2>5. DOMAIN both = M /\ DOMAIN now = M /\ DOMAIN then = M /\ both = [k \in DOMAIN both |-> both[k]]
    BY <1>1
  <2>6. \A k \in M : both[k] = now[k] + then[k]
    BY <1>1, <2>4
  <2> HIDE DEF both, now, then, M, o, old
  <2>7. \A k \in M : now[k] \in Int /\ then[k] \in Int
    BY <1>5, <2>2, <2>5 DEF Ints
  <2>8. Ints(both)
    BY <1>1, <2>5, <2>6, <2>7 DEF Ints
  <2>9. Sum(both) = Sum(now) + Sum(then)
    BY <1>5, <2>2, <2>5, <2>6, <2>8, SumOfAdded
  <2> QED
    BY <1>5, <2>2, <2>3, <2>9 DEF both, o
<1> QED
  BY <1>6, <1>7

LEMMA RunValueAdds ==
  ASSUME Numbered(facts), NEW q, Admissible(q), Exact(q), Run(Whole(q))[All].value # None
  PROVE  Run(Whole(q))[All].value = Sum([k \in DOMAIN Run(q) |-> Run(q)[k].value])
<1> DEFINE o == Whole(q)
           M == Keys(q)
<1>1. IsFiniteSet(M) /\ DOMAIN Run(q) = M /\ Sums(q)
  BY KeysAreFinite, RunCounts DEF Exact
<1>2. Admissible(o) /\ Sums(o) /\ o.compare = q.compare /\ KeysOf(o) = {All}
  BY <1>1, WholeAdmissible
<1>3. All \in Keys(o)
  BY <1>2 DEF Keys, Current
<1>4. Run(o)[All].value = TruthOf(o, All)
  BY <1>2, <1>3, RunTrue
<1>5. \A k \in M : Run(q)[k].value = TruthOf(q, k)
  BY <1>1, RunTrue
<1>6. KeysOf(q) \subseteq M
  BY DEF Keys, Current
<1>7. \A i \in DOMAIN q.parts : MetricOf(q, i).overdue => M = KeysOf(q)
  BY DEF Admissible, MetricOf, Keys
<1>8. [k \in DOMAIN Run(q) |-> Run(q)[k].value] = [k \in M |-> TruthOf(q, k)]
  BY <1>1, <1>5
<1>9. TruthOf(o, All) # None
  BY <1>4
<1> HIDE DEF M
<1>10. Sum([k \in M |-> TruthOf(q, k)]) = TruthOf(o, All)
  BY <1>1, <1>6, <1>7, <1>9, ValueAdds
<1> QED
  BY <1>4, <1>8, <1>10

LEMMA GroupsAddUp ==
  ASSUME Numbered(facts), NEW q, Admissible(q), answer = Run(q)
  PROVE  AddsUp(q, Run(Whole(q))[All])
<1>1. \A field \in Fields :
        Run(Whole(q))[All][field] = Sum([k \in DOMAIN answer |-> answer[k][field]])
  BY RunTallyAdds
<1>2. Sums(q) /\ q.form # "ratio" /\ Run(Whole(q))[All].value # None =>
        Run(Whole(q))[All].value = Sum([k \in DOMAIN answer |-> answer[k].value])
  BY RunValueAdds DEF Exact
<1>3. [k \in DOMAIN answer |-> answer[k]["value"]] = [k \in DOMAIN answer |-> answer[k].value]
  OBVIOUS
<1> QED
  BY <1>1, <1>2, <1>3 DEF AddsUp, Fields

-----------------------------------------------------------------------------
(* Asked for one group alone: the question of that group's rows.           *)
Only(q, k) == [q EXCEPT !.dim = None, !.filter = [dim |-> q.dim, values |-> {k}]]
(* A group a filter can name, spelled the way rows are grouped.            *)
Named(q, k) ==
    /\ Admissible(q) /\ q.filter = None /\ q.dim \in {"unit", "region", "currency"}
    /\ q.dim = "unit" => Normal(k) = k
    /\ None # [dim |-> q.dim, values |-> {k}]
OnlyIs(q, k) ==
    /\ Only(q, k).parts = q.parts /\ Only(q, k).form = q.form /\ Only(q, k).compare = q.compare
    /\ Only(q, k).nonzero = q.nonzero /\ Only(q, k).dim = None
    /\ Only(q, k).window = q.window /\ Only(q, k).offset = q.offset /\ Admissible(Only(q, k))
    /\ \A m : Scope(m, Only(q, k)) = {r \in Scope(m, q) : DimensionValue(q.dim, r) = k}

LEMMA NamedIsOnly ==
  ASSUME NEW q, NEW k, Named(q, k)
  PROVE  OnlyIs(q, k) /\ (q.compare # None => Prior(Only(q, k)) = Only(Prior(q), k) /\ Named(Prior(q), k))
<1> DEFINE o == Only(q, k)
           narrowed == [dim |-> q.dim, values |-> {k}]
<1>1. q \in [form : Forms, parts : Seq(SignedMetrics), dim : {q.dim}, filter : {q.filter},
              window : {None} \cup (Int \X Int), offset : Int, compare : {None} \cup Int,
              nonzero : BOOLEAN]
  BY DEF Named, Admissible
<1>2. /\ o.form = q.form /\ o.parts = q.parts /\ o.dim = None /\ o.filter = narrowed
      /\ o.window = q.window /\ o.offset = q.offset /\ o.compare = q.compare /\ o.nonzero = q.nonzero
      /\ o \in [form : Forms, parts : Seq(SignedMetrics), dim : {o.dim}, filter : {o.filter},
                window : {None} \cup (Int \X Int), offset : Int, compare : {None} \cup Int,
                nonzero : BOOLEAN]
  BY <1>1 DEF Only
<1>3. ASSUME q.compare # None PROVE Prior(Only(q, k)) = Only(Prior(q), k) /\ Named(Prior(q), k)
  <2>1. Prior(q).dim = q.dim /\ Prior(q).filter = q.filter /\ Prior(Only(q, k)) = Only(Prior(q), k)
    <3>1. CASE q.window # None
      BY <1>1, <1>2, <3>1 DEF Prior, Only
    <3>2. CASE q.window = None
      BY <1>1, <1>2, <3>2 DEF Prior, Only
    <3> QED
      BY <3>1, <3>2
  <2> QED
    BY <1>3, <2>1, PriorAdmissible DEF Named
<1> HIDE DEF o
<1>4. Admissible(o)
  BY <1>2 DEF Admissible, Named
<1>5. \A r : Selected(o.filter, r) <=> DimensionValue(q.dim, r) = k
  <2>1. narrowed # None
    BY DEF Named
  <2> QED
    BY <1>2, <2>1 DEF Selected, Named
<1>6. \A r : Selected(q.filter, r)
  BY DEF Selected, Named
<1>7. \A m : MonthsRead(m, o) = MonthsRead(m, q)
  BY <1>2 DEF MonthsRead, LatestSnapshot
<1>8. \A m : Scope(m, o) = {r \in Scope(m, q) : DimensionValue(q.dim, r) = k}
  BY <1>5, <1>6, <1>7 DEF Scope
<1> QED
  BY <1>2, <1>3, <1>4, <1>8 DEF OnlyIs, o

-----------------------------------------------------------------------------
(* What a cell holds, whatever the aggregation; over no row it holds none. *)
Typed(c) == /\ c.missing \in Nat /\ c.known \in Nat /\ c.match \in Nat
            /\ c.value \in Int \cup {None} /\ c.unclassified.count \in Nat
Nothing(c) == /\ c.missing = 0 /\ c.known = 0 /\ c.match = 0 /\ c.value \in {0, None}
              /\ c.unclassified.count = 0 /\ c.unclassified.min = None /\ c.unclassified.max = None

LEMMA NothingIsTyped ==
  ASSUME NEW c, Nothing(c)
  PROVE  Typed(c)
BY DEF Nothing, Typed

LEMMA LowestOf ==
  ASSUME NEW S \in SUBSET Int, IsFiniteSet(S), S # {}
  PROVE  Min(S) \in S
<1> DEFINE G == {T \in SUBSET S : T = {} \/ \E x \in T : \A y \in T : x <= y}
<1>1. {} \in G
  OBVIOUS
<1>2. ASSUME NEW T \in SUBSET S, NEW x \in S \ T, T \in G
      PROVE  T \cup {x} \in G
  <2>1. CASE T = {}
    BY <2>1
  <2>2. CASE T # {}
    <3>1. PICK z \in T : \A y \in T : z <= y
      BY <1>2, <2>2
    <3>2. CASE z <= x
      BY <3>1, <3>2
    <3>3. CASE ~(z <= x)
      <4>1. \A y \in T \cup {x} : x <= y
        BY <3>1, <3>3
      <4> QED
        BY <4>1
    <3> QED
      BY <3>2, <3>3
  <2> QED
    BY <2>1, <2>2
<1>3. S \in G
  <2> HIDE DEF G
  <2> QED
    BY <1>1, <1>2, Growing
<1>4. \E x \in S : \A y \in S : x <= y
  BY <1>3
<1> QED
  BY <1>4 DEF Min

LEMMA SomeValues ==
  ASSUME NEW f, IsFiniteSet(DOMAIN f), \A x \in DOMAIN f : f[x] \in Int \cup {None}
  PROVE  /\ SqlMax(f) \in Int \cup {None} /\ SqlMin(f) \in Int \cup {None}
         /\ Cardinality({f[x] : x \in Some(f)}) \in Nat
<1> DEFINE S == {f[x] : x \in Some(f)}
           g == Restricted(f, Some(f))
<1>1. IsFiniteSet(Some(f)) /\ Some(f) \in SUBSET DOMAIN f
  BY FS_Subset DEF Some
<1>2. DOMAIN g = Some(f) /\ \A x \in Some(f) : g[x] = f[x]
  BY DEF Restricted
<1> HIDE DEF g
<1>3. IsFiniteSet({g[x] : x \in Some(f)})
  BY <1>1, <1>2, ImageIsFinite
<1>4. S = {g[x] : x \in Some(f)}
  BY <1>2
<1>5. S \in SUBSET Int
  BY <1>1 DEF Some
<1>6. Some(f) # {} => S # {}
  OBVIOUS
<1>7. IsFiniteSet(S)
  BY <1>3, <1>4
<1> HIDE DEF S
<1>8. S # {} => Max(S) \in S /\ Min(S) \in S
  BY <1>5, <1>7, GreatestOf, LowestOf
<1>9. SqlMax(f) = (IF Some(f) = {} THEN None ELSE Max(S)) /\ SqlMin(f) = (IF Some(f) = {} THEN None ELSE Min(S))
  BY DEF SqlMax, SqlMin, S
<1> QED
  BY <1>5, <1>6, <1>7, <1>8, <1>9, FS_CardinalityType DEF S

LEMMA NoValues ==
  ASSUME NEW f, DOMAIN f = {}
  PROVE  /\ Some(f) = {} /\ SqlMax(f) = None /\ SqlMin(f) = None /\ OrZero(SqlSum(f)) = 0
         /\ Cardinality({f[x] : x \in Some(f)}) = 0
<1>1. Some(f) = {}
  BY DEF Some
<1>2. {f[x] : x \in Some(f)} = {}
  BY <1>1
<1> QED
  BY <1>1, <1>2, FS_EmptySet DEF SqlMax, SqlMin, SqlSum, OrZero

LEMMA AggregateType ==
  ASSUME Numbered(facts), NEW m \in Governed, NEW rows \in SUBSET DOMAIN facts,
         \A r \in rows : ~Incomplete(m, r)
  PROVE  Aggregate(m, rows) \in Int \cup {None}
<1>1. CASE m.agg \in Summing
  BY <1>1, AggregateIsSum
<1>2. CASE m.agg \notin Summing
  <2> DEFINE f == [r \in rows |-> Measure(m, r)]
  <2>1. \A r \in rows : Measure(m, r) = facts[r].amount
    BY <1>2 DEF Measure, Summing
  <2>2. \A r \in DOMAIN f : f[r] \in Int \cup {None}
    BY <2>1 DEF Numbered
  <2>3. IsFiniteSet(DOMAIN f)
    BY FS_Subset DEF Numbered
  <2>4. Aggregate(m, rows) = AggregateOf(m.agg, f)
    BY DEF Aggregate
  <2>5. m.agg \in {"count_distinct", "max", "min"}
    BY <1>2 DEF Governed, Summing
  <2> HIDE DEF f
  <2>6. /\ SqlMax(f) \in Int \cup {None} /\ SqlMin(f) \in Int \cup {None}
        /\ Cardinality({f[x] : x \in Some(f)}) \in Nat
    BY <2>2, <2>3, SomeValues
  <2> QED
    BY <2>4, <2>5, <2>6 DEF AggregateOf
<1> QED
  BY <1>1, <1>2

LEMMA NoAggregate ==
  ASSUME NEW m \in Governed
  PROVE  Aggregate(m, {}) \in {0, None}
<1> DEFINE f == [r \in {} |-> Measure(m, r)]
<1>1. DOMAIN f = {} /\ Aggregate(m, {}) = AggregateOf(m.agg, f)
  BY DEF Aggregate
<1>2. m.agg \in Summing \cup {"count_distinct", "max", "min"}
  BY DEF Governed, Summing
<1> HIDE DEF f
<1>3. /\ SqlMax(f) = None /\ SqlMin(f) = None /\ OrZero(SqlSum(f)) = 0
      /\ Cardinality({f[x] : x \in Some(f)}) = 0
  BY <1>1, NoValues
<1> QED
  BY <1>1, <1>2, <1>3 DEF AggregateOf, Summing

LEMMA PlainIsTyped ==
  ASSUME Numbered(facts), NEW m \in Governed, ~m.overdue, NEW rows \in SUBSET DOMAIN facts,
         NEW sign \in {1, -1}
  PROVE  Typed(CellOf(m, rows, sign)) /\ (rows = {} => Nothing(CellOf(m, rows, sign)))
<1> DEFINE incomplete == {r \in rows : Incomplete(m, r)}
           rest == rows \ incomplete
           lost == {r \in rows : m.scoped = "currency" /\ facts[r].cur = None}
           values == [r \in lost |-> IF m.agg = "sum" THEN Signed(facts[r].amount, sign) ELSE None]
           c == CellOf(m, rows, sign)
<1>1. IsFiniteSet(incomplete) /\ IsFiniteSet(rest) /\ IsFiniteSet(lost)
  BY FS_Subset DEF Numbered
<1>2. /\ Cardinality(incomplete) \in Nat /\ (Cardinality(incomplete) > 0 <=> incomplete # {})
      /\ Cardinality(rest) \in Nat /\ (Cardinality(rest) > 0 <=> rest # {})
      /\ Cardinality(lost) \in Nat /\ (Cardinality(lost) > 0 <=> lost # {})
  BY <1>1, HasSome
<1>3. /\ c.missing = Cardinality(incomplete) /\ c.known = Cardinality(rest)
      /\ c.match = Cardinality(rest) + Cardinality(incomplete)
      /\ c.value = IF Cardinality(incomplete) > 0 THEN None ELSE Signed(Aggregate(m, rows), sign)
      /\ c.unclassified = [count |-> Cardinality(lost), min |-> SqlMin(values), max |-> SqlMax(values)]
  BY DEF CellOf, PlainCell, Cell, Unclassified
<1>4. \A v \in Int \cup {None} : Signed(v, sign) \in Int \cup {None}
  BY MetricsAssumption DEF Signed, Negated
<1>8. \A v : v \in {0, None} => Signed(v, sign) \in {0, None}
  <2>1. ASSUME NEW z \in Int, z = 0 PROVE Negated(z) = 0
    <3>1. -z + z = 0 /\ -z \in Int
      OBVIOUS
    <3>2. \A w \in Int : w + z = 0 => w = 0
      BY <2>1
    <3>3. z # None
      BY MetricsAssumption
    <3> QED
      BY <3>1, <3>2, <3>3 DEF Negated
  <2>2. \A v : v = None => Negated(v) = None
    BY DEF Negated
  <2> QED
    BY <2>1, <2>2, MetricsAssumption DEF Signed
<1>5. incomplete = {} => Aggregate(m, rows) \in Int \cup {None}
  <2>1. incomplete = {} => \A r \in rows : ~Incomplete(m, r)
    OBVIOUS
  <2> QED
    BY <2>1, AggregateType
<1>6. Typed(c)
  <2> HIDE DEF incomplete, rest, lost, values, c
  <2>1. c.value \in Int \cup {None}
    <3>1. c.value = IF Cardinality(incomplete) > 0 THEN None ELSE Signed(Aggregate(m, rows), sign)
      BY <1>3
    <3>2. CASE Cardinality(incomplete) > 0
      BY <3>1, <3>2
    <3>3. CASE ~(Cardinality(incomplete) > 0)
      <4>1. Aggregate(m, rows) \in Int \cup {None}
        BY <1>2, <1>5, <3>3
      <4>2. Signed(Aggregate(m, rows), sign) \in Int \cup {None}
        BY <1>4, <4>1
      <4> QED
        BY <3>1, <3>3, <4>2
    <3> QED
      BY <3>2, <3>3
  <2>2. c.unclassified.count \in Nat
    <3>1. c.unclassified = [count |-> Cardinality(lost), min |-> SqlMin(values), max |-> SqlMax(values)]
      BY <1>3
    <3>2. c.unclassified.count = Cardinality(lost)
      BY <3>1
    <3> QED
      BY <1>2, <3>2
  <2>3. c.missing \in Nat /\ c.known \in Nat /\ c.match \in Nat
    <3>1. Cardinality(rest) + Cardinality(incomplete) \in Nat
      BY <1>2
    <3> QED
      BY <1>2, <1>3, <3>1
  <2> QED
    BY <2>1, <2>2, <2>3 DEF Typed
<1>7. ASSUME rows = {} PROVE Nothing(c)
  <2>1. incomplete = {} /\ rest = {} /\ lost = {} /\ DOMAIN values = {}
    BY <1>7
  <2>2. Aggregate(m, rows) \in {0, None}
    BY <1>7, NoAggregate
  <2> HIDE DEF incomplete, rest, lost, values, c
  <2>3. SqlMin(values) = None /\ SqlMax(values) = None
    BY <2>1, NoValues
  <2>4. c.missing = 0 /\ c.known = 0 /\ c.match = 0 /\ Cardinality(lost) = 0
    <3>1. Cardinality(incomplete) = 0 /\ Cardinality(rest) = 0 /\ Cardinality(lost) = 0
      BY <2>1, FS_EmptySet
    <3>2. /\ c.missing = Cardinality(incomplete) /\ c.known = Cardinality(rest)
          /\ c.match = Cardinality(rest) + Cardinality(incomplete)
      BY <1>3
    <3> QED
      BY <3>1, <3>2
  <2>5. c.value \in {0, None}
    <3>1. Signed(Aggregate(m, rows), sign) \in {0, None}
      BY <1>8, <2>2
    <3>2. Cardinality(incomplete) = 0
      BY <2>1, FS_EmptySet
    <3>3. c.value = IF Cardinality(incomplete) > 0 THEN None ELSE Signed(Aggregate(m, rows), sign)
      BY <1>3
    <3> QED
      BY <3>1, <3>2, <3>3
  <2>6. c.unclassified.count = 0 /\ c.unclassified.min = None /\ c.unclassified.max = None
    <3>1. c.unclassified = [count |-> Cardinality(lost), min |-> SqlMin(values), max |-> SqlMax(values)]
      BY <1>3
    <3> QED
      BY <2>3, <2>4, <3>1
  <2> QED
    BY <2>4, <2>5, <2>6 DEF Nothing
<1> QED
  BY <1>6, <1>7

-----------------------------------------------------------------------------
(* A family of cells with nothing more in it makes the same composite.     *)
LEMMA TotalIs ==
  ASSUME NEW f, IsFiniteSet(DOMAIN f), \A x \in DOMAIN f : f[x] \in Int \cup {None}
  PROVE  /\ Ints([x \in Some(f) |-> f[x]])
         /\ OrZero(SqlSum(f)) = Sum([x \in Some(f) |-> f[x]])
<1> DEFINE a == [x \in Some(f) |-> f[x]]
<1>1. IsFiniteSet(Some(f))
  BY FS_Subset DEF Some
<1>2. Ints(a) /\ DOMAIN a = Some(f)
  BY <1>1 DEF Ints, Some
<1> HIDE DEF a
<1>3. Sum(a) \in Int /\ (Some(f) = {} => Sum(a) = 0)
  BY <1>2, SumType
<1>4. SqlSum(f) = IF Some(f) = {} THEN None ELSE Sum(a)
  BY DEF SqlSum, a
<1>5. OrZero(SqlSum(f)) = Sum(a)
  BY <1>3, <1>4, MetricsAssumption DEF OrZero
<1> QED
  BY <1>2, <1>5 DEF a

LEMMA SameTotal ==
  ASSUME NEW f, IsFiniteSet(DOMAIN f), \A x \in DOMAIN f : f[x] \in Int \cup {None},
         NEW U \in SUBSET DOMAIN f, \A x \in DOMAIN f \ U : f[x] \in {0, None}
  PROVE  OrZero(SqlSum(f)) = OrZero(SqlSum(Restricted(f, U)))
<1> DEFINE g == Restricted(f, U)
           a == [x \in Some(f) |-> f[x]]
           b == [x \in Some(g) |-> g[x]]
<1>1. DOMAIN g = U /\ \A x \in U : g[x] = f[x]
  BY DEF Restricted
<1>2. IsFiniteSet(U)
  BY FS_Subset
<1> HIDE DEF g
<1>3. Ints(a) /\ OrZero(SqlSum(f)) = Sum(a)
  BY TotalIs
<1>4. OrZero(SqlSum(g)) = Sum(b)
  BY <1>1, <1>2, TotalIs
<1>5. Some(g) = Some(f) \cap U
  BY <1>1 DEF Some
<1>6. DOMAIN a = Some(f) /\ b = Restricted(a, Some(g))
  BY <1>1, <1>5 DEF Restricted
<1>7. Some(g) \in SUBSET DOMAIN a /\ \A x \in DOMAIN a \ Some(g) : a[x] = 0
  BY <1>5 DEF Some
<1> HIDE DEF a, b
<1>8. Sum(a) = Sum(b)
  BY <1>3, <1>6, <1>7, SumWithoutZeros
<1> QED
  BY <1>3, <1>4, <1>8 DEF g

LEMMA SameExtremes ==
  ASSUME NEW f, NEW U \in SUBSET DOMAIN f, \A x \in DOMAIN f \ U : f[x] = None
  PROVE  SqlMin(f) = SqlMin(Restricted(f, U)) /\ SqlMax(f) = SqlMax(Restricted(f, U))
<1> DEFINE g == Restricted(f, U)
<1>1. DOMAIN g = U /\ \A x \in U : g[x] = f[x]
  BY DEF Restricted
<1> HIDE DEF g
<1>2. Some(g) = Some(f) /\ Some(f) \subseteq U
  BY <1>1 DEF Some
<1>3. {g[x] : x \in Some(g)} = {f[x] : x \in Some(f)}
  BY <1>1, <1>2
<1> QED
  BY <1>2, <1>3 DEF SqlMin, SqlMax, g

United(f) ==
    LET Adding(name) == Sum([i \in DOMAIN f |-> f[i][name]])
        Lost(name) == [i \in DOMAIN f |-> f[i].unclassified[name]]
    IN [value |-> IF Adding("missing") > 0 THEN None
                  ELSE OrZero(SqlSum([i \in DOMAIN f |-> f[i].value])),
        missing |-> Adding("missing"), known |-> Adding("known"), match |-> Adding("match"),
        subset |-> None,
        unclassified |-> [count |-> OrZero(SqlSum(Lost("count"))),
                          min |-> SqlMin(Lost("min")), max |-> SqlMax(Lost("max"))]]

LEMMA CompositeIs ==
  ASSUME NEW parts, NEW k \in UNION {DOMAIN parts[i] : i \in DOMAIN parts}
  PROVE  Composite(parts)[k]
           = United([i \in {j \in DOMAIN parts : k \in DOMAIN parts[j]} |-> parts[i][k]])
<1> DEFINE Of == {i \in DOMAIN parts : k \in DOMAIN parts[i]}
           f == [i \in Of |-> parts[i][k]]
<1>1. DOMAIN f = Of /\ \A i \in Of : f[i] = parts[i][k]
  OBVIOUS
<1>2. Composite(parts)[k] =
        [value |-> IF Sum([i \in Of |-> parts[i][k]["missing"]]) > 0 THEN None
                   ELSE OrZero(SqlSum([i \in Of |-> parts[i][k].value])),
         missing |-> Sum([i \in Of |-> parts[i][k]["missing"]]),
         known |-> Sum([i \in Of |-> parts[i][k]["known"]]),
         match |-> Sum([i \in Of |-> parts[i][k]["match"]]), subset |-> None,
         unclassified |-> [count |-> OrZero(SqlSum([i \in Of |-> parts[i][k].unclassified["count"]])),
                           min |-> SqlMin([i \in Of |-> parts[i][k].unclassified["min"]]),
                           max |-> SqlMax([i \in Of |-> parts[i][k].unclassified["max"]])]]
  BY DEF Composite
<1> HIDE DEF Of, f
<1>3. \A name : /\ [i \in DOMAIN f |-> f[i][name]] = [i \in Of |-> parts[i][k][name]]
                /\ [i \in DOMAIN f |-> f[i].unclassified[name]]
                     = [i \in Of |-> parts[i][k].unclassified[name]]
  BY <1>1
<1>4. [i \in DOMAIN f |-> f[i].value] = [i \in Of |-> parts[i][k].value]
  BY <1>1
<1>5. Composite(parts)[k] = United(f)
  BY <1>2, <1>3, <1>4 DEF United
<1> QED
  BY <1>5 DEF Of, f

LEMMA UnitedWithout ==
  ASSUME NEW f, IsFiniteSet(DOMAIN f), \A i \in DOMAIN f : Typed(f[i]),
         NEW U \in SUBSET DOMAIN f, \A i \in DOMAIN f \ U : Nothing(f[i])
  PROVE  United(f) = United(Restricted(f, U))
<1> DEFINE g == Restricted(f, U)
           A(name) == [i \in DOMAIN f |-> f[i][name]]
           B(name) == [i \in DOMAIN f |-> f[i].unclassified[name]]
           v == [i \in DOMAIN f |-> f[i].value]
<1>1. DOMAIN g = U /\ \A i \in U : g[i] = f[i]
  BY DEF Restricted
<1> HIDE DEF g
<1>2. /\ \A name : [i \in DOMAIN g |-> g[i][name]] = Restricted(A(name), U)
      /\ \A name : [i \in DOMAIN g |-> g[i].unclassified[name]] = Restricted(B(name), U)
      /\ [i \in DOMAIN g |-> g[i].value] = Restricted(v, U)
  BY <1>1 DEF Restricted
<1>3. ASSUME NEW name \in Fields PROVE Sum(A(name)) = Sum(Restricted(A(name), U))
  <2> DEFINE a == A(name)
  <2>1. DOMAIN a = DOMAIN f /\ a = [x \in DOMAIN a |-> a[x]] /\ \A i \in DOMAIN f : a[i] = f[i][name]
    OBVIOUS
  <2> HIDE DEF a
  <2>2. \A i \in DOMAIN f : a[i] \in Int
    BY <2>1 DEF Typed, Fields
  <2>3. \A i \in DOMAIN f \ U : a[i] = 0
    BY <2>1 DEF Nothing, Fields
  <2>4. Ints(a)
    BY <2>1, <2>2 DEF Ints
  <2>5. Sum(a) = Sum(Restricted(a, U))
    BY <2>1, <2>3, <2>4, SumWithoutZeros
  <2> QED
    BY <2>5 DEF a
<1>4. OrZero(SqlSum(v)) = OrZero(SqlSum(Restricted(v, U)))
  <2>1. DOMAIN v = DOMAIN f /\ \A i \in DOMAIN f : v[i] = f[i].value
    OBVIOUS
  <2> HIDE DEF v
  <2>2. /\ \A i \in DOMAIN v : v[i] \in Int \cup {None}
        /\ \A i \in DOMAIN v \ U : v[i] \in {0, None}
    BY <2>1 DEF Typed, Nothing
  <2> QED
    BY <2>1, <2>2, SameTotal
<1>5. OrZero(SqlSum(B("count"))) = OrZero(SqlSum(Restricted(B("count"), U)))
  <2> DEFINE b == B("count")
  <2>1. DOMAIN b = DOMAIN f /\ \A i \in DOMAIN f : b[i] = f[i].unclassified.count
    OBVIOUS
  <2> HIDE DEF b
  <2>2. /\ \A i \in DOMAIN b : b[i] \in Int \cup {None}
        /\ \A i \in DOMAIN b \ U : b[i] \in {0, None}
    BY <2>1 DEF Typed, Nothing
  <2>3. OrZero(SqlSum(b)) = OrZero(SqlSum(Restricted(b, U)))
    BY <2>1, <2>2, SameTotal
  <2> QED
    BY <2>3 DEF b
<1>6. SqlMin(B("min")) = SqlMin(Restricted(B("min"), U))
  <2> DEFINE b == B("min")
  <2>1. DOMAIN b = DOMAIN f /\ \A i \in DOMAIN f \ U : b[i] = None
    BY DEF Nothing
  <2> HIDE DEF b
  <2>2. SqlMin(b) = SqlMin(Restricted(b, U))
    BY <2>1, SameExtremes
  <2> QED
    BY <2>2 DEF b
<1>7. SqlMax(B("max")) = SqlMax(Restricted(B("max"), U))
  <2> DEFINE b == B("max")
  <2>1. DOMAIN b = DOMAIN f /\ \A i \in DOMAIN f \ U : b[i] = None
    BY DEF Nothing
  <2> HIDE DEF b
  <2>2. SqlMax(b) = SqlMax(Restricted(b, U))
    BY <2>1, SameExtremes
  <2> QED
    BY <2>2 DEF b
<1>8. \A name \in Fields : Sum([i \in DOMAIN f |-> f[i][name]]) = Sum([i \in DOMAIN g |-> g[i][name]])
  BY <1>2, <1>3
<1>9. /\ OrZero(SqlSum([i \in DOMAIN f |-> f[i].unclassified["count"]]))
           = OrZero(SqlSum([i \in DOMAIN g |-> g[i].unclassified["count"]]))
      /\ SqlMin([i \in DOMAIN f |-> f[i].unclassified["min"]])
           = SqlMin([i \in DOMAIN g |-> g[i].unclassified["min"]])
      /\ SqlMax([i \in DOMAIN f |-> f[i].unclassified["max"]])
           = SqlMax([i \in DOMAIN g |-> g[i].unclassified["max"]])
      /\ OrZero(SqlSum([i \in DOMAIN f |-> f[i].value])) = OrZero(SqlSum([i \in DOMAIN g |-> g[i].value]))
  BY <1>2, <1>4, <1>5, <1>6, <1>7
<1>10. {"missing", "known", "match"} \subseteq Fields
  BY DEF Fields
<1> QED
  BY <1>8, <1>9, <1>10 DEF United, g

LEMMA UnitedNothing ==
  ASSUME NEW f, DOMAIN f = {}
  PROVE  LET c == United(f) IN c.missing = 0 /\ c.known = 0 /\ c.match = 0 /\ Full(c) = 0
<1>1. ASSUME NEW name PROVE Sum([i \in DOMAIN f |-> f[i][name]]) = 0
  <2> DEFINE a == [i \in DOMAIN f |-> f[i][name]]
  <2>1. DOMAIN a = {} /\ a = [x \in DOMAIN a |-> a[x]]
    OBVIOUS
  <2> HIDE DEF a
  <2>2. Sum(a) = 0
    BY <2>1, SumType, FS_EmptySet DEF Ints
  <2> QED
    BY <2>2 DEF a
<1>2. OrZero(SqlSum([i \in DOMAIN f |-> f[i].value])) = 0
  <2> DEFINE a == [i \in DOMAIN f |-> f[i].value]
  <2>1. DOMAIN a = {}
    OBVIOUS
  <2> HIDE DEF a
  <2>2. OrZero(SqlSum(a)) = 0
    BY <2>1, NoValues
  <2> QED
    BY <2>2 DEF a
<1>3. /\ United(f).missing = 0 /\ United(f).known = 0 /\ United(f).match = 0
      /\ United(f).value = 0
  BY <1>1, <1>2 DEF United
<1> QED
  BY <1>3, MetricsAssumption DEF Full, OrZero

(* Of one group's rows a core statement makes that group's cell.           *)
Narrows(m, q, k, o) ==
    /\ Fits(m, q) /\ Fits(m, o) /\ q.dim # None /\ o.dim = None
    /\ Scope(m, o) = {r \in Scope(m, q) : DimensionValue(q.dim, r) = k}

LEMMA CoreOnly ==
  ASSUME Numbered(facts), NEW m, NEW q, NEW k, NEW o, Narrows(m, q, k, o), NEW sign \in {1, -1}
  PROVE  /\ DOMAIN Core(m, o, sign) = {All} /\ DOMAIN Core(m, q, sign) = GroupKeys(q, Counted(m, q))
         /\ k \in DOMAIN Core(m, q, sign) => Core(m, o, sign)[All] = Core(m, q, sign)[k]
         /\ ~m.overdue => /\ Typed(Core(m, o, sign)[All])
                          /\ k \notin DOMAIN Core(m, q, sign) => Nothing(Core(m, o, sign)[All])
<1>1. /\ Fits(m, q) /\ Fits(m, o) /\ q.dim # None /\ o.dim = None
      /\ Scope(m, o) = {r \in Scope(m, q) : DimensionValue(q.dim, r) = k}
  BY DEF Narrows
<1>2. GroupKeys(o, Counted(m, o)) = {All}
  BY <1>1 DEF GroupKeys
<1>3. DOMAIN Core(m, o, sign) = {All} /\ DOMAIN Core(m, q, sign) = GroupKeys(q, Counted(m, q))
  BY <1>1, <1>2, CoreCounts
<1>4. {r \in Scope(m, o) : DimensionValue(o.dim, r) = All} = Scope(m, o)
  BY <1>1, Ungrouped
<1>5. Core(m, o, sign)[All] = CellOf(m, Scope(m, o), sign)
  BY <1>1, <1>2, <1>4, CoreCell
<1>6. k \in DOMAIN Core(m, q, sign) => Core(m, q, sign)[k] = CellOf(m, Scope(m, o), sign)
  BY <1>1, <1>3, CoreCell
<1>7. ASSUME ~m.overdue
      PROVE  /\ Typed(Core(m, o, sign)[All])
             /\ k \notin DOMAIN Core(m, q, sign) => Nothing(Core(m, o, sign)[All])
  <2>1. m \in Governed /\ Scope(m, o) \in SUBSET DOMAIN facts
    BY <1>1, ScopeIsCounted DEF Fits
  <2>2. Typed(CellOf(m, Scope(m, o), sign)) /\ (Scope(m, o) = {} => Nothing(CellOf(m, Scope(m, o), sign)))
    BY <1>7, <2>1, PlainIsTyped
  <2>3. Counted(m, q) = Scope(m, q)
    BY <1>1, <1>7, ScopeIsCounted
  <2>4. k \notin DOMAIN Core(m, q, sign) => Scope(m, o) = {}
    BY <1>1, <1>3, <2>3 DEF GroupKeys
  <2> QED
    BY <1>5, <2>2, <2>4
<1> QED
  BY <1>3, <1>5, <1>6, <1>7

(* So do the statements made of cores; at a group none of them has, they   *)
(* tell of no row.                                                         *)
Matched(parts, k, ones) ==
    /\ IsFiniteSet(DOMAIN parts) /\ DOMAIN ones = DOMAIN parts
    /\ \A i \in DOMAIN parts :
         /\ DOMAIN ones[i] = {All} /\ Typed(ones[i][All])
         /\ k \in DOMAIN parts[i] => ones[i][All] = parts[i][k]
         /\ k \notin DOMAIN parts[i] => Nothing(ones[i][All])
Empty(c) == c.missing = 0 /\ c.known = 0 /\ c.match = 0 /\ Full(c) = 0

LEMMA NothingIsEmpty ==
  /\ \A c : Nothing(c) => Empty(c)
  /\ Empty(NoCell)
BY MetricsAssumption DEF Nothing, Empty, NoCell, Full, OrZero

LEMMA CompositeOnly ==
  ASSUME NEW parts, NEW k, NEW ones, Matched(parts, k, ones), DOMAIN parts # {}
  PROVE  /\ (\E i \in DOMAIN parts : k \in DOMAIN parts[i]) => Composite(ones)[All] = Composite(parts)[k]
         /\ (\A i \in DOMAIN parts : k \notin DOMAIN parts[i]) => Empty(Composite(ones)[All])
<1> DEFINE I == DOMAIN parts
           U == {i \in I : k \in DOMAIN parts[i]}
           f == [i \in I |-> ones[i][All]]
<1>1. /\ IsFiniteSet(I) /\ DOMAIN ones = I
      /\ \A i \in I : /\ DOMAIN ones[i] = {All} /\ Typed(ones[i][All])
                      /\ k \in DOMAIN parts[i] => ones[i][All] = parts[i][k]
                      /\ k \notin DOMAIN parts[i] => Nothing(ones[i][All])
  BY DEF Matched
<1>2. {j \in DOMAIN ones : All \in DOMAIN ones[j]} = I
  BY <1>1
<1>3. All \in UNION {DOMAIN ones[i] : i \in DOMAIN ones}
  BY <1>1
<1>4. Composite(ones)[All] = United(f)
  BY <1>2, <1>3, CompositeIs
<1>5. DOMAIN f = I /\ \A i \in I : f[i] = ones[i][All]
  OBVIOUS
<1> HIDE DEF f
<1>6. United(f) = United(Restricted(f, U))
  BY <1>1, <1>5, UnitedWithout
<1>7. ASSUME NEW i \in I, k \in DOMAIN parts[i] PROVE Composite(ones)[All] = Composite(parts)[k]
  <2>1. Composite(parts)[k] = United([j \in U |-> parts[j][k]])
    BY <1>7, CompositeIs
  <2>2. Restricted(f, U) = [j \in U |-> parts[j][k]]
    BY <1>1, <1>5 DEF Restricted
  <2> QED
    BY <1>4, <1>6, <2>1, <2>2
<1>8. ASSUME \A i \in I : k \notin DOMAIN parts[i] PROVE Empty(Composite(ones)[All])
  <2>1. U = {} /\ DOMAIN Restricted(f, U) = U
    BY <1>8 DEF Restricted
  <2> DEFINE g == Restricted(f, U)
  <2>2. DOMAIN g = {}
    BY <2>1
  <2> HIDE DEF g
  <2>3. Empty(United(g))
    BY <2>2, UnitedNothing DEF Empty
  <2> QED
    BY <1>4, <1>6, <2>3 DEF g
<1> QED
  BY <1>7, <1>8

LEMMA RatioOnly ==
  ASSUME NEW parts, NEW k, NEW ones, Matched(parts, k, ones), DOMAIN parts = {1, 2},
         NEW nonzero \in BOOLEAN
  PROVE  /\ (\E i \in DOMAIN parts : k \in DOMAIN parts[i]) =>
              Ratio(nonzero, ones)[All] = Ratio(nonzero, parts)[k]
         /\ (\A i \in DOMAIN parts : k \notin DOMAIN parts[i]) =>
              LET c == Ratio(nonzero, ones)[All]
              IN c.missing = 0 /\ c.known = 0 /\ c.match = 0 /\ c.value = None
<1> DEFINE n == ones[1][All]
           d == ones[2][All]
           a == At(parts[1], k)
           b == At(parts[2], k)
<1>1. \A i \in {1, 2} : /\ DOMAIN ones[i] = {All}
                        /\ k \in DOMAIN parts[i] => ones[i][All] = parts[i][k]
                        /\ k \notin DOMAIN parts[i] => Nothing(ones[i][All])
  BY DEF Matched
<1>2. Ratio(nonzero, ones)[All] = Quotient(nonzero, n, d, Full(n), Full(d))
  BY <1>1 DEF Ratio, At
<1>3. \A i \in {1, 2} : \/ At(parts[i], k) = ones[i][All]
                        \/ At(parts[i], k) = NoCell /\ Nothing(ones[i][All])
  BY <1>1 DEF At
<1>4. \A i \in {1, 2} : /\ ones[i][All].missing = At(parts[i], k).missing
                        /\ ones[i][All].known = At(parts[i], k).known
                        /\ ones[i][All].match = At(parts[i], k).match
                        /\ Full(ones[i][All]) = Full(At(parts[i], k))
  <2> TAKE i \in {1, 2}
  <2>1. CASE At(parts[i], k) = ones[i][All]
    BY <2>1
  <2>2. CASE At(parts[i], k) = NoCell /\ Nothing(ones[i][All])
    BY <2>2, NothingIsEmpty DEF Empty
  <2> QED
    BY <1>3, <2>1, <2>2
<1>5. ASSUME NEW i \in {1, 2}, k \in DOMAIN parts[i]
      PROVE  Ratio(nonzero, ones)[All] = Ratio(nonzero, parts)[k]
  <2>1. Ratio(nonzero, parts)[k] = Quotient(nonzero, a, b, Full(a), Full(b))
    BY <1>5 DEF Ratio
  <2>2. /\ n.missing = a.missing /\ n.known = a.known /\ n.match = a.match /\ Full(n) = Full(a)
        /\ d.missing = b.missing /\ d.known = b.known /\ d.match = b.match /\ Full(d) = Full(b)
    BY <1>4
  <2> HIDE DEF n, d, a, b
  <2>3. Quotient(nonzero, n, d, Full(n), Full(d)) = Quotient(nonzero, a, b, Full(a), Full(b))
    BY <2>2 DEF Quotient
  <2> QED
    BY <1>2, <2>1, <2>3
<1>6. ASSUME \A i \in {1, 2} : k \notin DOMAIN parts[i]
      PROVE  LET c == Ratio(nonzero, ones)[All]
             IN c.missing = 0 /\ c.known = 0 /\ c.match = 0 /\ c.value = None
  <2>1. Empty(n) /\ Empty(d)
    BY <1>1, <1>6, NothingIsEmpty
  <2> HIDE DEF n, d
  <2> DEFINE c == Quotient(nonzero, n, d, Full(n), Full(d))
  <2>2. /\ c.missing = n.missing + d.missing /\ c.known = n.known + d.known
        /\ c.match = n.match + d.match
        /\ c.value = IF /\ n.missing + d.missing = 0
                        /\ Full(d) # None /\ (IF nonzero THEN Full(d) # 0 ELSE Full(d) > 0)
                     THEN <<Full(n), Full(d)>> ELSE None
    BY DEF Quotient, NoCell
  <2> HIDE DEF c
  <2>3. c.value = None
    BY <2>1, <2>2 DEF Empty
  <2>4. c.missing = 0 /\ c.known = 0 /\ c.match = 0
    BY <2>1, <2>2 DEF Empty
  <2> QED
    BY <1>2, <2>3, <2>4 DEF c
<1> QED
  BY <1>5, <1>6

(* What a statement tells at a group it has no row for.                    *)
Unseen(q, c) == c.missing = 0 /\ c.known = 0 /\ c.match = 0 /\ SideValue(q, c) = SideValue(q, NoCell)

Lone(q, k, o) ==
    /\ Admissible(q) /\ Admissible(o) /\ q.dim # None /\ o.dim = None
    /\ o.parts = q.parts /\ o.form = q.form /\ o.nonzero = q.nonzero
    /\ \A m : Scope(m, o) = {r \in Scope(m, q) : DimensionValue(q.dim, r) = k}

LEMMA TableOnly ==
  ASSUME Numbered(facts), NEW q, NEW k, NEW o, Lone(q, k, o)
  PROVE  /\ DOMAIN Table(o) = {All}
         /\ k \in KeysOf(q) => Table(o)[All] = Table(q)[k]
         /\ k \notin KeysOf(q) /\ (\A i \in DOMAIN q.parts : ~MetricOf(q, i).overdue) =>
              Unseen(q, Table(o)[All])
<1> DEFINE I == DOMAIN q.parts
           s == [i \in I |-> IF q.form = "composite" THEN q.parts[i].sign ELSE 1]
           parts == [i \in I |-> Core(MetricOf(q, i), q, s[i])]
           ones == [i \in I |-> Core(MetricOf(q, i), o, s[i])]
<1>0. /\ Admissible(q) /\ Admissible(o) /\ q.dim # None /\ o.dim = None
      /\ o.parts = q.parts /\ o.form = q.form /\ o.nonzero = q.nonzero
      /\ \A m : Scope(m, o) = {r \in Scope(m, q) : DimensionValue(q.dim, r) = k}
  BY DEF Lone
<1>1. /\ IsFiniteSet(I) /\ 1 \in I /\ q.form \in Forms
      /\ \A i \in I : Fits(MetricOf(q, i), q) /\ q.parts[i].sign \in {1, -1}
      /\ q.form = "core" => I = {1}
      /\ q.form = "ratio" => I = {1, 2}
  BY <1>0, PartsAre
<1>2. \A i \in I : Fits(MetricOf(q, i), o)
  BY <1>0, PartsAre DEF MetricOf
<1>3. \A i \in I : s[i] \in {1, -1}
  BY <1>1
<1>4. Table(q) = Assembled(q, parts)
  BY DEF Table, MetricOf
<1>5. Table(o) = Assembled(o, ones)
  <2>1. ones = [i \in DOMAIN o.parts |->
                  Core(o.parts[i].metric, o, IF o.form = "composite" THEN o.parts[i].sign ELSE 1)]
    BY <1>0 DEF MetricOf
  <2> QED
    BY <2>1 DEF Table
<1>6. DOMAIN Table(o) = {All}
  <2>1. KeysOf(o) = {All}
    BY <1>0 DEF KeysOf
  <2> QED
    BY <1>0, <2>1, TableCounts
<1>7. ASSUME NEW i \in I
      PROVE  /\ DOMAIN ones[i] = {All} /\ DOMAIN parts[i] = PartKeys(q, i)
             /\ k \in DOMAIN parts[i] => ones[i][All] = parts[i][k]
             /\ ~MetricOf(q, i).overdue =>
                  Typed(ones[i][All]) /\ (k \notin DOMAIN parts[i] => Nothing(ones[i][All]))
  <2>1. Narrows(MetricOf(q, i), q, k, o)
    BY <1>0, <1>1, <1>2 DEF Narrows
  <2>2. parts[i] = Core(MetricOf(q, i), q, s[i]) /\ ones[i] = Core(MetricOf(q, i), o, s[i])
    OBVIOUS
  <2>3. s[i] \in {1, -1}
    BY <1>3
  <2> HIDE DEF parts, ones, s
  <2> QED
    BY <2>1, <2>2, <2>3, CoreOnly DEF PartKeys
<1>8. KeysOf(q) = UNION {PartKeys(q, i) : i \in I}
  BY <1>1, KeysAre
<1>9. DOMAIN parts = I /\ DOMAIN ones = I /\ I # {}
  BY <1>1
<1>10. \A i \in I : MetricOf(q, i).overdue => q.form = "core"
  BY <1>0 DEF Admissible, MetricOf
<1> HIDE DEF parts, ones, s, I
<1>11. CASE q.form = "core"
  <2>1. Table(q) = parts[1] /\ Table(o) = ones[1] /\ I = {1}
    BY <1>0, <1>1, <1>4, <1>5, <1>11 DEF Assembled
  <2>2. KeysOf(q) = DOMAIN parts[1]
    BY <1>7, <1>8, <2>1
  <2>3. Empty(ones[1][All]) => Unseen(q, ones[1][All])
    BY <1>11, NothingIsEmpty DEF Empty, Unseen, SideValue
  <2>4. k \notin KeysOf(q) /\ ~MetricOf(q, 1).overdue => Empty(ones[1][All])
    <3>1. DOMAIN parts[1] = KeysOf(q) /\ 1 \in I
      BY <2>1, <2>2
    <3> QED
      BY <1>7, <3>1, NothingIsEmpty
  <2> QED
    BY <1>1, <1>6, <1>7, <2>1, <2>2, <2>3, <2>4 DEF I
<1>12. CASE q.form # "core"
  <2>1. Matched(parts, k, ones)
    <3>1. \A i \in I : ~MetricOf(q, i).overdue
      BY <1>10, <1>12
    <3>2. \A i \in I : /\ DOMAIN ones[i] = {All} /\ Typed(ones[i][All])
                       /\ k \in DOMAIN parts[i] => ones[i][All] = parts[i][k]
                       /\ k \notin DOMAIN parts[i] => Nothing(ones[i][All])
      BY <1>7, <3>1
    <3> QED
      BY <1>1, <1>9, <3>2 DEF Matched
  <2>2. k \in KeysOf(q) <=> \E i \in DOMAIN parts : k \in DOMAIN parts[i]
    BY <1>7, <1>8, <1>9
  <2>3. CASE q.form = "composite"
    <3>1. Table(q) = Composite(parts) /\ Table(o) = Composite(ones)
      BY <1>0, <1>4, <1>5, <2>3 DEF Assembled
    <3>2. Empty(Table(o)[All]) => Unseen(q, Table(o)[All])
      BY <2>3, NothingIsEmpty DEF Empty, Unseen, SideValue
    <3> QED
      BY <1>6, <1>9, <2>1, <2>2, <3>1, <3>2, CompositeOnly
  <2>4. CASE q.form = "ratio"
    <3>1. Table(q) = Ratio(q.nonzero, parts) /\ Table(o) = Ratio(q.nonzero, ones)
      BY <1>0, <1>4, <1>5, <2>4 DEF Assembled
    <3>2. DOMAIN parts = {1, 2} /\ q.nonzero \in BOOLEAN
      BY <1>0, <1>1, <1>9, <2>4 DEF Admissible
    <3>3. \A c : c.value = None => SideValue(q, c) = SideValue(q, NoCell)
      BY <2>4 DEF SideValue, NoCell
    <3> QED
      BY <1>6, <2>1, <2>2, <3>1, <3>2, <3>3, RatioOnly DEF Unseen
  <2> QED
    BY <1>1, <1>12, <2>3, <2>4 DEF Forms
<1> QED
  BY <1>11, <1>12

-----------------------------------------------------------------------------
(* Asking for one group alone answers with that group's row.               *)
LEMMA RunOnly ==
  ASSUME Numbered(facts), NEW q, NEW k, Named(q, k), k \in Keys(q)
  PROVE  Run(Only(q, k))[All] = Run(q)[k]
<1> DEFINE o == Only(q, k)
<1>1. /\ o.parts = q.parts /\ o.form = q.form /\ o.compare = q.compare /\ o.nonzero = q.nonzero
      /\ o.dim = None /\ Admissible(o)
      /\ \A m : Scope(m, o) = {r \in Scope(m, q) : DimensionValue(q.dim, r) = k}
  BY NamedIsOnly DEF OnlyIs
<1>2. Admissible(q) /\ q.dim # None
  BY MetricsAssumption DEF Named, Dimensions
<1>3. /\ DOMAIN Table(o) = {All}
      /\ k \in KeysOf(q) => Table(o)[All] = Table(q)[k]
      /\ k \notin KeysOf(q) /\ (\A i \in DOMAIN q.parts : ~MetricOf(q, i).overdue) =>
           Unseen(q, Table(o)[All])
  <2> HIDE DEF o
  <2>1. Lone(q, k, o)
    BY <1>1, <1>2 DEF Lone
  <2> QED
    BY <2>1, TableOnly
<1>4. CASE q.compare = None
  <2>1. Run(o) = Table(o) /\ Run(q) = Table(q) /\ k \in KeysOf(q)
    BY <1>1, <1>4 DEF Run, Keys
  <2> QED
    BY <1>3, <2>1
<1>5. CASE q.compare # None
  <2> DEFINE p == Prior(q)
             po == Prior(o)
  <2>1. po = Only(p, k) /\ Named(p, k) /\ Admissible(p) /\ p.dim = q.dim /\ p.form = q.form
    BY <1>2, <1>5, NamedIsOnly, PriorAdmissible DEF Named
  <2>2. p.parts = q.parts
    BY <1>2, <1>5, PriorAdmissible
  <2>3. /\ po.parts = p.parts /\ po.form = p.form /\ po.nonzero = p.nonzero
        /\ po.dim = None /\ Admissible(po)
        /\ \A m : Scope(m, po) = {r \in Scope(m, p) : DimensionValue(p.dim, r) = k}
    <3> HIDE DEF p, po, o
    <3> QED
      BY <2>1, NamedIsOnly DEF OnlyIs
  <2>4. \A i \in DOMAIN q.parts : ~MetricOf(q, i).overdue /\ ~MetricOf(p, i).overdue
    BY <1>2, <1>5, <2>2 DEF Admissible, MetricOf
  <2>5. Run(o) = OnEitherKeys(o, Table(o), Table(po)) /\ Run(q) = OnEitherKeys(q, Table(q), Table(p))
    BY <1>1, <1>5 DEF Run, Comparison, Current
  <2>6. DOMAIN Table(q) = KeysOf(q) /\ DOMAIN Table(p) = KeysOf(p) /\ Keys(q) = KeysOf(q) \cup KeysOf(p)
    BY <1>2, <1>5, <2>1, TableCounts DEF Keys, Current
  <2> HIDE DEF p, po, o
  <2>7. /\ DOMAIN Table(po) = {All}
        /\ k \in KeysOf(p) => Table(po)[All] = Table(p)[k]
        /\ k \notin KeysOf(p) => Unseen(p, Table(po)[All])
    <3>1. Lone(p, k, po)
      BY <1>2, <2>1, <2>3 DEF Lone
    <3>2. \A i \in DOMAIN p.parts : ~MetricOf(p, i).overdue
      BY <2>2, <2>4
    <3> QED
      BY <3>1, <3>2, TableOnly
  <2> DEFINE a == At(Table(o), All)
             b == At(Table(po), All)
             c == At(Table(q), k)
             d == At(Table(p), k)
  <2> HIDE DEF a, b, c, d
  <2>8. a = Table(o)[All] /\ b = Table(po)[All]
    BY <1>3, <2>7 DEF At, a, b
  <2>9. a = c \/ (Unseen(q, a) /\ c = NoCell)
    <3>1. CASE k \in KeysOf(q)
      <4>1. c = Table(q)[k]
        BY <2>6, <3>1 DEF At, c
      <4> QED
        BY <1>3, <2>8, <3>1, <4>1
    <3>2. CASE k \notin KeysOf(q)
      <4>1. c = NoCell
        BY <2>6, <3>2 DEF At, c
      <4> QED
        BY <1>3, <2>4, <2>8, <3>2, <4>1
    <3> QED
      BY <3>1, <3>2
  <2>10. b = d \/ (Unseen(p, b) /\ d = NoCell)
    <3>1. CASE k \in KeysOf(p)
      <4>1. d = Table(p)[k]
        BY <2>6, <3>1 DEF At, d
      <4> QED
        BY <2>7, <2>8, <3>1, <4>1
    <3>2. CASE k \notin KeysOf(p)
      <4>1. d = NoCell
        BY <2>6, <3>2 DEF At, d
      <4> QED
        BY <2>7, <2>8, <3>2, <4>1
    <3> QED
      BY <3>1, <3>2
  <2>11. \A x : SideValue(o, x) = SideValue(q, x) /\ SideValue(p, x) = SideValue(q, x)
    BY <1>1, <2>1 DEF SideValue
  <2>12. /\ a.missing = c.missing /\ a.known = c.known /\ a.match = c.match
         /\ SideValue(o, a) = SideValue(q, c)
    BY <2>9, <2>11 DEF Unseen, NoCell
  <2>13. /\ b.missing = d.missing /\ b.known = d.known /\ b.match = d.match
         /\ SideValue(o, b) = SideValue(q, d)
    BY <2>10, <2>11 DEF Unseen, NoCell
  <2>14. Run(o)[All] = Change(o, a, b, SideValue(o, a), SideValue(o, b))
    BY <1>3, <2>5 DEF OnEitherKeys, SideBySide, a, b
  <2>15. Run(q)[k] = Change(q, c, d, SideValue(q, c), SideValue(q, d))
    BY <2>5, <2>6 DEF OnEitherKeys, SideBySide, c, d
  <2>16. Change(o, a, b, SideValue(q, c), SideValue(q, d)) = Change(q, c, d, SideValue(q, c), SideValue(q, d))
    BY <1>1, <2>12, <2>13 DEF Change
  <2> QED
    BY <2>12, <2>13, <2>14, <2>15, <2>16 DEF o
<1> QED
  BY <1>4, <1>5

(* The groups of an answer are values its rows have, so a filter can name  *)
(* each of them.                                                           *)
LEMMA KeysNamed ==
  ASSUME Numbered(facts), None \notin Filters(facts, customers), NEW q, Admissible(q),
         q.filter = None, q.dim \in {"unit", "region", "currency"}, NEW k \in Keys(q)
  PROVE  Named(q, k)
<1>1. q.dim # None /\ q.dim \in Dimensions
  BY MetricsAssumption DEF Dimensions
<1>2. PICK s \in Sides(q) : k \in KeysOf(s) /\ s.dim = q.dim
  <2>1. CASE q.compare = None
    BY <2>1 DEF Sides, Keys
  <2>2. CASE q.compare # None
    BY <2>2, PriorAdmissible DEF Sides, Keys, Current
  <2> QED
    BY <2>1, <2>2
<1>3. PICK i \in DOMAIN s.parts : k \in {DimensionValue(s.dim, r) : r \in Counted(s.parts[i].metric, s)}
  BY <1>1, <1>2 DEF KeysOf
<1>4. PICK r \in DOMAIN facts : k = DimensionValue(q.dim, r)
  BY <1>2, <1>3, CountedAreRows
<1>8. "m" \in GroupValues(facts, customers) /\ None \in GroupValues(facts, customers)
  <2> DEFINE A == UNION {{facts[x].unit, facts[x].cur} : x \in DOMAIN facts}
             C == {customers[facts[x].cust].region :
                     x \in {y \in DOMAIN facts : facts[y].cust # None /\ customers[facts[y].cust] # None}}
  <2>1. GroupValues(facts, customers) = A \cup {"m", None} \cup C
    BY DEF GroupValues
  <2> HIDE DEF A, C
  <2> QED
    BY <2>1
<1>9. facts[r].unit \in GroupValues(facts, customers) /\ facts[r].cur \in GroupValues(facts, customers)
  <2> DEFINE values == {{facts[x].unit, facts[x].cur} : x \in DOMAIN facts}
  <2>1. {facts[r].unit, facts[r].cur} \in values
    BY <1>4
  <2>2. UNION values \subseteq GroupValues(facts, customers)
    BY DEF GroupValues
  <2> HIDE DEF values
  <2> QED
    BY <2>1, <2>2
<1>5. CASE q.dim = "unit"
  <2>1. k = Normal(facts[r].unit)
    BY <1>1, <1>4, <1>5 DEF DimensionValue
  <2>2. k = "m" \/ k = facts[r].unit
    BY <2>1 DEF Normal
  <2>3. k \in GroupValues(facts, customers)
    BY <1>8, <1>9, <2>2
  <2>4. Normal(k) = k
    BY <2>1 DEF Normal
  <2> QED
    BY <1>1, <1>5, <2>3, <2>4 DEF Filters, Named
<1>6. CASE q.dim = "currency"
  <2>1. k = facts[r].cur
    BY <1>1, <1>4, <1>6 DEF DimensionValue
  <2>2. k \in GroupValues(facts, customers)
    BY <1>9, <2>1
  <2> QED
    BY <1>1, <1>6, <2>2 DEF Filters, Named
<1>7. CASE q.dim = "region"
  <2>1. k = Joined(r).region
    BY <1>1, <1>4, <1>7 DEF DimensionValue
  <2>2. \/ k = None
        \/ (facts[r].cust # None /\ customers[facts[r].cust] # None /\ k = customers[facts[r].cust].region)
    BY <2>1 DEF Joined
  <2>3. k \in GroupValues(facts, customers)
    <3> DEFINE rows == {y \in DOMAIN facts : facts[y].cust # None /\ customers[facts[y].cust] # None}
               regions == {customers[facts[x].cust].region : x \in rows}
    <3>1. regions \subseteq GroupValues(facts, customers)
      BY DEF GroupValues
    <3>2. k = None \/ k \in regions
      <4>1. k = None \/ (r \in rows /\ k = customers[facts[r].cust].region)
        BY <1>4, <2>2
      <4> HIDE DEF rows
      <4> QED
        BY <4>1
    <3> HIDE DEF regions
    <3> QED
      BY <1>8, <3>1, <3>2
  <2> QED
    BY <1>1, <1>7, <2>3 DEF Filters, Named
<1> QED
  BY <1>5, <1>6, <1>7

LEMMA PartsDoAgree == AnswersInv => PartsAgree
<1> DEFINE whole == Run([question EXCEPT !.dim = None])[All]
           alone == \A k \in DOMAIN answer \ {None} :
                      Run([question EXCEPT !.dim = None,
                           !.filter = [dim |-> question.dim, values |-> {k}]])[All] = answer[k]
<1>1. ASSUME AnswersInv, Answered, NEW q, q = question
      PROVE  /\ AddsUp(q, Run(Whole(q))[All])
             /\ q.filter = None /\ q.dim \in {"unit", "region", "currency"} =>
                  \A k \in DOMAIN answer \ {None} : Run(Only(q, k))[All] = answer[k]
  <2>1. WellPut(q) /\ AnswerOf(q) /\ q.form \in Forms /\ PlanRefusal(q) = None
    BY <1>1 DEF AnswersInv, Answered, Allowed
  <2>2. /\ Admissible(q) /\ Numbered(facts) /\ None \notin Filters(facts, customers)
        /\ answer = Run(q)
    BY <2>1 DEF WellPut, AnswerOf, Posed
  <2>3. AddsUp(q, Run(Whole(q))[All])
    BY <2>2, GroupsAddUp
  <2>4. DOMAIN answer = Keys(q)
    BY <2>2, RunCounts
  <2>5. ASSUME q.filter = None, q.dim \in {"unit", "region", "currency"}, NEW k \in DOMAIN answer
        PROVE  Run(Only(q, k))[All] = answer[k]
    <3>1. k \in Keys(q) /\ Named(q, k)
      BY <2>2, <2>4, <2>5, KeysNamed
    <3> QED
      BY <2>2, <3>1, RunOnly
  <2> QED
    BY <2>3, <2>5
<1>2. AnswersInv /\ Answered =>
        /\ AddsUp(question, whole)
        /\ question.filter = None /\ question.dim \in {"unit", "region", "currency"} => alone
  BY <1>1 DEF Whole, Only
<1>3. PartsAgree <=> (Answered =>
        /\ AddsUp(question, whole)
        /\ question.filter = None /\ question.dim \in {"unit", "region", "currency"} => alone)
  BY DEF PartsAgree
<1> QED
  BY <1>2, <1>3

(* The groups of an answer make up the same question asked of the whole,   *)
(* and asking it of one group alone gives that group, for any tables,      *)
(* metrics and dimensions: no join and no missing key drops or doubles a   *)
(* row.                                                                    *)
THEOREM PartsMakeTheWhole == AnswersSpec => []PartsAgree
<1> QED
  BY AnswersInvariance, PartsDoAgree, PTL
=============================================================================
