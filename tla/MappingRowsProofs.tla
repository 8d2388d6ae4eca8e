------------------------- MODULE MappingRowsProofs -------------------------
(***************************************************************************)
(* What holds of the operators of MappingRows, for any titles, URLs,       *)
(* tables and sheets.                                                      *)
(*                                                                         *)
(* First of lists that are ordered, chosen from and put together; then     *)
(* that tables stay tables and keep what they serve: through the methods   *)
(* of Table.py, the automation's entry, the rows of the page and the way   *)
(* back from them, and the three ways of an import.  Last, which tables    *)
(* the page can be read back as, and that every method keeps them so.      *)
(***************************************************************************)
EXTENDS MappingRows, FiniteSetTheorems, SequenceTheorems, WellFoundedInduction, TLAPS

(***************************************************************************)
(* Orders and lists.                                                       *)
(***************************************************************************)
\* A strict total order on a set.
Orders(order, set) ==
  /\ \A x \in set : <<x, x>> \notin order
  /\ \A x, y, z \in set : <<x, y>> \in order /\ <<y, z>> \in order => <<x, z>> \in order
  /\ \A x, y \in set : x = y \/ <<x, y>> \in order \/ <<y, x>> \in order

\* How many elements of the set come before one of them.
Before(set, order, x) == {y \in set : <<y, x>> \in order}
Rank(set, order, x) == Cardinality(Before(set, order, x))

\* The ranks of a finite set are 0 .. size - 1, and each is taken once.
LEMMA RankIs ==
  ASSUME NEW set, IsFiniteSet(set), NEW order, Orders(order, set)
  PROVE  /\ Cardinality(set) \in Nat
         /\ \A x \in set : Rank(set, order, x) \in 0 .. (Cardinality(set) - 1)
         /\ \A x, y \in set : <<x, y>> \in order => Rank(set, order, x) < Rank(set, order, y)
         /\ \A n \in 0 .. (Cardinality(set) - 1) : \E x \in set : Rank(set, order, x) = n
<1>0. Cardinality(set) \in Nat
  BY FS_CardinalityType
<1>1. ASSUME NEW x \in set
      PROVE  /\ Rank(set, order, x) \in 0 .. (Cardinality(set) - 1)
             /\ IsFiniteSet(Before(set, order, x))
  <2>1. Before(set, order, x) \in SUBSET set /\ x \notin Before(set, order, x)
    BY DEF Before, Orders
  <2>2. /\ IsFiniteSet(Before(set, order, x))
        /\ Rank(set, order, x) <= Cardinality(set)
        /\ Cardinality(set) = Rank(set, order, x) => set = Before(set, order, x)
    BY <2>1, FS_Subset DEF Rank
  <2>3. Rank(set, order, x) \in Nat
    BY <2>2, FS_CardinalityType DEF Rank
  <2> QED BY <1>0, <2>1, <2>2, <2>3
<1>2. ASSUME NEW x \in set, NEW y \in set, <<x, y>> \in order
      PROVE  Rank(set, order, x) < Rank(set, order, y)
  <2>1. /\ Before(set, order, x) \in SUBSET Before(set, order, y)
        /\ x \in Before(set, order, y) /\ x \notin Before(set, order, x)
    BY <1>2 DEF Before, Orders
  <2>2. IsFiniteSet(Before(set, order, y))
    BY <1>1
  <2>3. /\ Rank(set, order, x) <= Rank(set, order, y)
        /\ Rank(set, order, x) # Rank(set, order, y)
    BY <2>1, <2>2, FS_Subset DEF Rank
  <2> QED BY <1>0, <1>1, <2>3
<1>3. ASSUME NEW n \in 0 .. (Cardinality(set) - 1) PROVE \E x \in set : Rank(set, order, x) = n
  <2> DEFINE f == [x \in set |-> Rank(set, order, x)]
             places == 0 .. (Cardinality(set) - 1)
  <2>1. f \in [set -> places]
    BY <1>1
  <2>2. ASSUME NEW x \in set, NEW y \in set, f[x] = f[y] PROVE x = y
    <3>1. /\ Rank(set, order, x) = Rank(set, order, y)
          /\ Rank(set, order, x) \in Int
      BY <1>1, <2>2
    <3>2. <<x, y>> \notin order /\ <<y, x>> \notin order
      BY <1>2, <3>1
    <3> QED BY <3>2 DEF Orders
  <2>3. f \in Injection(set, places)
    BY <2>1, <2>2 DEF Injection, IsInjective
  <2>4. IsFiniteSet(places) /\ Cardinality(places) = Cardinality(set)
    BY <1>0, FS_Interval
  <2>5. f \in Surjection(set, places)
    BY <2>3, <2>4, FS_Injection
  <2> QED BY <2>5 DEF Surjection
<1> QED BY <1>0, <1>1, <1>2, <1>3

\* InOrder lists each element of the set once, in the order given.
LEMMA InOrderIs ==
  ASSUME NEW set, IsFiniteSet(set), NEW order, Orders(order, set)
  PROVE  /\ InOrder(set, order) \in [1 .. Cardinality(set) -> set]
         /\ Cardinality(set) \in Nat
         /\ \A x \in set : \E n \in 1 .. Cardinality(set) : InOrder(set, order)[n] = x
         /\ \A n, m \in 1 .. Cardinality(set) :
              n < m => <<InOrder(set, order)[n], InOrder(set, order)[m]>> \in order
<1> DEFINE f == InOrder(set, order)
           places == 1 .. Cardinality(set)
<1>0. Cardinality(set) \in Nat
  BY RankIs
<1>1. ASSUME NEW n \in places PROVE f[n] \in set /\ Rank(set, order, f[n]) = n - 1
  <2>1. \E x \in set : Rank(set, order, x) = n - 1
    BY <1>0, RankIs
  <2>2. f[n] = CHOOSE x \in set : Rank(set, order, x) = n - 1
    BY DEF InOrder, Rank, Before
  <2> HIDE DEF f
  <2> QED BY <2>1, <2>2
<1>2. f \in [places -> set]
  BY <1>1 DEF InOrder
<1>3. ASSUME NEW x \in set, NEW y \in set, Rank(set, order, x) = Rank(set, order, y)
      PROVE  x = y
  <2>1. Rank(set, order, x) \in 0 .. (Cardinality(set) - 1)
    BY RankIs
  <2>2. <<x, y>> \notin order /\ <<y, x>> \notin order
    BY <1>3, <2>1, RankIs
  <2> QED BY <2>2 DEF Orders
<1>4. ASSUME NEW x \in set PROVE \E n \in places : f[n] = x
  <2>1. Rank(set, order, x) \in 0 .. (Cardinality(set) - 1)
    BY RankIs
  <2>2. Rank(set, order, x) + 1 \in places
    BY <1>0, <2>1
  <2> HIDE DEF f
  <2> QED BY <1>0, <1>1, <1>3, <2>1, <2>2
<1>5. ASSUME NEW n \in places, NEW m \in places, n < m PROVE <<f[n], f[m]>> \in order
  <2> HIDE DEF f
  <2>1. f[n] \in set /\ f[m] \in set /\ Rank(set, order, f[n]) < Rank(set, order, f[m])
    BY <1>0, <1>1, <1>5
  <2>2. f[n] # f[m] /\ <<f[m], f[n]>> \notin order
    BY <1>0, <1>1, <1>5, <2>1, RankIs
  <2> QED BY <2>1, <2>2 DEF Orders
<1> QED BY <1>0, <1>2, <1>4, <1>5

\* The only list of a set in an order is the one that follows it.
LEMMA ListedIs ==
  ASSUME NEW set, NEW order, Orders(order, set), NEW size \in Nat,
         NEW g \in [1 .. size -> set], \A x \in set : \E n \in 1 .. size : g[n] = x,
         \A n, m \in 1 .. size : n < m => <<g[n], g[m]>> \in order
  PROVE  InOrder(set, order) = g
<1> DEFINE listed == InOrder(set, order)
<1>1. ASSUME NEW n \in 1 .. size, NEW m \in 1 .. size, g[n] = g[m] PROVE n = m
  <2>1. ~(n < m) /\ ~(m < n)
    BY <1>1 DEF Orders
  <2> QED BY <2>1
<1>2. ASSUME NEW k \in 0 .. size
      PROVE  LET first == {g[m] : m \in 1 .. k}
             IN  IsFiniteSet(first) /\ Cardinality(first) = k
  <2> DEFINE first == {g[m] : m \in 1 .. k}
             h == [m \in 1 .. k |-> g[m]]
  <2>1. h \in Injection(1 .. k, first)
    <3>1. h \in [1 .. k -> first]
      OBVIOUS
    <3>2. \A n, m \in 1 .. k : h[n] = h[m] => n = m
      BY <1>1
    <3> QED BY <3>1, <3>2 DEF Injection, IsInjective
  <2>2. h \in Surjection(1 .. k, first)
    <3>1. \A x \in first : \E m \in 1 .. k : h[m] = x
      OBVIOUS
    <3> QED BY <2>1, <3>1 DEF Surjection, Injection
  <2>3. ExistsBijection(1 .. k, first)
    BY <2>1, <2>2 DEF ExistsBijection, Bijection
  <2>4. IsFiniteSet(1 .. k) /\ Cardinality(1 .. k) = k
    BY FS_Interval
  <2> QED BY <2>3, <2>4, FS_Bijection
<1>3. {g[m] : m \in 1 .. size} = set
  OBVIOUS
<1>4. IsFiniteSet(set) /\ Cardinality(set) = size
  BY <1>2, <1>3
<1>5. ASSUME NEW n \in 1 .. size PROVE Rank(set, order, g[n]) = n - 1
  <2>1. Before(set, order, g[n]) = {g[m] : m \in 1 .. (n - 1)}
    <3>1. ASSUME NEW y \in set, <<y, g[n]>> \in order PROVE \E m \in 1 .. (n - 1) : y = g[m]
      <4>1. PICK m \in 1 .. size : g[m] = y
        OBVIOUS
      <4>2. ~(n < m) /\ n # m
        <5>1. <<y, y>> \notin order /\ <<g[n], g[n]>> \notin order
          BY DEF Orders
        <5>2. <<g[n], y>> \notin order
          BY <3>1, <5>1 DEF Orders
        <5> QED BY <3>1, <4>1, <5>1, <5>2
      <4> QED BY <4>1, <4>2
    <3>2. \A m \in 1 .. (n - 1) : g[m] \in set /\ <<g[m], g[n]>> \in order
      OBVIOUS
    <3> QED BY <3>1, <3>2 DEF Before
  <2>2. n - 1 \in 0 .. size
    OBVIOUS
  <2> QED BY <1>2, <2>1, <2>2 DEF Rank
<1>6. ASSUME NEW n \in 1 .. size PROVE listed[n] = g[n]
  <2>1. listed[n] = CHOOSE x \in set : Rank(set, order, x) = n - 1
    BY <1>4 DEF InOrder, Rank, Before
  <2>2. ASSUME NEW x \in set, Rank(set, order, x) = n - 1 PROVE x = g[n]
    <3>1. PICK m \in 1 .. size : g[m] = x
      OBVIOUS
    <3>2. m - 1 = n - 1
      BY <1>5, <2>2, <3>1
    <3> QED BY <3>1, <3>2
  <2> HIDE DEF listed
  <2> QED BY <1>5, <2>1, <2>2
<1>7. listed \in [1 .. size -> set]
  BY <1>4, InOrderIs
<1> HIDE DEF listed
<1>8. listed = g
  BY <1>6, <1>7
<1> QED BY <1>8 DEF listed

\* < as a set of pairs.
Less == {ss \in Nat \X Nat : ss[1] < ss[2]}

\* Every set of numbers that goes down ends.
LEMMA LessIsWellFounded == IsWellFoundedOn(Less, Nat)
<1>1. OpToRel(<, Nat) = Less
  BY DEF OpToRel, Less
<1> QED BY <1>1, NatLessThanWellFounded

\* Lowest is the least number of a set that has one.
LEMMA LowestIs ==
  ASSUME NEW set \in SUBSET Nat, set # {}
  PROVE  Lowest(set) \in set /\ \A j \in set : Lowest(set) <= j
<1>1. PICK x \in set : \A y \in set : <<y, x>> \notin Less
  BY LessIsWellFounded, WFMin
<1>2. ASSUME NEW y \in set PROVE x <= y
  <2>1. x \in Nat /\ y \in Nat /\ <<y, x>> \notin Less
    BY <1>1
  <2>2. ~(y < x)
    BY <2>1 DEF Less
  <2> QED BY <2>1, <2>2
<1> QED BY <1>2 DEF Lowest

\* Induction over the numbers, for a set instead of a predicate.
LEMMA SetInduction ==
  ASSUME NEW set \in SUBSET Nat, 0 \in set, \A n \in set : n + 1 \in set
  PROVE  set = Nat
<1> SUFFICES ASSUME Nat \ set # {} PROVE FALSE
  OBVIOUS
<1> DEFINE x == Lowest(Nat \ set)
<1>1. x \in Nat \ set /\ \A y \in Nat \ set : x <= y
  BY LowestIs
<1> HIDE DEF x
<1>2. x - 1 \in Nat /\ x - 1 < x /\ (x - 1) + 1 = x
  BY <1>1
<1>3. x - 1 \in set
  BY <1>1, <1>2
<1> QED BY <1>1, <1>2, <1>3

\* Ascending lists the numbers of a set from the least.
LEMMA AscendingIs ==
  ASSUME NEW set \in SUBSET Nat, IsFiniteSet(set)
  PROVE  /\ Ascending(set) \in Seq(set)
         /\ Ascending(set) \in [1 .. Cardinality(set) -> set]
         /\ \A x \in set : \E n \in DOMAIN Ascending(set) : Ascending(set)[n] = x
         /\ \A n, m \in DOMAIN Ascending(set) :
              n < m => Ascending(set)[n] < Ascending(set)[m]
<1> DEFINE order == {p \in set \X set : p[1] < p[2]}
<1>1. Orders(order, set)
  BY DEF Orders
<1>2. \A x, y : <<x, y>> \in order => x < y
  OBVIOUS
<1>3. Ascending(set) = InOrder(set, order)
  BY DEF Ascending
<1> HIDE DEF order
<1>4. /\ Ascending(set) \in [1 .. Cardinality(set) -> set]
      /\ Cardinality(set) \in Nat
      /\ \A x \in set : \E n \in 1 .. Cardinality(set) : Ascending(set)[n] = x
      /\ \A n, m \in 1 .. Cardinality(set) :
           n < m => <<Ascending(set)[n], Ascending(set)[m]>> \in order
  BY <1>1, <1>3, InOrderIs
<1>5. DOMAIN Ascending(set) = 1 .. Cardinality(set)
  BY <1>4
<1>6. Ascending(set) \in Seq(set)
  BY <1>4, IsASeq
<1> QED BY <1>2, <1>4, <1>5, <1>6

\* The numbers from 1 are listed as they are.
LEMMA AscendingAll ==
  ASSUME NEW size \in Nat
  PROVE  Ascending(1 .. size) = [n \in 1 .. size |-> n]
<1> DEFINE set == 1 .. size
           order == {p \in set \X set : p[1] < p[2]}
           g == [n \in set |-> n]
<1>1. \A n, m \in set : <<n, m>> \in order <=> n < m
  OBVIOUS
<1>2. \A n \in set : n \in Nat
  OBVIOUS
<1>3. Ascending(set) = InOrder(set, order)
  BY DEF Ascending
<1>4. /\ g \in [1 .. size -> set] /\ \A x \in set : \E n \in 1 .. size : g[n] = x
      /\ \A n \in set : g[n] = n
  OBVIOUS
<1> HIDE DEF order, g
<1>5. Orders(order, set)
  BY <1>1, <1>2 DEF Orders
<1>6. InOrder(set, order) = g
  BY <1>1, <1>4, <1>5, ListedIs
<1> QED BY <1>3, <1>6 DEF g

\* What holds of 0, and of a number when it holds of the one before, up to a bound.
LEMMA Upto ==
  ASSUME NEW size \in Nat, NEW set, 0 \in set,
         \A n \in 1 .. size : n - 1 \in set => n \in set
  PROVE  0 .. size \subseteq set
<1> DEFINE reached == {n \in Nat : n <= size => n \in set}
<1>1. 0 \in reached
  OBVIOUS
<1>2. ASSUME NEW n \in reached PROVE n + 1 \in reached
  <2>1. n \in Nat /\ (n <= size => n \in set)
    OBVIOUS
  <2>2. ASSUME n + 1 <= size PROVE n + 1 \in set
    <3>1. n + 1 \in 1 .. size /\ (n + 1) - 1 = n /\ n <= size
      BY <2>1, <2>2
    <3> QED BY <2>1, <3>1
  <2> QED BY <2>1, <2>2
<1>3. reached = Nat
  <2>1. reached \in SUBSET Nat
    OBVIOUS
  <2> HIDE DEF reached
  <2> QED BY <1>1, <1>2, <2>1, SetInduction
<1> QED BY <1>3

\* A function that goes on from each value to the next.
Runs(f, first, size, step) ==
  f[0] = first /\ \A n \in 1 .. size : f[n] = step[<<f[n - 1], n>>]

\* There is one for every first value and every step.
LEMMA Recursion ==
  ASSUME NEW S, NEW first \in S, NEW size \in Nat, NEW step \in [S \X (1 .. size) -> S]
  PROVE  \E f \in [0 .. size -> S] : Runs(f, first, size, step)
<1> DEFINE Follows(f, n) == Runs(f, first, n, step)
           reached == {n \in 0 .. size : \E f \in [0 .. n -> S] : Follows(f, n)}
<1>1. 0 \in reached
  <2> DEFINE f == [k \in 0 .. 0 |-> first]
  <2>1. f \in [0 .. 0 -> S] /\ Follows(f, 0)
    BY DEF Runs
  <2> HIDE DEF Follows
  <2> QED BY <2>1
<1>2. ASSUME NEW n \in 1 .. size, n - 1 \in reached PROVE n \in reached
  <2>1. PICK f \in [0 .. (n - 1) -> S] : Follows(f, n - 1)
    <3> HIDE DEF Follows
    <3> QED BY <1>2
  <2> DEFINE g == [k \in 0 .. n |-> IF k = n THEN step[<<f[n - 1], n>>] ELSE f[k]]
  <2>2. n - 1 \in 0 .. (n - 1) /\ n \in 0 .. n /\ 0 \in 0 .. (n - 1) /\ 0 # n
    OBVIOUS
  <2>3. step[<<f[n - 1], n>>] \in S
    <3>1. <<f[n - 1], n>> \in S \X (1 .. size)
      BY <2>1, <2>2
    <3> QED BY <3>1
  <2>4. g \in [0 .. n -> S]
    <3>1. ASSUME NEW k \in 0 .. n, k # n PROVE f[k] \in S
      <4>1. k \in 0 .. (n - 1)
        BY <3>1
      <4> QED BY <2>1, <4>1
    <3> QED BY <2>3, <3>1
  <2>5. ASSUME NEW k \in 1 .. n PROVE g[k] = step[<<g[k - 1], k>>]
    <3>1. CASE k = n
      <4>1. g[k - 1] = f[n - 1] /\ g[k] = step[<<f[n - 1], n>>]
        BY <2>2, <3>1
      <4> HIDE DEF g
      <4> QED BY <3>1, <4>1
    <3>2. CASE k # n
      <4>1. k \in 1 .. (n - 1) /\ g[k] = f[k] /\ g[k - 1] = f[k - 1]
        BY <3>2
      <4>2. f[k] = step[<<f[k - 1], k>>]
        BY <2>1, <4>1 DEF Runs
      <4> HIDE DEF g
      <4> QED BY <4>1, <4>2
    <3> QED BY <3>1, <3>2
  <2>6. g[0] = first
    BY <2>1, <2>2 DEF Runs
  <2>7. Follows(g, n)
    <3> HIDE DEF g
    <3> QED BY <2>5, <2>6 DEF Runs
  <2> HIDE DEF Follows, g
  <2>8. n \in 0 .. size
    OBVIOUS
  <2> QED BY <2>4, <2>7, <2>8
<1>3. size \in reached
  <2> HIDE DEF reached
  <2>1. 0 .. size \subseteq reached
    BY <1>1, <1>2, Upto
  <2> QED BY <2>1
<1> QED BY <1>3

\* A function that goes on like this as long as its values are in a set.
RunsWithin(S, f, first, size, step) ==
  /\ f = [n \in 0 .. size |-> f[n]] /\ f[0] = first
  /\ \A n \in 1 .. size : f[n - 1] \in S => f[n] = step[<<f[n - 1], n>>]

\* They never leave it.
LEMMA Followed ==
  ASSUME NEW S, NEW first \in S, NEW size \in Nat, NEW step \in [S \X (1 .. size) -> S],
         NEW f, RunsWithin(S, f, first, size, step)
  PROVE  f \in [0 .. size -> S] /\ Runs(f, first, size, step)
<1> DEFINE set == {n \in 0 .. size : f[n] \in S}
<1>1. 0 \in set
  BY DEF RunsWithin
<1>2. ASSUME NEW n \in 1 .. size, n - 1 \in set PROVE n \in set
  <2>1. f[n - 1] \in S /\ n \in 0 .. size
    BY <1>2
  <2>2. f[n] = step[<<f[n - 1], n>>] /\ <<f[n - 1], n>> \in S \X (1 .. size)
    BY <2>1 DEF RunsWithin
  <2> QED BY <2>1, <2>2
<1>3. \A n \in 0 .. size : f[n] \in S
  <2> HIDE DEF set
  <2>1. 0 .. size \subseteq set
    BY <1>1, <1>2, Upto
  <2> QED BY <2>1 DEF set
<1>4. \A n \in 1 .. size : n - 1 \in 0 .. size
  OBVIOUS
<1> QED BY <1>3, <1>4 DEF Runs, RunsWithin

\* The list Chosen builds, position by position.
Chooses(f, list, positions) ==
  f = [n \in 0 .. Len(list) |->
         IF n = 0 THEN <<>>
         ELSE IF n \in positions THEN Append(f[n - 1], list[n]) ELSE f[n - 1]]
LEMMA ChosenBy ==
  ASSUME NEW X, NEW list \in Seq(X), NEW positions
  PROVE  \E f \in [0 .. Len(list) -> Seq(X)] :
           /\ Chosen(list, positions) = f[Len(list)] /\ f[0] = <<>>
           /\ \A n \in 1 .. Len(list) :
                f[n] = IF n \in positions THEN Append(f[n - 1], list[n]) ELSE f[n - 1]
<1> DEFINE size == Len(list)
           S == Seq(X)
           Next(s, n) == IF n \in positions THEN Append(s, list[n]) ELSE s
           step == [p \in S \X (1 .. size) |-> Next(p[1], p[2])]
           from == CHOOSE f : Chooses(f, list, positions)
           none == <<>>
<1>1. size \in Nat /\ \A n \in 1 .. size : list[n] \in X
  OBVIOUS
<1>2. none \in S
  OBVIOUS
<1>3. ASSUME NEW s \in S, NEW n \in 1 .. size PROVE Next(s, n) \in S
  BY <1>1, AppendProperties
<1>4. Chosen(list, positions) = from[size]
  BY DEF Chosen, Chooses
<1> HIDE DEF S, Next, size, none
<1>5. step \in [S \X (1 .. size) -> S]
  BY <1>3
<1>6. \A s \in S, n \in 1 .. size : step[<<s, n>>] = Next(s, n)
  OBVIOUS
<1> HIDE DEF step
<1>7. PICK f \in [0 .. size -> S] : Runs(f, none, size, step)
  BY <1>1, <1>2, <1>5, Recursion
<1>8. \A n \in 1 .. size : f[n] = Next(f[n - 1], n)
  <2>1. ASSUME NEW n \in 1 .. size PROVE f[n - 1] \in S
    <3>1. n - 1 \in 0 .. size
      BY <1>1
    <3> QED BY <1>7, <3>1
  <2> QED BY <1>6, <1>7, <2>1 DEF Runs
<1>9. Chooses(f, list, positions)
  <2>1. ASSUME NEW n \in 0 .. size
        PROVE  f[n] = IF n = 0 THEN none ELSE Next(f[n - 1], n)
    <3>1. n = 0 \/ n \in 1 .. size
      BY <1>1
    <3> QED BY <1>7, <1>8, <3>1 DEF Runs
  <2>2. f = [n \in 0 .. size |-> f[n]]
    BY <1>7
  <2> QED BY <2>1, <2>2 DEF Chooses, Next, size, none
<1>10. Chooses(from, list, positions)
  BY <1>9
<1> HIDE DEF from
<1>11. /\ from[0] = none /\ from = [n \in 0 .. size |-> from[n]]
       /\ \A n \in 1 .. size : from[n] = Next(from[n - 1], n)
  <2>1. 0 \in 0 .. size /\ \A n \in 1 .. size : n \in 0 .. size /\ n # 0
    BY <1>1
  <2>2. \A n \in 0 .. size : from[n] = IF n = 0 THEN none ELSE Next(from[n - 1], n)
    BY <1>10 DEF Chooses, Next, size, none
  <2>3. from = [n \in 0 .. size |-> from[n]]
    BY <1>10 DEF Chooses, size
  <2> QED BY <2>1, <2>2, <2>3
<1>12. from \in [0 .. size -> S]
  <2>1. \A n \in 1 .. size : from[n - 1] \in S => from[n] = step[<<from[n - 1], n>>]
    BY <1>6, <1>11
  <2>2. RunsWithin(S, from, none, size, step)
    BY <1>11, <2>1 DEF RunsWithin
  <2> QED BY <1>1, <1>2, <1>5, <2>2, Followed
<1> QED BY <1>4, <1>11, <1>12 DEF S, Next, size, none

\* What a list with one element more holds.
LEMMA AppendedRange ==
  ASSUME NEW X, NEW list \in Seq(X), NEW x \in X
  PROVE  Range(Append(list, x)) = Range(list) \cup {x}
<1> DEFINE longer == Append(list, x)
<1>1. /\ DOMAIN longer = 1 .. (Len(list) + 1) /\ longer[Len(list) + 1] = x
      /\ \A n \in 1 .. Len(list) : longer[n] = list[n]
      /\ DOMAIN list = 1 .. Len(list) /\ Len(list) \in Nat
  OBVIOUS
<1> HIDE DEF longer
<1>2. 1 .. (Len(list) + 1) = (1 .. Len(list)) \cup {Len(list) + 1}
  BY <1>1
<1>3. \A y : y \in Range(longer) <=> y \in Range(list) \/ y = x
  BY <1>1, <1>2 DEF Range
<1> QED BY <1>3 DEF longer

\* Appending what is not there repeats nothing.
LEMMA AppendedOnce ==
  ASSUME NEW X, NEW list \in Seq(X), NEW x \in X, x \notin Range(list), IsInjective(list)
  PROVE  IsInjective(Append(list, x))
<1> DEFINE longer == Append(list, x)
<1>1. /\ DOMAIN longer = 1 .. (Len(list) + 1) /\ longer[Len(list) + 1] = x
      /\ \A n \in 1 .. Len(list) : longer[n] = list[n]
      /\ DOMAIN list = 1 .. Len(list) /\ Len(list) \in Nat
  OBVIOUS
<1> HIDE DEF longer
<1>2. \A n \in DOMAIN list : list[n] # x
  BY DEF Range
<1>3. ASSUME NEW n \in DOMAIN longer, NEW m \in DOMAIN longer, longer[n] = longer[m]
      PROVE  n = m
  <2>1. \/ n \in DOMAIN list /\ longer[n] = list[n]
        \/ n = Len(list) + 1 /\ longer[n] = x
    BY <1>1
  <2>2. \/ m \in DOMAIN list /\ longer[m] = list[m]
        \/ m = Len(list) + 1 /\ longer[m] = x
    BY <1>1
  <2> QED BY <1>2, <1>3, <2>1, <2>2 DEF IsInjective
<1> QED BY <1>3 DEF IsInjective, longer

\* Chosen keeps the elements at the positions given, and no other.
LEMMA ChosenIs ==
  ASSUME NEW X, NEW list \in Seq(X), NEW positions \in SUBSET (DOMAIN list)
  PROVE  /\ Chosen(list, positions) \in Seq(X)
         /\ Range(Chosen(list, positions)) = {list[i] : i \in positions}
<1>1. PICK f \in [0 .. Len(list) -> Seq(X)] :
        /\ Chosen(list, positions) = f[Len(list)] /\ f[0] = <<>>
        /\ \A n \in 1 .. Len(list) :
             f[n] = IF n \in positions THEN Append(f[n - 1], list[n]) ELSE f[n - 1]
  BY ChosenBy
<1>2. Len(list) \in Nat /\ DOMAIN list = 1 .. Len(list) /\ \A n \in 1 .. Len(list) : list[n] \in X
  OBVIOUS
<1> DEFINE kept(n) == {list[i] : i \in positions \cap (1 .. n)}
           set == {n \in 0 .. Len(list) : Range(f[n]) = kept(n)}
<1>3. 0 \in set
  <2>1. Range(<<>>) = {} /\ kept(0) = {}
    BY DEF Range
  <2>2. 0 \in 0 .. Len(list) /\ Range(f[0]) = {}
    <3>1. f[0] = <<>> /\ 0 \in 0 .. Len(list)
      BY <1>1, <1>2
    <3> QED BY <2>1, <3>1
  <2> HIDE DEF kept
  <2> QED BY <2>1, <2>2
<1>4. ASSUME NEW n \in 1 .. Len(list), n - 1 \in set PROVE n \in set
  <2>1. n - 1 \in 0 .. Len(list) /\ n \in 0 .. Len(list) /\ list[n] \in X
    BY <1>2
  <2>2. f[n - 1] \in Seq(X) /\ Range(f[n - 1]) = kept(n - 1)
    BY <1>1, <1>4, <2>1
  <2>3. f[n] = IF n \in positions THEN Append(f[n - 1], list[n]) ELSE f[n - 1]
    BY <1>1
  <2>4. kept(n) = kept(n - 1) \cup (IF n \in positions THEN {list[n]} ELSE {})
    <3>1. 1 .. n = (1 .. (n - 1)) \cup {n}
      BY <1>2
    <3> QED BY <3>1
  <2>5. Range(Append(f[n - 1], list[n])) = Range(f[n - 1]) \cup {list[n]}
    BY <2>1, <2>2, AppendedRange
  <2> HIDE DEF kept
  <2>6. Range(f[n]) = kept(n)
    BY <2>2, <2>3, <2>4, <2>5
  <2> QED BY <2>1, <2>6
<1> HIDE DEF set
<1>5. Len(list) \in set
  <2>1. 0 .. Len(list) \subseteq set
    BY <1>2, <1>3, <1>4, Upto
  <2> QED BY <1>2, <2>1
<1>6. kept(Len(list)) = {list[i] : i \in positions}
  BY <1>2
<1> HIDE DEF kept
<1>7. Range(f[Len(list)]) = {list[i] : i \in positions}
  BY <1>5, <1>6 DEF set
<1>8. f[Len(list)] \in Seq(X)
  BY <1>1, <1>2
<1> QED BY <1>1, <1>7, <1>8

\* Choosing every position chooses the list.
LEMMA ChosenAll ==
  ASSUME NEW X, NEW list \in Seq(X)
  PROVE  Chosen(list, DOMAIN list) = list
<1> DEFINE size == Len(list)
           all  == DOMAIN list
<1>0. \E f \in [0 .. size -> Seq(X)] :
        /\ Chosen(list, all) = f[size] /\ f[0] = <<>>
        /\ \A n \in 1 .. size :
             f[n] = IF n \in all THEN Append(f[n - 1], list[n]) ELSE f[n - 1]
  <2> HIDE DEF all
  <2> QED BY ChosenBy
<1>1. PICK f \in [0 .. size -> Seq(X)] :
        /\ Chosen(list, DOMAIN list) = f[size] /\ f[0] = <<>>
        /\ \A n \in 1 .. size :
             f[n] = IF n \in DOMAIN list THEN Append(f[n - 1], list[n]) ELSE f[n - 1]
  BY <1>0
<1>2. /\ size \in Nat /\ DOMAIN list = 1 .. size /\ \A n \in 1 .. size : list[n] \in X
      /\ list = [n \in 1 .. size |-> list[n]]
  OBVIOUS
<1> HIDE DEF size
<1> DEFINE first(n) == [i \in 1 .. n |-> list[i]]
           set == {n \in 0 .. size : f[n] = first(n)}
<1>3. 0 \in set
  <2>1. first(0) = <<>>
    OBVIOUS
  <2> HIDE DEF first
  <2> QED BY <1>1, <1>2, <2>1
<1>4. ASSUME NEW n \in 1 .. size, n - 1 \in set PROVE n \in set
  <2>1. n - 1 \in Nat /\ n \in 0 .. size /\ \A i \in 1 .. n : list[i] \in X
    BY <1>2
  <2>2. f[n - 1] = first(n - 1)
    BY <1>4
  <2>3. f[n] = Append(first(n - 1), list[n])
    BY <1>1, <1>2, <2>2
  <2>4. first(n - 1) \in Seq(X) /\ Len(first(n - 1)) = n - 1
    <3>1. first(n - 1) \in [1 .. (n - 1) -> X]
      BY <2>1
    <3> HIDE DEF first
    <3> QED BY <2>1, <3>1, IsASeq
  <2>5. Append(first(n - 1), list[n]) = first(n)
    <3> DEFINE g == Append(first(n - 1), list[n])
    <3>1. /\ g = [i \in 1 .. n |-> g[i]] /\ g[n] = list[n]
          /\ \A i \in 1 .. (n - 1) : g[i] = first(n - 1)[i]
      <4> HIDE DEF first
      <4>1. list[n] \in X /\ (n - 1) + 1 = n
        BY <2>1
      <4> QED BY <2>1, <2>4, <4>1, AppendProperties
    <3>2. \A i \in 1 .. (n - 1) : first(n - 1)[i] = list[i]
      OBVIOUS
    <3> HIDE DEF g
    <3>3. \A i \in 1 .. n : g[i] = list[i]
      <4>1. ASSUME NEW i \in 1 .. n, i # n PROVE i \in 1 .. (n - 1)
        BY <4>1
      <4> HIDE DEF first
      <4> QED BY <3>1, <3>2, <4>1
    <3>4. g = first(n)
      BY <3>1, <3>3
    <3> QED BY <3>4 DEF g
  <2> HIDE DEF first
  <2> QED BY <2>1, <2>3, <2>5
<1> HIDE DEF set
<1>5. size \in set
  <2>1. 0 .. size \subseteq set
    BY <1>2, <1>3, <1>4, Upto
  <2> QED BY <1>2, <2>1
<1>6. f[size] = first(size)
  BY <1>5 DEF set
<1>7. first(size) = list
  BY <1>2
<1> QED BY <1>1, <1>6, <1>7

\* Positions that hold different elements give a list without repetitions.
LEMMA ChosenOnce ==
  ASSUME NEW X, NEW list \in Seq(X), NEW positions \in SUBSET (DOMAIN list), 
         \A i, j \in positions : list[i] = list[j] => i = j
  PROVE  IsInjective(Chosen(list, positions))
<1> DEFINE size == Len(list)
<1>1. PICK f \in [0 .. size -> Seq(X)] :
        /\ Chosen(list, positions) = f[size] /\ f[0] = <<>>
        /\ \A n \in 1 .. size :
             f[n] = IF n \in positions THEN Append(f[n - 1], list[n]) ELSE f[n - 1]
  BY ChosenBy
<1>2. size \in Nat /\ DOMAIN list = 1 .. size /\ \A n \in 1 .. size : list[n] \in X
  OBVIOUS
<1> HIDE DEF size
<1> DEFINE kept(n) == {list[i] : i \in positions \cap (1 .. n)}
           set == {n \in 0 .. size : IsInjective(f[n]) /\ Range(f[n]) \subseteq kept(n)}
<1>3. 0 \in set
  <2>1. Range(<<>>) = {} /\ IsInjective(<<>>)
    BY DEF Range, IsInjective
  <2> HIDE DEF kept
  <2> QED BY <1>1, <1>2, <2>1
<1>4. ASSUME NEW n \in 1 .. size, n - 1 \in set PROVE n \in set
  <2>1. n - 1 \in 0 .. size /\ n \in 0 .. size /\ list[n] \in X
    BY <1>2
  <2>2. f[n - 1] \in Seq(X) /\ IsInjective(f[n - 1]) /\ Range(f[n - 1]) \subseteq kept(n - 1)
    BY <1>1, <1>4, <2>1
  <2>3. f[n] = IF n \in positions THEN Append(f[n - 1], list[n]) ELSE f[n - 1]
    BY <1>1
  <2>4. kept(n - 1) \subseteq kept(n)
    <3>1. 1 .. (n - 1) \subseteq 1 .. n
      BY <1>2
    <3> QED BY <3>1
  <2>5. CASE n \in positions
    <3>1. list[n] \in kept(n)
      BY <1>2, <2>5
    <3>2. list[n] \notin kept(n - 1)
      <4>1. ASSUME NEW i \in positions \cap (1 .. (n - 1)), list[i] = list[n] PROVE FALSE
        <5>1. i = n
          BY <2>5, <4>1
        <5> QED BY <1>2, <5>1
      <4> QED BY <4>1
    <3> HIDE DEF kept
    <3>3. IsInjective(Append(f[n - 1], list[n]))
      BY <2>1, <2>2, <3>2, AppendedOnce
    <3>4. Range(Append(f[n - 1], list[n])) = Range(f[n - 1]) \cup {list[n]}
      BY <2>1, <2>2, AppendedRange
    <3> QED BY <2>1, <2>2, <2>3, <2>4, <2>5, <3>1, <3>3, <3>4
  <2>6. CASE n \notin positions
    <3> HIDE DEF kept
    <3> QED BY <2>1, <2>2, <2>3, <2>4, <2>6
  <2> QED BY <2>5, <2>6
<1> HIDE DEF set
<1>5. size \in set
  <2>1. 0 .. size \subseteq set
    BY <1>2, <1>3, <1>4, Upto
  <2> QED BY <1>2, <2>1
<1>6. IsInjective(f[size])
  BY <1>5 DEF set
<1> QED BY <1>1, <1>6

\* A comparison that sorted() can be given: the positions fall into classes.
Sorts(before, positions) ==
  /\ \A i, j \in positions : <<i, j>> \in before => <<j, i>> \notin before
  /\ \A i, j, k \in positions :
       <<i, k>> \in before => <<i, j>> \in before \/ <<j, k>> \in before

\* The order Arranged puts the positions of a list in.
Stable(list, before) ==
  {p \in (DOMAIN list) \X (DOMAIN list) : \/ p \in before
                                          \/ <<p[2], p[1]>> \notin before /\ p[1] < p[2]}

\* It is a strict total order, and follows the comparison before the position.
LEMMA StableOrders ==
  ASSUME NEW X, NEW list \in Seq(X), NEW before, Sorts(before, DOMAIN list)
  PROVE  /\ Orders(Stable(list, before), DOMAIN list)
         /\ \A i, j \in DOMAIN list :
              <<i, j>> \in Stable(list, before) =>
                <<j, i>> \notin before /\ (i < j \/ <<i, j>> \in before)
<1> DEFINE positions == DOMAIN list
           pairs == positions \X positions
           total == {p \in pairs : \/ p \in before
                                   \/ <<p[2], p[1]>> \notin before /\ p[1] < p[2]}
<1>1. positions = 1 .. Len(list) /\ Len(list) \in Nat
  OBVIOUS
<1>2. Stable(list, before) = total
  BY DEF Stable
<1>3. \A i, j \in positions :
        <<i, j>> \in total <=> \/ <<i, j>> \in before
                               \/ <<j, i>> \notin before /\ i < j
  OBVIOUS
<1> HIDE DEF total
<1>4. Orders(total, positions)
  <2>0. /\ \A i \in positions : i \in Nat
        /\ Sorts(before, positions)
    BY <1>1
  <2> HIDE DEF total, positions
  <2>1. \A i \in positions : <<i, i>> \notin total
    BY <2>0, <1>3 DEF Sorts
  <2>2. ASSUME NEW i \in positions, NEW j \in positions, i # j
        PROVE  <<i, j>> \in total \/ <<j, i>> \in total
    <3>1. i \in Nat /\ j \in Nat
      BY <2>0
    <3>2. i < j \/ j < i
      BY <2>2, <3>1
    <3> QED BY <1>3, <3>2
  <2>3. ASSUME NEW i \in positions, NEW j \in positions, NEW k \in positions,
               <<i, j>> \in total, <<j, k>> \in total
        PROVE  <<i, k>> \in total
    <3>1. i \in Nat /\ j \in Nat /\ k \in Nat
      BY <2>0
    <3> DEFINE B(x, y) == <<x, y>> \in before
    <3>2. /\ B(i, j) \/ (~B(j, i) /\ i < j)
          /\ B(j, k) \/ (~B(k, j) /\ j < k)
      BY <1>3, <2>3
    <3>3. /\ B(i, j) => ~B(j, i) /\ (B(i, k) \/ B(k, j))
          /\ B(j, k) => ~B(k, j) /\ (B(j, i) \/ B(i, k))
          /\ B(k, i) => B(k, j) \/ B(j, i)
      BY <2>0 DEF Sorts
    <3>4. B(i, k) \/ (~B(k, i) /\ i < k)
      <4> HIDE DEF B
      <4> QED BY <3>1, <3>2, <3>3
    <3> QED BY <1>3, <3>4
  <2> QED BY <2>1, <2>2, <2>3 DEF Orders
<1>5. ASSUME NEW i \in positions, NEW j \in positions, <<i, j>> \in total
      PROVE  <<j, i>> \notin before /\ (i < j \/ <<i, j>> \in before)
  BY <1>3, <1>5 DEF Sorts
<1> QED BY <1>2, <1>4, <1>5

\* Sorting puts every position somewhere, and none before one it may not precede.
LEMMA ArrangedBy ==
  ASSUME NEW X, NEW list \in Seq(X), NEW before, Sorts(before, DOMAIN list)
  PROVE  \E order \in [DOMAIN list -> DOMAIN list] :
           /\ Arranged(list, before) = [n \in DOMAIN list |-> list[order[n]]]
           /\ \A i \in DOMAIN list : \E n \in DOMAIN list : order[n] = i
           /\ \A n, m \in DOMAIN list :
                n < m => order[n] # order[m] /\ <<order[m], order[n]>> \notin before
<1> DEFINE positions == DOMAIN list
           pairs == positions \X positions
           total == {p \in pairs : \/ p \in before
                                   \/ <<p[2], p[1]>> \notin before /\ p[1] < p[2]}
           order == InOrder(positions, total)
           size == Cardinality(positions)
<1>1. positions = 1 .. Len(list) /\ Len(list) \in Nat
  OBVIOUS
<1>2. IsFiniteSet(positions) /\ size = Len(list)
  BY <1>1, FS_Interval
<1>3. Arranged(list, before) = [n \in DOMAIN order |-> list[order[n]]]
  BY DEF Arranged
<1>7. total = Stable(list, before)
  BY DEF Stable
<1> HIDE DEF order, total
<1>4. /\ order \in [positions -> positions]
      /\ \A i \in positions : \E n \in positions : order[n] = i
      /\ \A n, m \in positions : n < m => <<order[n], order[m]>> \in Stable(list, before)
  <2>1. /\ order \in [1 .. size -> positions]
        /\ \A i \in positions : \E n \in 1 .. size : order[n] = i
        /\ \A n, m \in 1 .. size : n < m => <<order[n], order[m]>> \in Stable(list, before)
    BY <1>2, <1>7, StableOrders, InOrderIs DEF order
  <2> QED BY <1>1, <1>2, <2>1
<1>5. ASSUME NEW n \in positions, NEW m \in positions, n < m
      PROVE  order[n] # order[m] /\ <<order[m], order[n]>> \notin before
  <2>1. order[n] \in positions /\ order[m] \in positions
    BY <1>4
  <2>2. <<order[n], order[m]>> \in Stable(list, before)
    BY <1>4, <1>5
  <2>3. order[n] # order[m]
    BY <2>1, <2>2, StableOrders DEF Orders
  <2>4. <<order[m], order[n]>> \notin before
    BY <2>1, <2>2, StableOrders
  <2> QED BY <2>3, <2>4
<1>6. Arranged(list, before) = [n \in positions |-> list[order[n]]]
  BY <1>3, <1>4
<1> QED BY <1>4, <1>5, <1>6

\* Sorting a list loses and adds nothing.
LEMMA ArrangedIs ==
  ASSUME NEW X, NEW list \in Seq(X), NEW before, Sorts(before, DOMAIN list)
  PROVE  /\ Arranged(list, before) \in Seq(X)
         /\ Range(Arranged(list, before)) = Range(list)
<1> DEFINE arranged == Arranged(list, before)
<1>1. DOMAIN list = 1 .. Len(list) /\ Len(list) \in Nat
  OBVIOUS
<1>2. PICK order \in [DOMAIN list -> DOMAIN list] :
        /\ Arranged(list, before) = [n \in DOMAIN list |-> list[order[n]]]
        /\ \A i \in DOMAIN list : \E n \in DOMAIN list : order[n] = i
        /\ \A n, m \in DOMAIN list :
             n < m => order[n] # order[m] /\ <<order[m], order[n]>> \notin before
  BY ArrangedBy
<1>3. arranged = [n \in 1 .. Len(list) |-> list[order[n]]]
  BY <1>1, <1>2
<1> HIDE DEF arranged
<1>4. \A n \in 1 .. Len(list) : list[order[n]] \in X
  BY <1>1, <1>2
<1>5. arranged \in Seq(X)
  BY <1>1, <1>3, <1>4, IsASeq
<1>6. Range(arranged) = Range(list)
  BY <1>1, <1>2, <1>3 DEF Range
<1> QED BY <1>5, <1>6 DEF arranged

\* Sorting a list repeats nothing.
LEMMA ArrangedOnce ==
  ASSUME NEW X, NEW list \in Seq(X), NEW before, Sorts(before, DOMAIN list), IsInjective(list)
  PROVE  IsInjective(Arranged(list, before))
<1>1. DOMAIN list = 1 .. Len(list) /\ Len(list) \in Nat
  OBVIOUS
<1>2. PICK order \in [DOMAIN list -> DOMAIN list] :
        /\ Arranged(list, before) = [n \in DOMAIN list |-> list[order[n]]]
        /\ \A i \in DOMAIN list : \E n \in DOMAIN list : order[n] = i
        /\ \A n, m \in DOMAIN list :
             n < m => order[n] # order[m] /\ <<order[m], order[n]>> \notin before
  BY ArrangedBy
<1>3. ASSUME NEW n \in DOMAIN list, NEW m \in DOMAIN list, list[order[n]] = list[order[m]]
      PROVE  n = m
  <2>1. order[n] = order[m]
    BY <1>2, <1>3 DEF IsInjective
  <2>2. ~(n < m) /\ ~(m < n)
    BY <1>2, <2>1
  <2> QED BY <1>1, <2>2
<1> QED BY <1>2, <1>3 DEF IsInjective

\* A list that is in order already.
LEMMA ArrangedSame ==
  ASSUME NEW X, NEW list \in Seq(X), NEW before, Sorts(before, DOMAIN list),
         \A i, j \in DOMAIN list : i < j => <<j, i>> \notin before
  PROVE  Arranged(list, before) = list
<1> DEFINE positions == DOMAIN list
           pairs == positions \X positions
           total == {p \in pairs : \/ p \in before
                                   \/ <<p[2], p[1]>> \notin before /\ p[1] < p[2]}
           g == [n \in positions |-> n]
<1>1. positions = 1 .. Len(list) /\ Len(list) \in Nat
  OBVIOUS
<1>2. ASSUME NEW i \in positions, NEW j \in positions
      PROVE  <<i, j>> \in total <=> i < j
  <2>1. <<i, j>> \in total <=> <<i, j>> \in before \/ (<<j, i>> \notin before /\ i < j)
    OBVIOUS
  <2> HIDE DEF total
  <2>2. i \in Nat /\ j \in Nat
    BY <1>1
  <2>3. <<i, j>> \in before => i < j
    <3>1. <<i, i>> \notin before
      BY DEF Sorts
    <3> QED BY <2>2, <3>1
  <2> QED BY <2>1, <2>2, <2>3
<1>3. Arranged(list, before) = [n \in DOMAIN InOrder(positions, total) |->
                                  list[InOrder(positions, total)[n]]]
  BY DEF Arranged
<1>4. /\ g \in [1 .. Len(list) -> positions]
      /\ \A x \in positions : \E n \in 1 .. Len(list) : g[n] = x
      /\ \A n \in positions : g[n] = n
  BY <1>1
<1> HIDE DEF total, g
<1>5. Orders(total, positions)
  <2>1. \A i \in positions : i \in Nat
    BY <1>1
  <2> HIDE DEF positions
  <2> QED BY <1>2, <2>1 DEF Orders
<1>6. InOrder(positions, total) = g
  <2> HIDE DEF positions
  <2> QED BY <1>1, <1>2, <1>4, <1>5, ListedIs
<1>7. Arranged(list, before) = [n \in positions |-> list[n]]
  BY <1>3, <1>6 DEF g
<1> QED BY <1>1, <1>7

\* Dropping what is repeated loses no element.
LEMMA DistinctIs ==
  ASSUME NEW X, NEW list \in Seq(X)
  PROVE  Distinct(list) \in Seq(X) /\ Range(Distinct(list)) = Range(list)
<1> DEFINE first == {i \in DOMAIN list : \A j \in 1 .. (i - 1) : list[j] # list[i]}
<1>1. DOMAIN list = 1 .. Len(list) /\ Len(list) \in Nat
  OBVIOUS
<1>2. ASSUME NEW i \in DOMAIN list PROVE \E k \in first : list[k] = list[i]
  <2> DEFINE same == {j \in DOMAIN list : list[j] = list[i]}
  <2>1. same \in SUBSET Nat /\ same # {}
    BY <1>1
  <2>2. PICK k \in same : \A j \in same : k <= j
    BY <2>1, LowestIs
  <2>3. k \in first
    BY <1>1, <2>2
  <2> QED BY <2>2, <2>3
<1>3. Distinct(list) = Chosen(list, first)
  BY DEF Distinct
<1>4. first \in SUBSET (DOMAIN list)
  OBVIOUS
<1> HIDE DEF first
<1>5. {list[i] : i \in first} = Range(list)
  BY <1>2, <1>4 DEF Range
<1> QED BY <1>3, <1>4, <1>5, ChosenIs

\* A list that repeats nothing loses nothing.
LEMMA DistinctOnce ==
  ASSUME NEW X, NEW list \in Seq(X), IsInjective(list)
  PROVE  Distinct(list) = list
<1>1. DOMAIN list = 1 .. Len(list) /\ Len(list) \in Nat
  OBVIOUS
<1>2. {i \in DOMAIN list : \A j \in 1 .. (i - 1) : list[j] # list[i]} = DOMAIN list
  BY <1>1 DEF IsInjective
<1> QED BY <1>2, ChosenAll DEF Distinct

\* dict.fromkeys leaves no repetition.
LEMMA DistinctOf ==
  ASSUME NEW X, NEW list \in Seq(X)
  PROVE  IsInjective(Distinct(list))
<1> DEFINE first == {i \in DOMAIN list : \A j \in 1 .. (i - 1) : list[j] # list[i]}
<1>1. DOMAIN list = 1 .. Len(list) /\ Len(list) \in Nat
  OBVIOUS
<1>2. ASSUME NEW i \in first, NEW j \in first, list[i] = list[j] PROVE i = j
  <2>1. i \in Nat \ {0} /\ j \in Nat \ {0}
    BY <1>1
  <2>2. ~(i < j) /\ ~(j < i)
    BY <1>2, <2>1
  <2> QED BY <2>1, <2>2
<1>3. Distinct(list) = Chosen(list, first)
  BY DEF Distinct
<1>4. first \in SUBSET (DOMAIN list)
  OBVIOUS
<1> HIDE DEF first
<1> QED BY <1>2, <1>3, <1>4, ChosenOnce

\* A list without one of its positions is a list.
LEMMA RemoveAtIs ==
  ASSUME NEW X, NEW list \in Seq(X), NEW i \in 1 .. Len(list)
  PROVE  RemoveAt(list, i) \in Seq(X)
<1>1. SubSeq(list, 1, i - 1) \in Seq(X) /\ SubSeq(list, i + 1, Len(list)) \in Seq(X)
  BY SubSeqProperties
<1> QED BY <1>1, ConcatProperties DEF RemoveAt

\* What is left of a list when the entry at a position is removed.
LEMMA RemovedAt ==
  ASSUME NEW X, NEW list \in Seq(X), NEW i \in 1 .. Len(list)
  PROVE  /\ DOMAIN RemoveAt(list, i) = 1 .. (Len(list) - 1)
         /\ \A n \in 1 .. (Len(list) - 1) :
              RemoveAt(list, i)[n] = IF n < i THEN list[n] ELSE list[n + 1]
<1> DEFINE left == SubSeq(list, 1, i - 1)
           right == SubSeq(list, i + 1, Len(list))
<1>0. Len(list) \in Nat /\ i \in Nat /\ i >= 1 /\ i <= Len(list)
  OBVIOUS
<1>1. /\ left \in Seq(X) /\ Len(left) = i - 1
      /\ \A n \in 1 .. (i - 1) : left[n] = list[n]
  <2>1. \A n \in 1 .. (i - 1) : list[n] \in X
    BY <1>0
  <2>2. 1 \in Int /\ i - 1 \in Int
    BY <1>0
  <2>3. /\ left \in Seq(X) /\ Len(left) = IF 1 <= i - 1 THEN (i - 1) - 1 + 1 ELSE 0
        /\ \A n \in 1 .. (i - 1) - 1 + 1 : left[n] = list[1 + n - 1]
    BY <2>1, <2>2, SubSeqProperties
  <2> HIDE DEF left
  <2> QED BY <1>0, <2>3
<1>2. /\ right \in Seq(X) /\ Len(right) = Len(list) - i
      /\ \A n \in 1 .. (Len(list) - i) : right[n] = list[n + i]
  <2>1. \A n \in (i + 1) .. Len(list) : list[n] \in X
    BY <1>0
  <2>2. i + 1 \in Int /\ Len(list) \in Int
    BY <1>0
  <2>3. /\ right \in Seq(X)
        /\ Len(right) = IF i + 1 <= Len(list) THEN Len(list) - (i + 1) + 1 ELSE 0
        /\ \A n \in 1 .. Len(list) - (i + 1) + 1 : right[n] = list[i + 1 + n - 1]
    BY <2>1, <2>2, SubSeqProperties
  <2> HIDE DEF right
  <2> QED BY <1>0, <2>3
<1>3. RemoveAt(list, i) = left \o right
  BY DEF RemoveAt
<1> HIDE DEF left, right
<1>4. /\ DOMAIN (left \o right) = 1 .. (Len(list) - 1)
      /\ \A n \in 1 .. (Len(list) - 1) :
           (left \o right)[n] = IF n <= i - 1 THEN left[n] ELSE right[n - (i - 1)]
  BY <1>0, <1>1, <1>2
<1>5. ASSUME NEW n \in 1 .. (Len(list) - 1)
      PROVE  (left \o right)[n] = IF n < i THEN list[n] ELSE list[n + 1]
  <2>1. CASE n < i
    BY <1>0, <1>1, <1>4, <2>1
  <2>2. CASE ~(n < i)
    <3>1. n - (i - 1) \in 1 .. (Len(list) - i) /\ (n - (i - 1)) + i = n + 1
      BY <1>0, <2>2
    <3>2. right[n - (i - 1)] = list[n + 1]
      BY <1>2, <3>1
    <3> QED BY <1>0, <1>4, <2>2, <3>2
  <2> QED BY <2>1, <2>2
<1> QED BY <1>3, <1>4, <1>5

\* Removing from a list repeats nothing.
LEMMA RemovedOnce ==
  ASSUME NEW X, NEW list \in Seq(X), NEW i \in 1 .. Len(list), IsInjective(list)
  PROVE  IsInjective(RemoveAt(list, i))
<1> DEFINE left == RemoveAt(list, i)
           place(n) == IF n < i THEN n ELSE n + 1
<1>0. Len(list) \in Nat /\ i \in Nat /\ DOMAIN list = 1 .. Len(list)
  OBVIOUS
<1>1. /\ DOMAIN left = 1 .. (Len(list) - 1)
      /\ \A n \in 1 .. (Len(list) - 1) : left[n] = IF n < i THEN list[n] ELSE list[n + 1]
  BY RemovedAt
<1> HIDE DEF left
<1>2. ASSUME NEW n \in DOMAIN left
      PROVE  place(n) \in DOMAIN list /\ left[n] = list[place(n)] /\ n \in Nat
  BY <1>0, <1>1
<1>3. ASSUME NEW n \in DOMAIN left, NEW m \in DOMAIN left, left[n] = left[m]
      PROVE  n = m
  <2>1. place(n) = place(m)
    <3> HIDE DEF place
    <3>1. list[place(n)] = list[place(m)]
      BY <1>2, <1>3
    <3> QED BY <1>2, <3>1 DEF IsInjective
  <2> QED BY <1>0, <1>2, <2>1
<1> QED BY <1>3 DEF IsInjective, left

\* Putting what is not there in the place of another repeats nothing.
LEMMA PutOnce ==
  ASSUME NEW X, NEW list \in Seq(X), NEW i, NEW x, x \notin Range(list), IsInjective(list)
  PROVE  IsInjective([list EXCEPT ![i] = x])
<1> DEFINE other == [list EXCEPT ![i] = x]
<1>1. DOMAIN other = DOMAIN list /\ \A n \in DOMAIN list : other[n] = IF n = i THEN x ELSE list[n]
  OBVIOUS
<1> HIDE DEF other
<1>2. \A n \in DOMAIN list : list[n] # x
  BY DEF Range
<1> QED BY <1>1, <1>2 DEF IsInjective, other

\* A list of one, and of none.
LEMMA ShortOnce == \A x : IsInjective(<<x>>) /\ IsInjective(<<>>)
<1>1. \A x : DOMAIN <<x>> = {1}
  OBVIOUS
<1>2. DOMAIN <<>> = {}
  OBVIOUS
<1> QED BY <1>1, <1>2 DEF IsInjective

(***************************************************************************)
(* Lists of lists.                                                         *)
(***************************************************************************)
\* The partial concatenations FlattenSeq computes.
Flattens(f, lists, n) ==
  \A i \in 1 .. n : f[i] = IF i = 1 THEN lists[i] ELSE f[i - 1] \o lists[i]
Flattening(X, lists, n) ==
  n <= Len(lists) => \E f \in [1 .. n -> Seq(X)] : Flattens(f, lists, n)

\* They exist for every list of lists.
LEMMA FlatteningExists ==
  ASSUME NEW X, NEW lists \in Seq(Seq(X))
  PROVE  \E f \in [1 .. Len(lists) -> Seq(X)] : Flattens(f, lists, Len(lists))
<1> DEFINE reached == {n \in Nat : Flattening(X, lists, n)}
<1>0. /\ Len(lists) \in Nat
      /\ \A i \in 1 .. Len(lists) : lists[i] \in Seq(X)
  OBVIOUS
<1>1. Flattening(X, lists, 0)
  <2> DEFINE f == [i \in 1 .. 0 |-> <<>>]
  <2>1. f \in [1 .. 0 -> Seq(X)] /\ \A i \in 1 .. 0 : FALSE
    OBVIOUS
  <2> HIDE DEF f
  <2>2. Flattens(f, lists, 0)
    BY <2>1 DEF Flattens
  <2> QED BY <2>1, <2>2 DEF Flattening
<1>2. ASSUME NEW n \in Nat, Flattening(X, lists, n) PROVE Flattening(X, lists, n + 1)
  <2> SUFFICES ASSUME n + 1 <= Len(lists)
               PROVE  \E f \in [1 .. (n + 1) -> Seq(X)] : Flattens(f, lists, n + 1)
    BY DEF Flattening
  <2>0. n <= Len(lists)
    BY <1>0
  <2>1. PICK f \in [1 .. n -> Seq(X)] : Flattens(f, lists, n)
    BY <1>2, <2>0 DEF Flattening
  <2>2. lists[n + 1] \in Seq(X)
    BY <1>0
  <2> DEFINE last == IF n = 0 THEN lists[n + 1] ELSE f[n] \o lists[n + 1]
             g == [i \in 1 .. (n + 1) |-> IF i = n + 1 THEN last ELSE f[i]]
  <2>3. last \in Seq(X)
    <3>1. CASE n = 0
      BY <2>2, <3>1
    <3>2. CASE n # 0
      <4>1. f[n] \in Seq(X)
        BY <2>1, <2>2, <3>2
      <4> QED BY <2>2, <3>2, <4>1, ConcatProperties
    <3> QED BY <3>1, <3>2
  <2> HIDE DEF last
  <2>4. g \in [1 .. (n + 1) -> Seq(X)]
    BY <2>1, <2>2, <2>3
  <2>5. ASSUME NEW i \in 1 .. (n + 1)
        PROVE  g[i] = IF i = 1 THEN lists[i] ELSE g[i - 1] \o lists[i]
    <3>1. CASE i = n + 1
      BY <2>2, <3>1 DEF last
    <3>2. CASE i # n + 1
      <4>1. i \in 1 .. n /\ g[i] = f[i] /\ (i # 1 => g[i - 1] = f[i - 1])
        BY <2>2, <3>2
      <4> QED BY <2>1, <4>1 DEF Flattens
    <3> QED BY <3>1, <3>2
  <2> HIDE DEF g
  <2> QED BY <2>4, <2>5 DEF Flattens
<1>3. reached = Nat
  <2>1. reached \in SUBSET Nat /\ 0 \in reached /\ \A n \in reached : n + 1 \in reached
    BY <1>1, <1>2
  <2> HIDE DEF reached
  <2> QED BY <2>1, SetInduction
<1>4. Flattening(X, lists, Len(lists))
  BY <1>0, <1>3
<1> QED BY <1>0, <1>4 DEF Flattening

\* What the n + 1st of them holds.
Gathered(f, X, lists, n) ==
  n + 1 \in 1 .. Len(lists) =>
    f[n + 1] \in Seq(X) /\ Range(f[n + 1]) = UNION {Range(lists[i]) : i \in 1 .. (n + 1)}

\* FlattenSeq computes them one after the other.
LEMMA FlattenBy ==
  ASSUME NEW X, NEW lists \in Seq(Seq(X)), Len(lists) # 0
  PROVE  \E f \in [1 .. Len(lists) -> Seq(X)] :
           /\ Flattens(f, lists, Len(lists))
           /\ FlattenSeq(lists) = f[Len(lists)]
           /\ \A n \in 1 .. Len(lists) : Range(f[n]) = UNION {Range(lists[i]) : i \in 1 .. n}
<1>0. /\ Len(lists) \in Nat /\ DOMAIN lists = 1 .. Len(lists)
      /\ \A i \in 1 .. Len(lists) : lists[i] \in Seq(X)
  OBVIOUS
<1> DEFINE flat(f) == f = [i \in 1 .. Len(lists) |->
                             IF i = 1 THEN lists[i] ELSE f[i - 1] \o lists[i]]
           f == CHOOSE f : flat(f)
           reached == {n \in Nat : Gathered(f, X, lists, n)}
<1>1. FlattenSeq(lists) = f[Len(lists)]
  BY DEF FlattenSeq
<1>2. flat(f)
  <2>1. PICK g \in [1 .. Len(lists) -> Seq(X)] : Flattens(g, lists, Len(lists))
    BY FlatteningExists
  <2>2. flat(g)
    BY <2>1 DEF Flattens
  <2> QED BY <2>2
<1>3. /\ f = [i \in 1 .. Len(lists) |-> f[i]]
      /\ \A i \in 1 .. Len(lists) : f[i] = IF i = 1 THEN lists[i] ELSE f[i - 1] \o lists[i]
  <2> HIDE DEF f
  <2>1. f = [i \in 1 .. Len(lists) |-> IF i = 1 THEN lists[i] ELSE f[i - 1] \o lists[i]]
    BY <1>2
  <2>2. \A i \in 1 .. Len(lists) : f[i] = IF i = 1 THEN lists[i] ELSE f[i - 1] \o lists[i]
    BY <2>1
  <2>3. f = [i \in 1 .. Len(lists) |-> f[i]]
    BY <2>1
  <2> QED BY <2>2, <2>3
<1> HIDE DEF f
<1>4. Gathered(f, X, lists, 0)
  <2>1. UNION {Range(lists[i]) : i \in 1 .. 1} = Range(lists[1])
    BY <1>0
  <2>0. 1 \in 1 .. Len(lists)
    BY <1>0
  <2>2. f[1] = lists[1] /\ f[1] \in Seq(X)
    <3>1. f[1] = lists[1]
      BY <1>3, <2>0
    <3> QED BY <1>0, <2>0, <3>1
  <2> QED BY <2>1, <2>2 DEF Gathered
<1>5. ASSUME NEW n \in Nat, Gathered(f, X, lists, n) PROVE Gathered(f, X, lists, n + 1)
  <2> DEFINE m == n + 2
             First(k) == UNION {Range(lists[i]) : i \in 1 .. k}
  <2>0. m = (n + 1) + 1
    OBVIOUS
  <2> SUFFICES ASSUME m \in 1 .. Len(lists)
               PROVE  f[m] \in Seq(X) /\ Range(f[m]) = First(m)
    <3> HIDE DEF m
    <3> QED BY <2>0 DEF Gathered
  <2>1. n + 1 \in 1 .. Len(lists) /\ m - 1 = n + 1 /\ m # 1
    BY <1>0
  <2>2. f[n + 1] \in Seq(X) /\ Range(f[n + 1]) = First(n + 1)
    BY <1>5, <2>1 DEF Gathered
  <2>5. First(m) = First(n + 1) \cup Range(lists[m])
    <3>1. 1 .. m = (1 .. (n + 1)) \cup {m}
      OBVIOUS
    <3> HIDE DEF m
    <3> QED BY <3>1
  <2> HIDE DEF m, First
  <2>3. f[m] = f[n + 1] \o lists[m] /\ lists[m] \in Seq(X)
    BY <1>0, <1>3, <2>1
  <2>4. Range(f[m]) = Range(f[n + 1]) \cup Range(lists[m])
    BY <2>2, <2>3, RangeConcatenation
  <2>6. f[m] \in Seq(X)
    BY <2>2, <2>3, ConcatProperties
  <2> QED BY <2>2, <2>3, <2>4, <2>5, <2>6
<1>6. reached = Nat
  <2>1. reached \in SUBSET Nat /\ 0 \in reached /\ \A n \in reached : n + 1 \in reached
    BY <1>4, <1>5
  <2> HIDE DEF reached
  <2> QED BY <2>1, SetInduction
<1>7. ASSUME NEW n \in 1 .. Len(lists)
      PROVE  f[n] \in Seq(X) /\ Range(f[n]) = UNION {Range(lists[i]) : i \in 1 .. n}
  <2>1. n - 1 \in Nat /\ (n - 1) + 1 = n
    OBVIOUS
  <2>2. Gathered(f, X, lists, n - 1)
    BY <1>6, <2>1
  <2> QED BY <2>1, <2>2 DEF Gathered
<1>8. f \in [1 .. Len(lists) -> Seq(X)]
  BY <1>3, <1>7
<1>9. Flattens(f, lists, Len(lists))
  BY <1>3 DEF Flattens
<1> QED BY <1>1, <1>7, <1>8, <1>9

\* FlattenSeq holds what its lists hold.
LEMMA FlattenIs ==
  ASSUME NEW X, NEW lists \in Seq(Seq(X))
  PROVE  /\ FlattenSeq(lists) \in Seq(X)
         /\ Range(FlattenSeq(lists)) = UNION {Range(lists[i]) : i \in DOMAIN lists}
<1>0. /\ Len(lists) \in Nat /\ DOMAIN lists = 1 .. Len(lists)
      /\ \A i \in 1 .. Len(lists) : lists[i] \in Seq(X)
  OBVIOUS
<1>1. CASE Len(lists) = 0
  <2>1. lists = <<>> /\ FlattenSeq(lists) = <<>>
    BY <1>0, <1>1 DEF FlattenSeq
  <2>2. DOMAIN lists = {} /\ DOMAIN FlattenSeq(lists) = {}
    BY <2>1
  <2>3. Range(FlattenSeq(lists)) = {}
    BY <2>2 DEF Range
  <2>4. UNION {Range(lists[i]) : i \in DOMAIN lists} = {}
    BY <2>2
  <2>5. FlattenSeq(lists) \in Seq(X)
    <3>1. <<>> \in Seq(X)
      OBVIOUS
    <3> QED BY <2>1, <3>1, Zenon
  <2> QED BY <2>3, <2>4, <2>5, Zenon
<1>2. CASE Len(lists) # 0
  <2>1. PICK f \in [1 .. Len(lists) -> Seq(X)] :
           /\ Flattens(f, lists, Len(lists))
           /\ FlattenSeq(lists) = f[Len(lists)]
           /\ \A n \in 1 .. Len(lists) : Range(f[n]) = UNION {Range(lists[i]) : i \in 1 .. n}
    BY <1>2, FlattenBy
  <2>2. Len(lists) \in 1 .. Len(lists)
    BY <1>0, <1>2
  <2> QED BY <1>0, <2>1, <2>2
<1> QED BY <1>1, <1>2

\* Two lists that repeat nothing and share nothing.
LEMMA LengthenedOnce ==
  ASSUME NEW X, NEW old \in Seq(X), NEW more \in Seq(X),
         IsInjective(old), IsInjective(more), Range(old) \cap Range(more) = {}
  PROVE  IsInjective(old \o more)
<1> DEFINE both == old \o more
<1>1. /\ DOMAIN both = 1 .. (Len(old) + Len(more)) /\ Len(old) \in Nat /\ Len(more) \in Nat
      /\ \A n \in 1 .. (Len(old) + Len(more)) :
           both[n] = IF n <= Len(old) THEN old[n] ELSE more[n - Len(old)]
      /\ DOMAIN old = 1 .. Len(old) /\ DOMAIN more = 1 .. Len(more)
  OBVIOUS
<1> HIDE DEF both
<1>2. ASSUME NEW n \in DOMAIN both
      PROVE  \/ n \in DOMAIN old /\ both[n] = old[n] /\ both[n] \in Range(old)
             \/ /\ n - Len(old) \in DOMAIN more /\ both[n] = more[n - Len(old)]
                /\ both[n] \in Range(more)
  <2>1. CASE n <= Len(old)
    <3>1. n \in DOMAIN old /\ both[n] = old[n]
      BY <1>1, <2>1
    <3> QED BY <3>1 DEF Range
  <2>2. CASE ~(n <= Len(old))
    <3>1. n - Len(old) \in DOMAIN more /\ both[n] = more[n - Len(old)]
      BY <1>1, <2>2
    <3> QED BY <3>1 DEF Range
  <2> QED BY <2>1, <2>2
<1>3. ASSUME NEW n \in DOMAIN both, NEW m \in DOMAIN both, both[n] = both[m]
      PROVE  n = m
  <2>1. CASE n \in DOMAIN old /\ both[n] = old[n] /\ both[n] \in Range(old)
    <3>1. m \in DOMAIN old /\ both[m] = old[m]
      BY <1>2, <1>3, <2>1
    <3> QED BY <1>3, <2>1, <3>1 DEF IsInjective
  <2>2. CASE /\ n - Len(old) \in DOMAIN more /\ both[n] = more[n - Len(old)]
             /\ both[n] \in Range(more)
    <3>1. m - Len(old) \in DOMAIN more /\ both[m] = more[m - Len(old)]
      BY <1>2, <1>3, <2>2
    <3>2. n - Len(old) = m - Len(old)
      BY <1>3, <2>2, <3>1 DEF IsInjective
    <3>3. n \in Nat /\ m \in Nat
      BY <1>1
    <3> QED BY <1>1, <3>2, <3>3
  <2> QED BY <1>2, <2>1, <2>2
<1> QED BY <1>3 DEF IsInjective, both

\* The same of any number of lists.
LEMMA FlattenOnce ==
  ASSUME NEW X, NEW lists \in Seq(Seq(X)), \A i \in DOMAIN lists : IsInjective(lists[i]),
         \A i, j \in DOMAIN lists : i # j => Range(lists[i]) \cap Range(lists[j]) = {}
  PROVE  IsInjective(FlattenSeq(lists))
<1>0. /\ Len(lists) \in Nat /\ DOMAIN lists = 1 .. Len(lists)
      /\ \A i \in 1 .. Len(lists) : lists[i] \in Seq(X)
  OBVIOUS
<1>1. CASE Len(lists) = 0
  <2>1. FlattenSeq(lists) = <<>>
    BY <1>0, <1>1 DEF FlattenSeq
  <2>2. DOMAIN FlattenSeq(lists) = {}
    BY <2>1
  <2> QED BY <2>2 DEF IsInjective
<1>2. CASE Len(lists) # 0
  <2>1. PICK f \in [1 .. Len(lists) -> Seq(X)] :
           /\ Flattens(f, lists, Len(lists))
           /\ FlattenSeq(lists) = f[Len(lists)]
           /\ \A n \in 1 .. Len(lists) : Range(f[n]) = UNION {Range(lists[i]) : i \in 1 .. n}
    BY <1>2, FlattenBy
  <2> DEFINE reached == {n \in Nat : n + 1 \in 1 .. Len(lists) => IsInjective(f[n + 1])}
  <2>2. 0 \in reached
    <3>0. 1 \in 1 .. Len(lists) /\ 0 + 1 = 1
      BY <1>0, <1>2
    <3>1. f[1] = lists[1]
      BY <2>1, <3>0 DEF Flattens
    <3> QED BY <1>0, <3>0, <3>1
  <2>3. ASSUME NEW n \in reached PROVE n + 1 \in reached
    <3> DEFINE m == n + 2
    <3>0. m = (n + 1) + 1
      OBVIOUS
    <3> SUFFICES ASSUME m \in 1 .. Len(lists) PROVE IsInjective(f[m])
      <4> HIDE DEF m
      <4> QED BY <3>0
    <3>1. n + 1 \in 1 .. Len(lists) /\ m - 1 = n + 1 /\ m # 1 /\ IsInjective(f[n + 1])
      BY <1>0
    <3>2. \A i \in 1 .. (n + 1) : i # m /\ i \in DOMAIN lists
      BY <1>0, <3>1
    <3> HIDE DEF m, reached
    <3>3. f[m] = f[n + 1] \o lists[m] /\ lists[m] \in Seq(X) /\ f[n + 1] \in Seq(X)
      BY <1>0, <2>1, <3>1 DEF Flattens
    <3>4. Range(f[n + 1]) \cap Range(lists[m]) = {}
      BY <1>0, <2>1, <3>1, <3>2
    <3>5. IsInjective(lists[m])
      BY <1>0
    <3> QED BY <3>1, <3>3, <3>4, <3>5, LengthenedOnce
  <2>4. reached = Nat
    <3>1. reached \in SUBSET Nat
      OBVIOUS
    <3> HIDE DEF reached
    <3> QED BY <2>2, <2>3, <3>1, SetInduction
  <2>5. Len(lists) - 1 \in Nat /\ (Len(lists) - 1) + 1 = Len(lists)
    BY <1>0, <1>2
  <2>6. Len(lists) - 1 \in reached
    BY <2>4, <2>5
  <2>7. Len(lists) \in 1 .. Len(lists)
    BY <1>0, <1>2
  <2> QED BY <2>1, <2>5, <2>6, <2>7
<1> QED BY <1>1, <1>2

\* One list among empty ones.
LEMMA FlattenAlone ==
  ASSUME NEW X, NEW lists \in Seq(Seq(X)), NEW k \in DOMAIN lists,
         \A i \in DOMAIN lists \ {k} : lists[i] = <<>>
  PROVE  FlattenSeq(lists) = lists[k]
<1>0. /\ Len(lists) \in Nat /\ DOMAIN lists = 1 .. Len(lists) /\ Len(lists) # 0
      /\ \A i \in 1 .. Len(lists) : lists[i] \in Seq(X)
  OBVIOUS
<1>1. PICK f \in [1 .. Len(lists) -> Seq(X)] :
         /\ Flattens(f, lists, Len(lists))
         /\ FlattenSeq(lists) = f[Len(lists)]
         /\ \A n \in 1 .. Len(lists) : Range(f[n]) = UNION {Range(lists[i]) : i \in 1 .. n}
  BY <1>0, FlattenBy
<1> DEFINE reached == {n \in Nat : n + 1 \in 1 .. Len(lists) =>
                                     f[n + 1] = IF n + 1 < k THEN <<>> ELSE lists[k]}
<1>2. 0 \in reached
  <2>0. 1 \in 1 .. Len(lists) /\ 0 + 1 = 1 /\ (1 < k <=> k # 1) /\ 1 \in DOMAIN lists
    BY <1>0
  <2>1. f[1] = lists[1]
    BY <1>1, <2>0 DEF Flattens
  <2>2. f[1] = IF 1 < k THEN <<>> ELSE lists[k]
    BY <2>0, <2>1
  <2> QED BY <2>0, <2>2
<1>3. ASSUME NEW n \in reached PROVE n + 1 \in reached
  <2> DEFINE m == n + 2
  <2>0. m = (n + 1) + 1
    OBVIOUS
  <2> SUFFICES ASSUME m \in 1 .. Len(lists) PROVE f[m] = IF m < k THEN <<>> ELSE lists[k]
    <3> HIDE DEF m
    <3> QED BY <2>0
  <2>1. /\ n + 1 \in 1 .. Len(lists) /\ m - 1 = n + 1 /\ m # 1
        /\ f[n + 1] = IF n + 1 < k THEN <<>> ELSE lists[k]
    <3>1. n \in Nat /\ (n + 1 \in 1 .. Len(lists) =>
                            f[n + 1] = IF n + 1 < k THEN <<>> ELSE lists[k])
      OBVIOUS
    <3>2. n + 1 \in 1 .. Len(lists) /\ m - 1 = n + 1 /\ m # 1
      BY <1>0, <3>1
    <3> QED BY <3>1, <3>2
  <2>2. m < k => n + 1 < k
    BY <1>0
  <2>3. n + 1 < k /\ ~(m < k) <=> m = k
    BY <1>0
  <2> HIDE DEF m, reached
  <2>4. f[m] = f[n + 1] \o lists[m] /\ lists[m] \in Seq(X) /\ f[n + 1] \in Seq(X)
    BY <1>0, <1>1, <2>1 DEF Flattens
  <2>5. lists[k] \in Seq(X) /\ \A list \in Seq(X) : <<>> \o list = list /\ list \o <<>> = list
    BY <1>0, ConcatEmptySeq
  <2>6. CASE m < k
    <3>1. f[n + 1] = <<>> /\ lists[m] = <<>>
      <4>1. m # k /\ m \in DOMAIN lists
        BY <1>0, <2>1, <2>6
      <4> QED BY <2>1, <2>2, <2>6, <4>1
    <3> QED BY <2>4, <2>5, <2>6, <3>1
  <2>7. CASE m = k
    <3>1. f[n + 1] = <<>> /\ ~(m < k)
      BY <2>1, <2>3, <2>7
    <3> QED BY <2>4, <2>5, <2>7, <3>1
  <2>8. CASE ~(m < k) /\ m # k
    <3>1. f[n + 1] = lists[k] /\ lists[m] = <<>>
      BY <1>0, <2>1, <2>3, <2>8
    <3> QED BY <2>4, <2>5, <2>8, <3>1
  <2> QED BY <2>6, <2>7, <2>8
<1>4. reached = Nat
  <2>1. reached \in SUBSET Nat
    OBVIOUS
  <2> HIDE DEF reached
  <2> QED BY <1>2, <1>3, <2>1, SetInduction
<1>5. Len(lists) - 1 \in Nat /\ (Len(lists) - 1) + 1 = Len(lists) /\ ~(Len(lists) < k)
  BY <1>0
<1>6. f[Len(lists)] = lists[k]
  <2>1. Len(lists) - 1 \in reached
    BY <1>4, <1>5
  <2> QED BY <1>0, <1>5, <2>1
<1> QED BY <1>1, <1>6

(***************************************************************************)
(* Tables and what they serve.                                             *)
(***************************************************************************)
\* What a table is made of (Table.py).
SeasonMaps == UNION {[set -> Seq(Urls)] : set \in SUBSET (0 .. Absolute)}
Entries == [title : Titles, absolute : BOOLEAN, seasons : SeasonMaps]
Tables == Seq(Entries)

\* A season map is a function from some seasons to lists of URLs.
LEMMA SeasonMapIs ==
  ASSUME NEW f
  PROVE  f \in SeasonMaps <=> /\ f = [s \in DOMAIN f |-> f[s]]
                              /\ DOMAIN f \in SUBSET (0 .. Absolute)
                              /\ \A s \in DOMAIN f : f[s] \in Seq(Urls)
<1>1. ASSUME f \in SeasonMaps
      PROVE  /\ f = [s \in DOMAIN f |-> f[s]]
             /\ DOMAIN f \in SUBSET (0 .. Absolute)
             /\ \A s \in DOMAIN f : f[s] \in Seq(Urls)
  <2>1. PICK set \in SUBSET (0 .. Absolute) : f \in [set -> Seq(Urls)]
    BY <1>1 DEF SeasonMaps
  <2> QED BY <2>1
<1>2. ASSUME f = [s \in DOMAIN f |-> f[s]], DOMAIN f \in SUBSET (0 .. Absolute),
             \A s \in DOMAIN f : f[s] \in Seq(Urls)
      PROVE  f \in SeasonMaps
  <2>1. f \in [DOMAIN f -> Seq(Urls)]
    BY <1>2
  <2> QED BY <1>2, <2>1 DEF SeasonMaps
<1> QED BY <1>1, <1>2

\* With sets one season and leaves the others.
LEMMA WithIs ==
  ASSUME NEW f \in SeasonMaps, NEW key \in 0 .. Absolute, NEW value \in Seq(Urls)
  PROVE  /\ With(f, key, value) \in SeasonMaps
         /\ DOMAIN With(f, key, value) = DOMAIN f \cup {key}
         /\ With(f, key, value)[key] = value
         /\ \A s \in DOMAIN f \ {key} : With(f, key, value)[s] = f[s]
<1> DEFINE g == With(f, key, value)
<1>1. /\ DOMAIN f \in SUBSET (0 .. Absolute)
      /\ \A s \in DOMAIN f : f[s] \in Seq(Urls)
  BY SeasonMapIs
<1>2. /\ g = [k \in DOMAIN f \cup {key} |-> IF k = key THEN value ELSE f[k]]
  BY DEF With
<1> HIDE DEF g
<1>3. DOMAIN g = DOMAIN f \cup {key}
  BY <1>2
<1>4. g[key] = value /\ \A s \in DOMAIN f \ {key} : g[s] = f[s]
  BY <1>2
<1>5. g = [s \in DOMAIN g |-> g[s]]
  BY <1>2
<1>6. DOMAIN g \in SUBSET (0 .. Absolute)
  BY <1>1, <1>3
<1>7. \A s \in DOMAIN g : g[s] \in Seq(Urls)
  BY <1>1, <1>3, <1>4
<1>8. g \in SeasonMaps
  BY <1>5, <1>6, <1>7, SeasonMapIs
<1> QED BY <1>3, <1>4, <1>8 DEF g

\* Without leaves a season map.
LEMMA WithoutIs ==
  ASSUME NEW f \in SeasonMaps, NEW key
  PROVE  Without(f, key) \in SeasonMaps
<1> DEFINE g == Without(f, key)
<1>1. /\ DOMAIN f \in SUBSET (0 .. Absolute)
      /\ \A s \in DOMAIN f : f[s] \in Seq(Urls)
  BY SeasonMapIs
<1>2. g = [k \in DOMAIN f \ {key} |-> f[k]]
  BY DEF Without
<1> HIDE DEF g
<1>3. /\ g = [s \in DOMAIN g |-> g[s]] /\ DOMAIN g \in SUBSET (0 .. Absolute)
      /\ \A s \in DOMAIN g : g[s] \in Seq(Urls)
  BY <1>1, <1>2
<1> QED BY <1>3, SeasonMapIs DEF g

\* An entry and its fields.
LEMMA EntryIs ==
  ASSUME NEW e
  PROVE  /\ e \in Entries => /\ e = Entry(e.title, e.absolute, e.seasons)
                             /\ e.title \in Titles /\ e.absolute \in BOOLEAN
                             /\ e.seasons \in SeasonMaps
         /\ \A title \in Titles, absolute \in BOOLEAN, seasons \in SeasonMaps :
              /\ Entry(title, absolute, seasons) \in Entries
              /\ Entry(title, absolute, seasons).title = title
              /\ Entry(title, absolute, seasons).absolute = absolute
              /\ Entry(title, absolute, seasons).seasons = seasons
BY DEF Entries, Entry

\* A new entry has no season.
LEMMA NoSeasonsIs == <<>> \in SeasonMaps /\ DOMAIN <<>> = {}
<1>1. DOMAIN <<>> = {} /\ <<>> = [s \in DOMAIN <<>> |-> <<>>[s]]
  OBVIOUS
<1> QED BY <1>1, SeasonMapIs

\* The tables the program is given are tables.
LEMMA TableIs ==
  ASSUME NEW data, IsTable(data)
  PROVE  data \in Tables
<1>1. ASSUME NEW e \in Range(data) PROVE e \in Entries
  <2>1. /\ e = Entry(e.title, e.absolute, e.seasons)
        /\ e.title \in Titles /\ e.absolute \in BOOLEAN
        /\ DOMAIN e.seasons \subseteq 0 .. Absolute
        /\ e.seasons \in [DOMAIN e.seasons -> Seq(Urls)]
    BY DEF IsTable
  <2>2. e.seasons \in SeasonMaps
    BY <2>1 DEF SeasonMaps
  <2>3. Entry(e.title, e.absolute, e.seasons) \in Entries
    BY <2>1, <2>2, EntryIs
  <2> QED BY <2>1, <2>3, Zenon
<1>2. data \in Seq(Range(data))
  BY DEF IsTable
<1>3. Len(data) \in Nat /\ data \in [1 .. Len(data) -> Range(data)]
  BY <1>2
<1>4. data \in [1 .. Len(data) -> Entries]
  BY <1>1, <1>3
<1> QED BY <1>3, <1>4, IsASeq DEF Tables

\* An entry with other seasons.
LEMMA NewSeasons ==
  ASSUME NEW e \in Entries, NEW seasons \in SeasonMaps
  PROVE  /\ [e EXCEPT !.seasons = seasons] \in Entries
         /\ [e EXCEPT !.seasons = seasons].title = e.title
         /\ [e EXCEPT !.seasons = seasons].absolute = e.absolute
         /\ [e EXCEPT !.seasons = seasons].seasons = seasons
BY DEF Entries

\* An entry with another title.
LEMMA NewTitle ==
  ASSUME NEW e \in Entries, NEW title \in Titles
  PROVE  /\ [e EXCEPT !.title = title] \in Entries
         /\ [e EXCEPT !.title = title].title = title
         /\ [e EXCEPT !.title = title].absolute = e.absolute
         /\ [e EXCEPT !.title = title].seasons = e.seasons
BY DEF Entries

\* One entry serves at least what another does.
Covers(new, old) ==
  /\ Key[new.title] = Key[old.title]
  /\ \A s \in DOMAIN old.seasons : /\ s \in DOMAIN new.seasons
                                   /\ Range(old.seasons[s]) \subseteq Range(new.seasons[s])

\* A fact of the table is served by an entry.
Serves(e, fact) ==
  \E s \in DOMAIN e.seasons : \E url \in Range(e.seasons[s]) :
    fact = <<Key[e.title], s, Norm[url]>>

\* The facts of a table are those its entries serve.
LEMMA FactsIs ==
  ASSUME NEW data, NEW fact
  PROVE  fact \in Facts(data) <=> \E e \in Range(data) : Serves(e, fact)
<1> DEFINE Of(e) == UNION {{<<Key[e.title], s, Norm[url]>> : url \in Range(e.seasons[s])} :
                             s \in DOMAIN e.seasons}
<1>1. ASSUME NEW e PROVE fact \in Of(e) <=> Serves(e, fact)
  BY DEF Serves
<1>2. Facts(data) = UNION {Of(e) : e \in Range(data)}
  BY DEF Facts
<1> HIDE DEF Of
<1> QED BY <1>1, <1>2

\* A table whose entries cover those of another serves what it serves.
LEMMA MoreFacts ==
  ASSUME NEW old, NEW new, \A e \in Range(old) : \E d \in Range(new) : Covers(d, e)
  PROVE  Facts(old) \subseteq Facts(new)
<1> SUFFICES ASSUME NEW fact \in Facts(old) PROVE fact \in Facts(new)
  OBVIOUS
<1>1. PICK e \in Range(old) : Serves(e, fact)
  BY FactsIs
<1>2. PICK d \in Range(new) : Covers(d, e)
  OBVIOUS
<1>3. Serves(d, fact)
  BY <1>1, <1>2 DEF Serves, Covers
<1> QED BY <1>2, <1>3, FactsIs

\* The order of the entries is of no matter to what the table serves.
LEMMA SameFacts ==
  ASSUME NEW old, NEW new, Range(old) = Range(new)
  PROVE  Facts(old) = Facts(new)
BY FactsIs

\* Publishing sorts the table and loses nothing (Table.py, sync).
LEMMA SortedByTitleIs ==
  ASSUME NEW data \in Tables
  PROVE  /\ SortedByTitle(data) \in Tables
         /\ Range(SortedByTitle(data)) = Range(data)
         /\ Facts(SortedByTitle(data)) = Facts(data)
<1> DEFINE before == {p \in (DOMAIN data) \X (DOMAIN data) : data[p[1]].title < data[p[2]].title}
<1>1. ASSUME NEW i \in DOMAIN data PROVE data[i].title \in Nat
  <2>1. data[i] \in Entries
    BY DEF Tables
  <2>2. data[i].title \in Titles
    BY <2>1 DEF Entries
  <2> QED BY <2>2, RowsAssumption
<1>2. \A i, j \in DOMAIN data : <<i, j>> \in before <=> data[i].title < data[j].title
  OBVIOUS
<1> HIDE DEF before
<1>3. Sorts(before, DOMAIN data)
  BY <1>1, <1>2 DEF Sorts
<1>4. SortedByTitle(data) = Arranged(data, before)
  BY DEF SortedByTitle, before
<1>5. SortedByTitle(data) \in Tables /\ Range(SortedByTitle(data)) = Range(data)
  BY <1>3, <1>4, ArrangedIs DEF Tables
<1> QED BY <1>5, SameFacts

\* The position of a title the table has.
LEMMA AtIs ==
  ASSUME NEW data \in Tables, NEW title, Has(data, title)
  PROVE  At(data, title) \in DOMAIN data /\ data[At(data, title)].title = title
<1>1. Positions(data, title) \in SUBSET Nat /\ Positions(data, title) # {}
  BY DEF Positions, Has, Tables
<1>2. At(data, title) \in Positions(data, title)
  BY <1>1, LowestIs DEF At
<1> QED BY <1>2 DEF Positions

\* An entry whose lists only grow serves what it served.
LEMMA SetSeasonsIs ==
  ASSUME NEW data \in Tables, NEW i \in DOMAIN data, NEW seasons \in SeasonMaps
  PROVE  /\ SetSeasons(data, i, seasons) \in Tables
         /\ (\A s \in DOMAIN data[i].seasons :
               /\ s \in DOMAIN seasons
               /\ Range(data[i].seasons[s]) \subseteq Range(seasons[s]))
            => Facts(data) \subseteq Facts(SetSeasons(data, i, seasons))
<1> DEFINE e == [data[i] EXCEPT !.seasons = seasons]
           new == SetSeasons(data, i, seasons)
<1>1. data[i] \in Entries
  BY DEF Tables
<1>2. e \in Entries /\ e.title = data[i].title /\ e.seasons = seasons
  BY <1>1, NewSeasons
<1>3. new = [data EXCEPT ![i] = e]
  BY DEF SetSeasons
<1> HIDE DEF e, new
<1>4. new \in Tables /\ DOMAIN new = DOMAIN data
  BY <1>2, <1>3 DEF Tables
<1>5. ASSUME \A s \in DOMAIN data[i].seasons :
               /\ s \in DOMAIN seasons
               /\ Range(data[i].seasons[s]) \subseteq Range(seasons[s])
      PROVE  Facts(data) \subseteq Facts(new)
  <2>1. ASSUME NEW j \in DOMAIN data PROVE \E d \in Range(new) : Covers(d, data[j])
    <3>1. CASE j = i
      <4>1. new[i] = e /\ e \in Range(new)
        BY <1>3, <1>4 DEF Range
      <4> QED BY <1>2, <1>5, <3>1, <4>1 DEF Covers
    <3>2. CASE j # i
      <4>1. new[j] = data[j] /\ new[j] \in Range(new)
        BY <1>3, <1>4, <3>2 DEF Range
      <4> QED BY <4>1 DEF Covers
    <3> QED BY <3>1, <3>2
  <2>2. \A e1 \in Range(data) : \E d \in Range(new) : Covers(d, e1)
    BY <2>1 DEF Range
  <2> QED BY <2>2, MoreFacts
<1> QED BY <1>4, <1>5 DEF new

(***************************************************************************)
(* The methods of the table (Table.py).                                    *)
(***************************************************************************)
\* A table that serves all another does.
Extends(new, old) == new \in Tables /\ Facts(old) \subseteq Facts(new)

\* A longer list for one season leaves every list as long as it was.
LEMMA WithMore ==
  ASSUME NEW f \in SeasonMaps, NEW key \in 0 .. Absolute, NEW value \in Seq(Urls),
         key \in DOMAIN f => Range(f[key]) \subseteq Range(value)
  PROVE  /\ With(f, key, value) \in SeasonMaps
         /\ \A s \in DOMAIN f :
              /\ s \in DOMAIN With(f, key, value)
              /\ Range(f[s]) \subseteq Range(With(f, key, value)[s])
<1> DEFINE g == With(f, key, value)
<1>1. /\ g \in SeasonMaps /\ DOMAIN g = DOMAIN f \cup {key} /\ g[key] = value
      /\ \A s \in DOMAIN f \ {key} : g[s] = f[s]
  BY WithIs
<1> HIDE DEF g
<1>2. \A s \in DOMAIN f : s \in DOMAIN g /\ Range(f[s]) \subseteq Range(g[s])
  BY <1>1
<1> QED BY <1>1, <1>2 DEF g

\* One entry more takes nothing away.
LEMMA AppendedEntry ==
  ASSUME NEW data \in Tables, NEW e \in Entries
  PROVE  Append(data, e) \in Tables /\ Facts(data) \subseteq Facts(Append(data, e))
<1> DEFINE new == Append(data, e)
<1>1. /\ new \in Tables
      /\ DOMAIN data \subseteq DOMAIN new /\ \A i \in DOMAIN data : new[i] = data[i]
      /\ e \in Range(new)
  <2>1. /\ Len(new) = Len(data) + 1 /\ new[Len(data) + 1] = e /\ new \in Tables
        /\ \A i \in 1 .. Len(data) : new[i] = data[i]
        /\ DOMAIN data = 1 .. Len(data) /\ DOMAIN new = 1 .. (Len(data) + 1)
        /\ Len(data) \in Nat
    BY DEF Tables
  <2> HIDE DEF new
  <2>2. Len(data) + 1 \in DOMAIN new
    BY <2>1
  <2> QED BY <2>1, <2>2 DEF Range
<1> HIDE DEF new
<1>2. \A d \in Range(data) : d \in Range(new)
  BY <1>1 DEF Range
<1>3. Facts(data) \subseteq Facts(new)
  BY <1>2, FactsIs
<1> QED BY <1>1, <1>3 DEF new

\* Table.appendSerie takes nothing away, and the title is there.
LEMMA AppendSerieIs ==
  ASSUME NEW data \in Tables, NEW title \in Titles, NEW absolute \in BOOLEAN
  PROVE  Extends(AppendSerie(data, title, absolute), data)
         /\ Has(AppendSerie(data, title, absolute), title)
<1>1. CASE Has(data, title)
  BY <1>1 DEF AppendSerie, Extends
<1>2. CASE ~Has(data, title)
  <2> DEFINE e == Entry(title, absolute, <<>>)
             longer == Append(data, e)
             new == SortedByTitle(longer)
  <2>1. e \in Entries /\ e.title = title
    BY EntryIs, NoSeasonsIs
  <2> HIDE DEF e
  <2>2. longer \in Tables /\ Facts(data) \subseteq Facts(longer)
    BY <2>1, AppendedEntry
  <2>3. e \in Range(longer)
    <3>1. longer[Len(data) + 1] = e /\ Len(data) + 1 \in DOMAIN longer
      BY DEF Tables
    <3> QED BY <3>1 DEF Range
  <2> HIDE DEF longer
  <2>4. new \in Tables /\ Facts(new) = Facts(longer) /\ Range(new) = Range(longer)
    BY <2>2, SortedByTitleIs
  <2>5. AppendSerie(data, title, absolute) = new
    BY <1>2 DEF AppendSerie, longer, e
  <2> HIDE DEF new
  <2>6. Has(new, title)
    BY <2>1, <2>3, <2>4 DEF Has, Positions, Range
  <2> QED BY <2>2, <2>4, <2>5, <2>6 DEF Extends
<1> QED BY <1>1, <1>2

\* The entry at a position.
LEMMA EntryAt ==
  ASSUME NEW data \in Tables, NEW i \in DOMAIN data
  PROVE  data[i] \in Entries /\ data[i].title \in Titles /\ data[i].seasons \in SeasonMaps
<1>1. data[i] \in Entries
  BY DEF Tables
<1> QED BY <1>1, EntryIs

\* The list of a season of the entry at a position.
LEMMA UrlsAt ==
  ASSUME NEW data \in Tables, NEW i \in DOMAIN data, NEW s \in DOMAIN data[i].seasons
  PROVE  data[i].seasons[s] \in Seq(Urls) /\ s \in 0 .. Absolute
<1>1. data[i].seasons \in SeasonMaps
  BY EntryAt
<1> QED BY <1>1, SeasonMapIs

\* Table.appendSeason takes nothing away.
LEMMA AppendSeasonIs ==
  ASSUME NEW data \in Tables, NEW title \in Titles, NEW season \in 0 .. Absolute
  PROVE  Extends(AppendSeason(data, title, season), data)
<1> DEFINE known == AppendSerie(data, title, FALSE)
           i == At(known, title)
           old == known[i].seasons
           new == With(old, season, <<>>)
<1>1. Extends(known, data) /\ Has(known, title)
  BY AppendSerieIs
<1>2. known \in Tables
  BY <1>1 DEF Extends
<1> HIDE DEF known
<1>3. i \in DOMAIN known
  BY <1>1, <1>2, AtIs
<1> HIDE DEF i
<1>4. old \in SeasonMaps
  BY <1>2, <1>3, EntryAt
<1>5. CASE known[i].absolute # (season = Absolute) \/ season \in DOMAIN old
  <2>1. AppendSeason(data, title, season) = known
    BY <1>5 DEF AppendSeason, known, i
  <2> QED BY <1>1, <2>1
<1>6. CASE ~(known[i].absolute # (season = Absolute) \/ season \in DOMAIN old)
  <2>1. AppendSeason(data, title, season) = SetSeasons(known, i, new)
    BY <1>6 DEF AppendSeason, known, i
  <2>2. new \in SeasonMaps /\ \A s \in DOMAIN old : s \in DOMAIN new /\ new[s] = old[s]
    <3>1. <<>> \in Seq(Urls)
      OBVIOUS
    <3> HIDE DEF old
    <3>2. /\ new \in SeasonMaps /\ DOMAIN new = DOMAIN old \cup {season}
          /\ \A s \in DOMAIN old \ {season} : new[s] = old[s]
      BY <1>4, <3>1, WithIs
    <3> HIDE DEF new
    <3> QED BY <1>6, <3>2
  <2> HIDE DEF new
  <2>3. SetSeasons(known, i, new) \in Tables /\ Facts(known) \subseteq Facts(SetSeasons(known, i, new))
    BY <1>2, <1>3, <2>2, SetSeasonsIs
  <2> QED BY <1>1, <2>1, <2>3 DEF Extends
<1> QED BY <1>5, <1>6

\* The elements of two lists, one after the other.
LEMMA Lengthened ==
  ASSUME NEW old \in Seq(Urls), NEW more \in Seq(Urls)
  PROVE  old \o more \in Seq(Urls) /\ Range(old \o more) = Range(old) \cup Range(more)
BY ConcatProperties, RangeConcatenation

\* Table.appendUrls takes nothing away.
LEMMA AppendUrlsIs ==
  ASSUME NEW data \in Tables, NEW title \in Titles, NEW season \in 0 .. Absolute,
         NEW urls \in Seq(Urls)
  PROVE  Extends(AppendUrls(data, title, season, urls), data)
<1> DEFINE known == IF HasSeason(data, title, season) THEN data
                    ELSE AppendSeason(data, title, season)
           i == At(known, title)
           old == known[i].seasons[season]
           fresh == Chosen(urls, {n \in DOMAIN urls : ~Contains(old, urls[n])})
           new == With(known[i].seasons, season, old \o fresh)
<1>1. Extends(known, data)
  BY AppendSeasonIs DEF Extends
<1>2. known \in Tables
  BY <1>1 DEF Extends
<1> HIDE DEF known
<1>3. CASE ~HasSeason(known, title, season)
  <2>1. AppendUrls(data, title, season, urls) = known
    BY <1>3 DEF AppendUrls, known
  <2> QED BY <1>1, <2>1
<1>4. CASE HasSeason(known, title, season)
  <2>1. AppendUrls(data, title, season, urls) = SetSeasons(known, i, new)
    BY <1>4 DEF AppendUrls, known, i
  <2>2. i \in DOMAIN known /\ season \in DOMAIN known[i].seasons
    BY <1>2, <1>4, AtIs DEF HasSeason
  <2> HIDE DEF i
  <2>3. old \in Seq(Urls) /\ known[i].seasons \in SeasonMaps
    BY <1>2, <2>2, UrlsAt, EntryAt
  <2>4. fresh \in Seq(Urls)
    BY ChosenIs
  <2> HIDE DEF fresh
  <2>5. old \o fresh \in Seq(Urls) /\ Range(old) \subseteq Range(old \o fresh)
    BY <2>3, <2>4, Lengthened
  <2>6. /\ new \in SeasonMaps
        /\ \A s \in DOMAIN known[i].seasons :
             s \in DOMAIN new /\ Range(known[i].seasons[s]) \subseteq Range(new[s])
    <3> DEFINE seasons == known[i].seasons
               longer == old \o fresh
    <3>1. /\ seasons \in SeasonMaps /\ longer \in Seq(Urls)
          /\ Range(seasons[season]) \subseteq Range(longer)
      BY <2>3, <2>5
    <3>2. new = With(seasons, season, longer)
      OBVIOUS
    <3> HIDE DEF seasons, longer, new, old
    <3>3. /\ With(seasons, season, longer) \in SeasonMaps
          /\ \A s \in DOMAIN seasons :
               /\ s \in DOMAIN With(seasons, season, longer)
               /\ Range(seasons[s]) \subseteq Range(With(seasons, season, longer)[s])
      BY <3>1, WithMore
    <3> QED BY <3>2, <3>3 DEF seasons
  <2> HIDE DEF new
  <2>7. SetSeasons(known, i, new) \in Tables /\ Facts(known) \subseteq Facts(SetSeasons(known, i, new))
    BY <1>2, <2>2, <2>6, SetSeasonsIs
  <2> QED BY <1>1, <2>1, <2>7 DEF Extends
<1> QED BY <1>3, <1>4

\* The place of a URL a list has.
LEMMA PlaceOfIs ==
  ASSUME NEW urls \in Seq(Urls), NEW url, Contains(urls, url)
  PROVE  PlaceOf(urls, url) \in 1 .. Len(urls)
<1> DEFINE places == {n \in DOMAIN urls : urls[n] = url}
<1>1. places \in SUBSET Nat /\ places # {}
  BY DEF Contains
<1>2. Lowest(places) \in places
  BY <1>1, LowestIs
<1> QED BY <1>2 DEF PlaceOf

\* The removals of the form leave a table.
LEMMA RemovalsAre ==
  ASSUME NEW data \in Tables, NEW title, NEW season, NEW url
  PROVE  /\ RemoveSerie(data, title) \in Tables
         /\ RemoveSeason(data, title, season) \in Tables
         /\ RemoveUrl(data, title, season, url) \in Tables
<1>1. RemoveSerie(data, title) \in Tables
  <2>1. CASE Has(data, title)
    <3>1. At(data, title) \in 1 .. Len(data)
      BY <2>1, AtIs DEF Tables
    <3> QED BY <2>1, <3>1, RemoveAtIs DEF RemoveSerie, Tables
  <2> QED BY <2>1 DEF RemoveSerie
<1> DEFINE i == At(data, title)
<1>2. HasSeason(data, title, season) =>
        /\ i \in DOMAIN data /\ data[i].seasons \in SeasonMaps
        /\ data[i].seasons[season] \in Seq(Urls) /\ season \in 0 .. Absolute
  BY AtIs, EntryAt, UrlsAt DEF HasSeason
<1>3. RemoveSeason(data, title, season) \in Tables
  <2>1. CASE HasSeason(data, title, season)
    <3>1. Without(data[i].seasons, season) \in SeasonMaps
      BY <1>2, <2>1, WithoutIs
    <3> QED BY <1>2, <2>1, <3>1, SetSeasonsIs DEF RemoveSeason
  <2> QED BY <2>1 DEF RemoveSeason
<1>4. RemoveUrl(data, title, season, url) \in Tables
  <2> DEFINE urls == data[i].seasons[season]
             left == RemoveAt(urls, PlaceOf(urls, url))
  <2>1. CASE HasSeason(data, title, season) /\ Contains(urls, url)
    <3>1. left \in Seq(Urls)
      BY <1>2, <2>1, PlaceOfIs, RemoveAtIs
    <3>2. With(data[i].seasons, season, left) \in SeasonMaps
      BY <1>2, <2>1, <3>1, WithIs
    <3> QED BY <1>2, <2>1, <3>2, SetSeasonsIs DEF RemoveUrl
  <2>2. CASE ~(HasSeason(data, title, season) /\ Contains(urls, url))
    BY <2>2 DEF RemoveUrl
  <2> QED BY <2>1, <2>2
<1> QED BY <1>1, <1>3, <1>4

\* Table.renameUrl leaves a table.
LEMMA RenamedUrlIs ==
  ASSUME NEW data \in Tables, NEW title, NEW season, NEW url, NEW newUrl \in Urls
  PROVE  RenameUrl(data, title, season, url, newUrl) \in Tables
<1> DEFINE i == At(data, title)
<1>1. HasSeason(data, title, season) =>
        /\ i \in DOMAIN data /\ data[i].seasons \in SeasonMaps
        /\ data[i].seasons[season] \in Seq(Urls) /\ season \in 0 .. Absolute
  BY AtIs, EntryAt, UrlsAt DEF HasSeason
<1>2. RenameUrl(data, title, season, url, newUrl) \in Tables
  <2> DEFINE urls == data[i].seasons[season]
             after == [urls EXCEPT ![PlaceOf(urls, url)] = newUrl]
  <2>1. CASE HasSeason(data, title, season) /\ ~Contains(urls, newUrl) /\ Contains(urls, url)
    <3>1. after \in Seq(Urls)
      <4>1. urls \in Seq(Urls)
        BY <1>1, <2>1
      <4> HIDE DEF urls
      <4>2. PlaceOf(urls, url) \in 1 .. Len(urls)
        BY <2>1, <4>1, PlaceOfIs
      <4> QED BY <4>1, <4>2, ExceptSeq
    <3>2. With(data[i].seasons, season, after) \in SeasonMaps
      BY <1>1, <2>1, <3>1, WithIs
    <3> QED BY <1>1, <2>1, <3>2, SetSeasonsIs DEF RenameUrl
  <2>2. CASE ~(HasSeason(data, title, season) /\ ~Contains(urls, newUrl) /\ Contains(urls, url))
    BY <2>2 DEF RenameUrl
  <2> QED BY <2>1, <2>2
<1> QED BY <1>2

\* Table.renameSerie and renameSeason leave a table.
LEMMA RenamingsAre ==
  ASSUME NEW data \in Tables, NEW title, NEW season,
         NEW newTitle \in Titles, NEW newSeason \in 0 .. Absolute
  PROVE  /\ RenameSerie(data, title, newTitle) \in Tables
         /\ RenameSeason(data, title, season, newSeason) \in Tables
<1> DEFINE i == At(data, title)
<1>1. RenameSerie(data, title, newTitle) \in Tables
  <2>1. CASE Has(data, newTitle) \/ ~Has(data, title)
    BY <2>1 DEF RenameSerie
  <2>2. CASE ~(Has(data, newTitle) \/ ~Has(data, title))
    <3> DEFINE renamed == [data EXCEPT ![i].title = newTitle]
    <3>1. i \in DOMAIN data /\ data[i] \in Entries
      BY <2>2, AtIs, EntryAt
    <3>2. [data[i] EXCEPT !.title = newTitle] \in Entries
      BY <3>1, NewTitle
    <3>3. renamed = [data EXCEPT ![i] = [data[i] EXCEPT !.title = newTitle]]
      OBVIOUS
    <3>4. renamed \in Tables
      BY <3>1, <3>2, <3>3 DEF Tables
    <3> HIDE DEF renamed
    <3>5. SortedByTitle(renamed) \in Tables
      BY <3>4, SortedByTitleIs
    <3> QED BY <2>2, <3>5 DEF RenameSerie, renamed
  <2> QED BY <2>1, <2>2
<1>2. HasSeason(data, title, season) =>
        /\ i \in DOMAIN data /\ data[i].seasons \in SeasonMaps
        /\ data[i].seasons[season] \in Seq(Urls) /\ season \in 0 .. Absolute
  BY AtIs, EntryAt, UrlsAt DEF HasSeason
<1>3. RenameSeason(data, title, season, newSeason) \in Tables
  <2>1. CASE HasSeason(data, title, newSeason) \/ ~HasSeason(data, title, season)
    BY <2>1 DEF RenameSeason
  <2>2. CASE ~(HasSeason(data, title, newSeason) \/ ~HasSeason(data, title, season))
    <3>1. Without(data[i].seasons, season) \in SeasonMaps
      BY <1>2, <2>2, WithoutIs
    <3>2. With(Without(data[i].seasons, season), newSeason, data[i].seasons[season]) \in SeasonMaps
      BY <1>2, <2>2, <3>1, WithIs
    <3> QED BY <1>2, <2>2, <3>2, SetSeasonsIs DEF RenameSeason
  <2> QED BY <2>1, <2>2
<1> QED BY <1>1, <1>3

(***************************************************************************)
(* An entry found and amended (mapping_automation.py).                     *)
(***************************************************************************)
\* The entry the automation finds for a title has a title like it.
LEMMA FindEntryIs ==
  ASSUME NEW data \in Tables, NEW title, FindEntry(data, title) # 0
  PROVE  /\ FindEntry(data, title) \in DOMAIN data
         /\ Key[data[FindEntry(data, title)].title] = Key[title]
<1> DEFINE similar == {i \in DOMAIN data : Key[data[i].title] = Key[title]}
<1>1. CASE Has(data, title)
  <2>1. FindEntry(data, title) = At(data, title)
    BY <1>1 DEF FindEntry
  <2> QED BY <1>1, <2>1, AtIs
<1>2. CASE ~Has(data, title)
  <2>1. FindEntry(data, title) = Lowest(similar) /\ similar # {}
    BY <1>2 DEF FindEntry
  <2>2. similar \in SUBSET Nat
    BY DEF Tables
  <2>3. Lowest(similar) \in similar
    BY <2>1, <2>2, LowestIs
  <2> QED BY <2>1, <2>3
<1> QED BY <1>1, <1>2

\* An entry put in the place of another costs what only the other served.
LEMMA Replacing ==
  ASSUME NEW data \in Tables, NEW i \in DOMAIN data, NEW e \in Entries
  PROVE  /\ [data EXCEPT ![i] = e] \in Tables
         /\ \A fact \in Facts(data) \ Facts([data EXCEPT ![i] = e]) :
              Serves(data[i], fact) /\ ~Serves(e, fact)
<1> DEFINE new == [data EXCEPT ![i] = e]
<1>1. /\ new \in Tables /\ DOMAIN new = DOMAIN data /\ new[i] = e
      /\ \A j \in DOMAIN data \ {i} : new[j] = data[j]
  BY DEF Tables
<1> HIDE DEF new
<1>2. ASSUME NEW fact \in Facts(data) \ Facts(new)
      PROVE  Serves(data[i], fact) /\ ~Serves(e, fact)
  <2>1. \A d \in Range(new) : ~Serves(d, fact)
    BY <1>2, FactsIs
  <2>2. e \in Range(new) /\ \A j \in DOMAIN data \ {i} : data[j] \in Range(new)
    BY <1>1 DEF Range
  <2>3. PICK d \in Range(data) : Serves(d, fact)
    BY <1>2, FactsIs
  <2>4. PICK j \in DOMAIN data : d = data[j]
    BY DEF Range
  <2>5. j = i
    BY <2>1, <2>2, <2>3, <2>4
  <2> QED BY <2>1, <2>2, <2>3, <2>4, <2>5
<1> QED BY <1>1, <1>2 DEF new

\* The list of a season, empty when the entry does not have it.
SeasonOf(e, season) == IF season \in DOMAIN e.seasons THEN e.seasons[season] ELSE <<>>

\* It is a list of URLs.
LEMMA SeasonOfIs ==
  ASSUME NEW e \in Entries, NEW season
  PROVE  SeasonOf(e, season) \in Seq(Urls)
<1>1. <<>> \in Seq(Urls)
  OBVIOUS
<1> QED BY <1>1, EntryIs, SeasonMapIs DEF SeasonOf

\* A new list for a season costs what the old list had and the new one has not.
LEMMA EntryWithSeason ==
  ASSUME NEW e \in Entries, NEW season \in 0 .. Absolute, NEW after \in Seq(Urls)
  PROVE  /\ SeasonOf(e, season) \in Seq(Urls)
         /\ [e EXCEPT !.seasons = With(e.seasons, season, after)] \in Entries
         /\ \A fact : Serves(e, fact)
                      /\ ~Serves([e EXCEPT !.seasons = With(e.seasons, season, after)], fact)
              => /\ fact \in {<<Key[e.title], season, Norm[u]>> : u \in Range(SeasonOf(e, season))}
                 /\ ~(Range(SeasonOf(e, season)) \subseteq Range(after))
<1> DEFINE g == With(e.seasons, season, after)
           d == [e EXCEPT !.seasons = g]
<1>1. e.seasons \in SeasonMaps
  BY EntryIs
<1>2. SeasonOf(e, season) \in Seq(Urls)
  <2>1. <<>> \in Seq(Urls)
    OBVIOUS
  <2> QED BY <1>1, <2>1, SeasonMapIs DEF SeasonOf
<1>3. /\ g \in SeasonMaps /\ DOMAIN g = DOMAIN e.seasons \cup {season} /\ g[season] = after
      /\ \A s \in DOMAIN e.seasons \ {season} : g[s] = e.seasons[s]
  BY <1>1, WithIs
<1>4. d \in Entries /\ d.title = e.title /\ d.seasons = g
  BY <1>3, NewSeasons
<1> HIDE DEF d, g
<1>5. ASSUME NEW fact, Serves(e, fact), ~Serves(d, fact)
      PROVE  /\ fact \in {<<Key[e.title], season, Norm[u]>> : u \in Range(SeasonOf(e, season))}
             /\ ~(Range(SeasonOf(e, season)) \subseteq Range(after))
  <2>0. PICK s \in DOMAIN e.seasons :
          \E u \in Range(e.seasons[s]) : fact = <<Key[e.title], s, Norm[u]>>
    BY <1>5 DEF Serves
  <2>1. PICK u \in Range(e.seasons[s]) : fact = <<Key[e.title], s, Norm[u]>>
    BY <2>0
  <2>2. s = season
    BY <1>3, <1>4, <1>5, <2>1 DEF Serves
  <2>3. SeasonOf(e, season) = e.seasons[season]
    BY <2>1, <2>2 DEF SeasonOf
  <2>4. ~(u \in Range(after))
    BY <1>3, <1>4, <1>5, <2>1, <2>2 DEF Serves
  <2> QED BY <2>1, <2>2, <2>3, <2>4
<1> QED BY <1>2, <1>4, <1>5 DEF d, g

\* One URL more, as the automation appends it, takes nothing away.
LEMMA AmendedIs ==
  ASSUME NEW data \in Tables, NEW title \in Titles, NEW season \in 0 .. Absolute,
         NEW url \in Urls
  PROVE  Extends(Amended(data, title, season, url), data)
<1> DEFINE i == FindEntry(data, title)
           entry == IF i = 0 THEN Entry(title, FALSE, <<>>) ELSE [data[i] EXCEPT !.title = title]
           urls == SeasonOf(entry, season)
           after == Append(urls, url)
           amended == [entry EXCEPT !.seasons = With(entry.seasons, season, after)]
<1>1. entry \in Entries
  <2>1. CASE i = 0
    BY <2>1, EntryIs, NoSeasonsIs
  <2>2. CASE i # 0
    BY <2>2, FindEntryIs, EntryAt, NewTitle
  <2> QED BY <2>1, <2>2
<1>2. i # 0 => /\ i \in DOMAIN data /\ data[i] \in Entries
               /\ \A fact : Serves(data[i], fact) <=> Serves(entry, fact)
  <2> SUFFICES ASSUME i # 0
               PROVE  /\ i \in DOMAIN data /\ data[i] \in Entries
                      /\ \A fact : Serves(data[i], fact) <=> Serves(entry, fact)
    OBVIOUS
  <2>1. i \in DOMAIN data /\ data[i] \in Entries /\ Key[data[i].title] = Key[title]
    BY FindEntryIs, EntryAt
  <2>2. entry = [data[i] EXCEPT !.title = title]
    OBVIOUS
  <2>3. entry.title = title /\ entry.seasons = data[i].seasons
    BY <2>1, <2>2, NewTitle
  <2> HIDE DEF entry, i
  <2> QED BY <2>1, <2>3 DEF Serves
<1>3. Amended(data, title, season, url) =
        IF i = 0 THEN Append(data, amended) ELSE [data EXCEPT ![i] = amended]
  BY DEF Amended, SeasonOf
<1> HIDE DEF i, entry
<1>4. urls \in Seq(Urls)
  BY <1>1, SeasonOfIs
<1> HIDE DEF urls
<1>5. after \in Seq(Urls) /\ Range(urls) \subseteq Range(after)
  <2>1. /\ after \in Seq(Urls) /\ DOMAIN urls \subseteq DOMAIN after
        /\ \A n \in DOMAIN urls : after[n] = urls[n]
    BY <1>4
  <2> QED BY <2>1 DEF Range
<1> HIDE DEF after
<1>6. amended \in Entries /\ \A fact : Serves(entry, fact) => Serves(amended, fact)
  BY <1>1, <1>5, EntryWithSeason DEF urls
<1> HIDE DEF amended
<1>7. CASE i = 0
  BY <1>3, <1>6, <1>7, AppendedEntry DEF Extends
<1>8. CASE i # 0
  <2>1. i \in DOMAIN data /\ Amended(data, title, season, url) = [data EXCEPT ![i] = amended]
    BY <1>2, <1>3, <1>8
  <2>2. ASSUME NEW fact \in Facts(data) \ Facts([data EXCEPT ![i] = amended]) PROVE FALSE
    <3>1. Serves(data[i], fact) /\ ~Serves(amended, fact)
      BY <1>6, <2>1, Replacing
    <3> QED BY <1>2, <1>6, <1>8, <3>1
  <2>3. [data EXCEPT ![i] = amended] \in Tables
    BY <1>6, <2>1, Replacing
  <2> QED BY <2>1, <2>2, <2>3 DEF Extends
<1> QED BY <1>7, <1>8

\* Sorting the parts of a season loses no URL, and repeats none.
LEMMA SortPartUrlsIs ==
  ASSUME NEW urls \in Seq(Urls)
  PROVE  /\ SortPartUrls(urls) \in Seq(Urls) /\ Range(SortPartUrls(urls)) = Range(urls)
         /\ IsInjective(urls) => IsInjective(SortPartUrls(urls))
<1> DEFINE Class(i) == IF Part[urls[i]] = 0 THEN <<2, i>> ELSE <<0, Part[urls[i]]>>
           Before1(i, j) ==
             \/ Class(i)[1] < Class(j)[1]
             \/ Class(i)[1] = Class(j)[1] /\ Class(i)[2] < Class(j)[2]
             \/ Class(i) = Class(j) /\ Norm[urls[i]] < Norm[urls[j]]
           before == {p \in (DOMAIN urls) \X (DOMAIN urls) : Before1(p[1], p[2])}
<1>1. ASSUME NEW i \in DOMAIN urls
      PROVE  /\ Class(i)[1] \in Nat /\ Class(i)[2] \in Nat /\ Norm[urls[i]] \in Nat
             /\ Class(i) = <<Class(i)[1], Class(i)[2]>>
  <2>1. urls[i] \in Urls /\ i \in Nat
    OBVIOUS
  <2>2. Part[urls[i]] \in Nat /\ Norm[urls[i]] \in Nat
    BY <2>1, RowsAssumption
  <2>3. CASE Part[urls[i]] = 0
    BY <2>1, <2>2, <2>3
  <2>4. CASE Part[urls[i]] # 0
    BY <2>1, <2>2, <2>4
  <2> QED BY <2>3, <2>4
<1> HIDE DEF Class
<1>2. \A i, j \in DOMAIN urls :
        <<i, j>> \in before <=>
          \/ Class(i)[1] < Class(j)[1]
          \/ Class(i)[1] = Class(j)[1] /\ Class(i)[2] < Class(j)[2]
          \/ Class(i)[1] = Class(j)[1] /\ Class(i)[2] = Class(j)[2]
               /\ Norm[urls[i]] < Norm[urls[j]]
  BY <1>1
<1>3. SortPartUrls(urls) = Arranged(urls, before)
  BY DEF SortPartUrls, Class
<1> HIDE DEF before
<1>4. Sorts(before, DOMAIN urls)
  <2> DEFINE A(i) == Class(i)[1]
             B(i) == Class(i)[2]
             C(i) == Norm[urls[i]]
             L(i, j) == \/ A(i) < A(j)
                        \/ A(i) = A(j) /\ B(i) < B(j)
                        \/ A(i) = A(j) /\ B(i) = B(j) /\ C(i) < C(j)
  <2>1. \A i \in DOMAIN urls : A(i) \in Nat /\ B(i) \in Nat /\ C(i) \in Nat
    BY <1>1
  <2>2. \A i, j \in DOMAIN urls : <<i, j>> \in before <=> L(i, j)
    BY <1>2
  <2> HIDE DEF A, B, C
  <2>3. ASSUME NEW i \in DOMAIN urls, NEW j \in DOMAIN urls PROVE L(i, j) => ~L(j, i)
    BY <2>1
  <2>4. ASSUME NEW i \in DOMAIN urls, NEW j \in DOMAIN urls, NEW k \in DOMAIN urls
        PROVE  L(i, k) => L(i, j) \/ L(j, k)
    BY <2>1
  <2> HIDE DEF L
  <2> QED BY <2>2, <2>3, <2>4 DEF Sorts
<1> QED BY <1>3, <1>4, ArrangedIs, ArrangedOnce

(***************************************************************************)
(* Sheets and ids (mapping.py).                                            *)
(***************************************************************************)
\* The rows of the page (mapping.py).
Sheets == Seq(Groups)

\* The row at a position.
LEMMA RowAt ==
  ASSUME NEW sheet \in Sheets, NEW i \in DOMAIN sheet
  PROVE  /\ sheet[i] \in Groups
         /\ i \in Nat
         /\ sheet[i].entry \in Nat /\ sheet[i].title \in Titles
         /\ sheet[i].season \in 0 .. NoSeason /\ sheet[i].urls \in Seq(Urls)
         /\ sheet[i].absolute \in BOOLEAN
<1>1. sheet[i] \in Groups /\ i \in Nat
  BY DEF Sheets
<1> QED BY <1>1 DEF Groups

\* A finite set that is not empty has a greatest element.
LEMMA GreatestIs ==
  ASSUME NEW set, IsFiniteSet(set), set # {}, NEW order, Orders(order, set)
  PROVE  \E x \in set : \A y \in set : y = x \/ <<y, x>> \in order
<1> DEFINE f == InOrder(set, order)
           n == Cardinality(set)
<1>1. /\ f \in [1 .. n -> set] /\ n \in Nat
      /\ \A x \in set : \E m \in 1 .. n : f[m] = x
      /\ \A k, m \in 1 .. n : k < m => <<f[k], f[m]>> \in order
  BY InOrderIs
<1>2. n # 0
  BY FS_EmptySet
<1> HIDE DEF f, n
<1>3. n \in 1 .. n /\ f[n] \in set
  BY <1>1, <1>2
<1>4. ASSUME NEW y \in set PROVE y = f[n] \/ <<y, f[n]>> \in order
  <2>1. PICK m \in 1 .. n : f[m] = y
    BY <1>1
  <2>2. m = n \/ m < n
    BY <1>1
  <2> QED BY <1>1, <1>3, <2>1, <2>2
<1> QED BY <1>3, <1>4

\* Numbers of one digit, and those too large to be compared as texts.
LEMMA PlainRank ==
  ASSUME NEW n \in Nat, n < 10 \/ n > MaxNumber
  PROVE  TextRank(n) = 111 * n
BY DEF TextRank, MaxNumber

\* Numbers of two digits.
LEMMA RankOfTwo ==
  ASSUME NEW n \in 10 .. 99
  PROVE  \E a \in 1 .. 9, b \in 0 .. 9 : n = 10 * a + b /\ TextRank(n) = 111 * a + 11 * b + 1
<1>1. /\ n \div 10 \in 1 .. 9 /\ n % 10 \in 0 .. 9 /\ n = 10 * (n \div 10) + (n % 10)
  OBVIOUS
<1>2. TextRank(n) = 111 * (n \div 10) + 11 * (n % 10) + 1
  BY DEF TextRank
<1> QED BY <1>1, <1>2

\* Numbers of three digits.
LEMMA RankOfThree ==
  ASSUME NEW n \in 100 .. MaxNumber
  PROVE  \E a \in 1 .. 9, b \in 0 .. 9, c \in 0 .. 9 :
           n = 100 * a + 10 * b + c /\ TextRank(n) = 111 * a + 11 * b + c + 2
<1> DEFINE m == n \div 10
<1>1. /\ m \in 10 .. 99 /\ n % 10 \in 0 .. 9 /\ n = 10 * m + (n % 10) /\ n \div 100 = m \div 10
  BY DEF MaxNumber
<1>2. TextRank(n) = 111 * (n \div 100) + 11 * (m % 10) + (n % 10) + 2
  BY DEF TextRank, MaxNumber
<1> HIDE DEF m
<1>3. m \div 10 \in 1 .. 9 /\ m % 10 \in 0 .. 9 /\ m = 10 * (m \div 10) + (m % 10)
  BY <1>1
<1>4. /\ n = 100 * (m \div 10) + 10 * (m % 10) + (n % 10)
      /\ TextRank(n) = 111 * (m \div 10) + 11 * (m % 10) + (n % 10) + 2
  BY <1>1, <1>2, <1>3
<1> QED BY <1>1, <1>3, <1>4

\* No two numbers are written alike.
LEMMA TextRankIs ==
  ASSUME NEW n \in Nat, NEW m \in Nat
  PROVE  TextRank(n) \in Nat /\ (TextRank(n) = TextRank(m) => n = m)
<1> DEFINE Plain(k) == k < 10 \/ k > MaxNumber
           Two(k)   == k \in 10 .. 99
           Three(k) == k \in 100 .. MaxNumber
<1>0. \A k \in Nat : Plain(k) \/ Two(k) \/ Three(k)
  BY DEF MaxNumber
<1>1. TextRank(n) \in Nat
  <2>1. CASE Plain(n)
    BY <2>1, PlainRank
  <2>2. CASE Two(n)
    <3>1. PICK a \in 1 .. 9, b \in 0 .. 9 : TextRank(n) = 111 * a + 11 * b + 1
      BY <2>2, RankOfTwo
    <3> QED BY <3>1
  <2>3. CASE Three(n)
    <3>1. PICK a \in 1 .. 9, b \in 0 .. 9, c \in 0 .. 9 :
            n = 100 * a + 10 * b + c /\ TextRank(n) = 111 * a + 11 * b + c + 2
      BY <2>3, RankOfThree
    <3> QED BY <3>1
  <2> QED BY <1>0, <2>1, <2>2, <2>3
<1>2. ASSUME NEW k \in Nat, NEW l \in Nat, Plain(k), ~Plain(l), TextRank(k) = TextRank(l) PROVE FALSE
  <2>1. TextRank(k) = 111 * k
    BY <1>2, PlainRank
  <2>2. CASE Two(l)
    <3>1. PICK a \in 1 .. 9, b \in 0 .. 9 : TextRank(l) = 111 * a + 11 * b + 1
      BY <2>2, RankOfTwo
    <3>2. 111 * k = 111 * a + 11 * b + 1
      BY <1>2, <2>1, <3>1
    <3> QED BY <3>2
  <2>3. CASE Three(l)
    <3>1. PICK a \in 1 .. 9, b \in 0 .. 9, c \in 0 .. 9 :
            l = 100 * a + 10 * b + c /\ TextRank(l) = 111 * a + 11 * b + c + 2
      BY <2>3, RankOfThree
    <3>2. 111 * k = 111 * a + 11 * b + c + 2
      BY <1>2, <2>1, <3>1
    <3> QED BY <3>2
  <2> QED BY <1>0, <1>2, <2>2, <2>3
<1>3. ASSUME NEW k \in Nat, NEW l \in Nat, Two(k), Three(l), TextRank(k) = TextRank(l) PROVE FALSE
  <2>1. PICK a \in 1 .. 9, b \in 0 .. 9 : TextRank(k) = 111 * a + 11 * b + 1
    BY <1>3, RankOfTwo
  <2>2. PICK x \in 1 .. 9, y \in 0 .. 9, z \in 0 .. 9 :
          l = 100 * x + 10 * y + z /\ TextRank(l) = 111 * x + 11 * y + z + 2
    BY <1>3, RankOfThree
  <2>3. 111 * a + 11 * b + 1 = 111 * x + 11 * y + z + 2
    BY <1>3, <2>1, <2>2
  <2> QED BY <2>3
<1>4. ASSUME Two(n), Two(m), TextRank(n) = TextRank(m) PROVE n = m
  <2>1. PICK a \in 1 .. 9, b \in 0 .. 9 : n = 10 * a + b /\ TextRank(n) = 111 * a + 11 * b + 1
    BY <1>4, RankOfTwo
  <2>2. PICK x \in 1 .. 9, y \in 0 .. 9 : m = 10 * x + y /\ TextRank(m) = 111 * x + 11 * y + 1
    BY <1>4, RankOfTwo
  <2> QED BY <1>4, <2>1, <2>2
<1>5. ASSUME Three(n), Three(m), TextRank(n) = TextRank(m) PROVE n = m
  <2>1. PICK a \in 1 .. 9, b \in 0 .. 9, c \in 0 .. 9 :
          n = 100 * a + 10 * b + c /\ TextRank(n) = 111 * a + 11 * b + c + 2
    BY <1>5, RankOfThree
  <2>2. PICK x \in 1 .. 9, y \in 0 .. 9, z \in 0 .. 9 :
          m = 100 * x + 10 * y + z /\ TextRank(m) = 111 * x + 11 * y + z + 2
    BY <1>5, RankOfThree
  <2> QED BY <1>5, <2>1, <2>2
<1>6. ASSUME Plain(n), Plain(m), TextRank(n) = TextRank(m) PROVE n = m
  BY <1>6, PlainRank
<1> HIDE DEF Plain, Two, Three
<1> QED BY <1>0, <1>1, <1>2, <1>3, <1>4, <1>5, <1>6

\* The ids of the entries are in one order.
LEMMA IdBeforeOrders ==
  ASSUME NEW ids \in SUBSET Nat
  PROVE  Orders({p \in ids \X ids : IdBefore(p[1], p[2])}, ids)
<1> DEFINE order == {p \in ids \X ids : IdBefore(p[1], p[2])}
           A(x) == x % 2
           B(x) == TextRank(x \div 2)
<1>1. ASSUME NEW x \in ids PROVE A(x) \in Nat /\ B(x) \in Nat /\ x \div 2 \in Nat
  <2>1. x \in Nat /\ x \div 2 \in Nat /\ x % 2 \in Nat
    OBVIOUS
  <2> QED BY <2>1, TextRankIs
<1>2. ASSUME NEW x \in ids, NEW y \in ids, A(x) = A(y), B(x) = B(y) PROVE x = y
  <2>1. x \div 2 = y \div 2
    BY <1>1, <1>2, TextRankIs
  <2> QED BY <1>2, <2>1
<1>3. \A x, y \in ids : <<x, y>> \in order <=> A(x) < A(y) \/ (A(x) = A(y) /\ B(x) < B(y))
  BY DEF IdBefore
<1> HIDE DEF order, A, B
<1>4. \A x \in ids : <<x, x>> \notin order
  BY <1>1, <1>3
<1>5. ASSUME NEW x \in ids, NEW y \in ids, NEW z \in ids, <<x, y>> \in order, <<y, z>> \in order
      PROVE  <<x, z>> \in order
  BY <1>1, <1>3, <1>5
<1>6. ASSUME NEW x \in ids, NEW y \in ids, x # y PROVE <<x, y>> \in order \/ <<y, x>> \in order
  BY <1>1, <1>2, <1>3, <1>6
<1> QED BY <1>4, <1>5, <1>6 DEF Orders, order

\* ById lists every id of the sheet.
LEMMA ByIdIs ==
  ASSUME NEW sheet \in Sheets
  PROVE  /\ ById(sheet) \in Seq(Ids(sheet))
         /\ Range(ById(sheet)) = Ids(sheet)
<1> DEFINE ids == Ids(sheet)
           order == {p \in ids \X ids : IdBefore(p[1], p[2])}
<1>1. ids \in SUBSET Nat
  BY RowAt DEF Ids
<1>2. IsFiniteSet(ids)
  <2> DEFINE f == [i \in DOMAIN sheet |-> sheet[i].entry]
  <2>1. f \in Surjection(DOMAIN sheet, ids)
    BY DEF Surjection, Ids
  <2>2. IsFiniteSet(DOMAIN sheet)
    <3>1. DOMAIN sheet = 1 .. Len(sheet) /\ Len(sheet) \in Nat
      BY DEF Sheets
    <3> QED BY <3>1, FS_Interval
  <2> HIDE DEF f
  <2> QED BY <2>1, <2>2, FS_Surjection
<1>3. Orders(order, ids)
  BY <1>1, IdBeforeOrders
<1>4. ById(sheet) = InOrder(ids, order)
  BY DEF ById
<1> HIDE DEF order, ids
<1>5. /\ ById(sheet) \in [1 .. Cardinality(ids) -> ids] /\ Cardinality(ids) \in Nat
      /\ \A x \in ids : \E n \in 1 .. Cardinality(ids) : ById(sheet)[n] = x
  BY <1>2, <1>3, <1>4, InOrderIs
<1>6. Range(ById(sheet)) = ids
  BY <1>5 DEF Range
<1>7. ById(sheet) \in Seq(ids)
  BY <1>5, IsASeq
<1> QED BY <1>6, <1>7 DEF ids

\* Some row of an entry is the last in the order the entry is read in.
LEMMA LastRowIs ==
  ASSUME NEW sheet \in Sheets, NEW rows \in SUBSET (DOMAIN sheet), rows # {}
  PROVE  \E i \in rows : \A j \in rows :
           \/ sheet[j].season < sheet[i].season
           \/ sheet[j].season = sheet[i].season /\ j <= i
<1> DEFINE S(i) == sheet[i].season
           order == {p \in rows \X rows :
                       S(p[1]) < S(p[2]) \/ (S(p[1]) = S(p[2]) /\ p[1] < p[2])}
<1>1. \A i \in rows : i \in Nat /\ S(i) \in Nat
  BY RowAt
<1>2. IsFiniteSet(rows)
  <2>1. DOMAIN sheet = 1 .. Len(sheet) /\ Len(sheet) \in Nat
    BY DEF Sheets
  <2>2. IsFiniteSet(1 .. Len(sheet)) /\ rows \in SUBSET (1 .. Len(sheet))
    BY <2>1, FS_Interval
  <2> QED BY <2>2, FS_Subset
<1>3. \A i, j \in rows : <<i, j>> \in order <=> S(i) < S(j) \/ (S(i) = S(j) /\ i < j)
  OBVIOUS
<1> HIDE DEF order, S
<1>4. \A x \in rows : <<x, x>> \notin order
  BY <1>1, <1>3
<1>5. ASSUME NEW x \in rows, NEW y \in rows, NEW z \in rows, <<x, y>> \in order, <<y, z>> \in order
      PROVE  <<x, z>> \in order
  BY <1>1, <1>3, <1>5
<1>6. ASSUME NEW x \in rows, NEW y \in rows, x # y PROVE <<x, y>> \in order \/ <<y, x>> \in order
  BY <1>1, <1>3, <1>6
<1>7. PICK i \in rows : \A j \in rows : j = i \/ <<j, i>> \in order
  BY <1>2, <1>4, <1>5, <1>6, GreatestIs DEF Orders
<1>8. ASSUME NEW j \in rows PROVE S(j) < S(i) \/ (S(j) = S(i) /\ j <= i)
  <2>1. CASE j = i
    BY <1>1, <2>1
  <2>2. CASE <<j, i>> \in order
    BY <1>1, <1>3, <1>7, <2>2
  <2> QED BY <1>7, <2>1, <2>2
<1> QED BY <1>8 DEF S

(***************************************************************************)
(* The table a sheet is read as.                                           *)
(***************************************************************************)
\* The entry read from the rows of one id: it has the title of one of them, and
\* every list they hold.
LEMMA EntryFromRowsIs ==
  ASSUME NEW sheet \in Sheets, NEW id \in Ids(sheet)
  PROVE  /\ EntryFromRows(sheet, id) \in Entries
         /\ \E i \in OfEntry(sheet, id) : EntryFromRows(sheet, id).title = sheet[i].title
         /\ \A i \in OfEntry(sheet, id) : sheet[i].season # NoSeason =>
              /\ sheet[i].season \in DOMAIN EntryFromRows(sheet, id).seasons
              /\ Range(sheet[i].urls)
                   \subseteq Range(EntryFromRows(sheet, id).seasons[sheet[i].season])
<1> DEFINE rows == OfEntry(sheet, id)
           last == CHOOSE i \in rows : \A j \in rows :
                     \/ sheet[j].season < sheet[i].season
                     \/ sheet[j].season = sheet[i].season /\ j <= i
           lists(s) == [i \in DOMAIN sheet |->
                          IF i \in rows /\ sheet[i].season = s THEN sheet[i].urls ELSE <<>>]
           UrlsIn(s) == FlattenSeq(lists(s))
           S == {sheet[i].season : i \in rows} \ {NoSeason}
           seasons == [s \in S |-> Distinct(UrlsIn(s))]
<1>1. rows \in SUBSET (DOMAIN sheet) /\ rows # {}
  BY DEF OfEntry, Ids
<1>2. last \in rows
  BY <1>1, LastRowIs
<1>3. EntryFromRows(sheet, id) = Entry(sheet[last].title, sheet[last].absolute, seasons)
  BY DEF EntryFromRows
<1> HIDE DEF rows, last
<1>4. ASSUME NEW s
      PROVE  /\ UrlsIn(s) \in Seq(Urls)
             /\ \A i \in rows : sheet[i].season = s => Range(sheet[i].urls) \subseteq Range(UrlsIn(s))
  <2>1. lists(s) \in Seq(Seq(Urls)) /\ DOMAIN lists(s) = DOMAIN sheet
    <3>1. DOMAIN sheet = 1 .. Len(sheet) /\ Len(sheet) \in Nat
      BY DEF Sheets
    <3>2. \A i \in 1 .. Len(sheet) :
            (IF i \in rows /\ sheet[i].season = s THEN sheet[i].urls ELSE <<>>) \in Seq(Urls)
      <4>1. <<>> \in Seq(Urls)
        OBVIOUS
      <4> QED BY <3>1, <4>1, RowAt
    <3> QED BY <3>1, <3>2, IsASeq
  <2>2. /\ UrlsIn(s) \in Seq(Urls)
        /\ Range(UrlsIn(s)) = UNION {Range(lists(s)[i]) : i \in DOMAIN lists(s)}
    BY <2>1, FlattenIs
  <2>3. ASSUME NEW i \in rows, sheet[i].season = s
        PROVE  Range(sheet[i].urls) \subseteq Range(UrlsIn(s))
    <3>1. i \in DOMAIN lists(s) /\ lists(s)[i] = sheet[i].urls
      BY <1>1, <2>1, <2>3
    <3> HIDE DEF lists
    <3> QED BY <2>2, <3>1
  <2> QED BY <2>2, <2>3
<1> HIDE DEF UrlsIn
<1>5. ASSUME NEW s
      PROVE  Distinct(UrlsIn(s)) \in Seq(Urls) /\ Range(Distinct(UrlsIn(s))) = Range(UrlsIn(s))
  BY <1>4, DistinctIs
<1>6. S \in SUBSET (0 .. Absolute)
  <2>1. \A i \in rows : sheet[i].season \in 0 .. NoSeason
    BY <1>1, RowAt
  <2> QED BY <2>1 DEF NoSeason, Absolute
<1>7. seasons \in SeasonMaps
  <2>1. seasons \in [S -> Seq(Urls)]
    BY <1>5
  <2> QED BY <1>6, <2>1 DEF SeasonMaps
<1>8. sheet[last].title \in Titles /\ sheet[last].absolute \in BOOLEAN
  BY <1>1, <1>2, RowAt
<1>9. ASSUME NEW i \in rows, sheet[i].season # NoSeason
      PROVE  /\ sheet[i].season \in DOMAIN seasons
             /\ Range(sheet[i].urls) \subseteq Range(seasons[sheet[i].season])
  <2>1. sheet[i].season \in S
    BY <1>9
  <2>2. seasons[sheet[i].season] = Distinct(UrlsIn(sheet[i].season))
    BY <2>1
  <2> QED BY <1>4, <1>5, <2>1, <2>2
<1> HIDE DEF seasons
<1>10. /\ EntryFromRows(sheet, id) \in Entries
       /\ EntryFromRows(sheet, id).title = sheet[last].title
       /\ EntryFromRows(sheet, id).seasons = seasons
  BY <1>3, <1>7, <1>8, EntryIs
<1> QED BY <1>2, <1>9, <1>10 DEF rows

\* The table read from a sheet has an entry of each id.
LEMMA TableFromRowsIs ==
  ASSUME NEW sheet \in Sheets
  PROVE  /\ TableFromRows(sheet) \in Tables
         /\ \A id \in Ids(sheet) : EntryFromRows(sheet, id) \in Range(TableFromRows(sheet))
<1> DEFINE ids == ById(sheet)
           data == [n \in DOMAIN ids |-> EntryFromRows(sheet, ids[n])]
<1>1. ids \in Seq(Ids(sheet)) /\ Range(ids) = Ids(sheet)
  BY ByIdIs
<1>2. TableFromRows(sheet) = SortedByTitle(data)
  BY DEF TableFromRows
<1> HIDE DEF ids
<1>3. DOMAIN ids = 1 .. Len(ids) /\ Len(ids) \in Nat /\ \A n \in DOMAIN ids : ids[n] \in Ids(sheet)
  BY <1>1
<1>4. \A n \in 1 .. Len(ids) : EntryFromRows(sheet, ids[n]) \in Entries
  BY <1>3, EntryFromRowsIs
<1>5. data \in Tables
  BY <1>3, <1>4, IsASeq DEF Tables
<1>6. ASSUME NEW id \in Ids(sheet) PROVE EntryFromRows(sheet, id) \in Range(data)
  <2>1. PICK n \in DOMAIN ids : ids[n] = id
    BY <1>1 DEF Range
  <2>2. data[n] = EntryFromRows(sheet, id) /\ n \in DOMAIN data
    BY <2>1
  <2> HIDE DEF data
  <2> QED BY <2>2 DEF Range
<1> HIDE DEF data
<1> QED BY <1>2, <1>5, <1>6, SortedByTitleIs

\* What a row serves.
FactsIn(row) == {<<Key[row.title], row.season, Norm[u]>> : u \in Range(row.urls)}

\* The facts of a row come back from the page when the rows of its entry all
\* have titles that are alike.
LEMMA RowIsKept ==
  ASSUME NEW sheet \in Sheets, NEW i \in DOMAIN sheet, sheet[i].season # NoSeason,
         \A j \in OfEntry(sheet, sheet[i].entry) : Key[sheet[j].title] = Key[sheet[i].title]
  PROVE  FactsIn(sheet[i]) \subseteq Facts(TableFromRows(sheet))
<1> DEFINE id == sheet[i].entry
           e == EntryFromRows(sheet, id)
<1>1. id \in Ids(sheet) /\ i \in OfEntry(sheet, id)
  BY DEF Ids, OfEntry
<1>2. /\ \E j \in OfEntry(sheet, id) : e.title = sheet[j].title
      /\ sheet[i].season \in DOMAIN e.seasons
      /\ Range(sheet[i].urls) \subseteq Range(e.seasons[sheet[i].season])
      /\ e \in Range(TableFromRows(sheet))
  BY <1>1, EntryFromRowsIs, TableFromRowsIs
<1>3. Key[e.title] = Key[sheet[i].title]
  BY <1>2
<1> HIDE DEF e, id
<1>4. \A fact \in FactsIn(sheet[i]) : Serves(e, fact)
  BY <1>2, <1>3 DEF FactsIn, Serves
<1> QED BY <1>2, <1>4, FactsIs

(***************************************************************************)
(* The sheet of a table.                                                   *)
(***************************************************************************)
\* A row and its fields.
LEMMA GroupIs ==
  ASSUME NEW entry \in Nat, NEW title \in Titles, NEW season \in 0 .. NoSeason,
         NEW urls \in Seq(Urls), NEW absolute \in BOOLEAN, NEW review \in BOOLEAN,
         NEW shared \in BOOLEAN
  PROVE  /\ Group(entry, title, season, urls, absolute, review, shared) \in Groups
         /\ Group(entry, title, season, urls, absolute, review, shared).entry = entry
         /\ Group(entry, title, season, urls, absolute, review, shared).title = title
         /\ Group(entry, title, season, urls, absolute, review, shared).season = season
         /\ Group(entry, title, season, urls, absolute, review, shared).urls = urls
BY DEF Group, Groups

\* The rows of an entry: its own title and id, and a row for each season.
LEMMA GroupsOfIs ==
  ASSUME NEW e \in Entries, NEW i \in Nat \ {0}, NEW prefs
  PROVE  /\ GroupsOf(e, i, prefs) \in Sheets
         /\ \A row \in Range(GroupsOf(e, i, prefs)) :
              row.entry = Known(i) /\ row.title = e.title
         /\ \A s \in DOMAIN e.seasons : \E row \in Range(GroupsOf(e, i, prefs)) :
              row.season = s /\ row.urls = e.seasons[s]
<1> DEFINE review == e.title \in prefs.review
           shared == e.title \in prefs.shared
           Row(s, urls, flag) == Group(Known(i), e.title, s, urls, e.absolute, flag, shared)
           order == Ascending(DOMAIN e.seasons)
           groups == GroupsOf(e, i, prefs)
<1>1. /\ e.title \in Titles /\ e.absolute \in BOOLEAN /\ e.seasons \in SeasonMaps
      /\ Known(i) \in Nat
  BY EntryIs DEF Known
<1>2. /\ DOMAIN e.seasons \in SUBSET (0 .. Absolute)
      /\ \A s \in DOMAIN e.seasons : e.seasons[s] \in Seq(Urls)
  BY <1>1, SeasonMapIs
<1>3. DOMAIN e.seasons \in SUBSET Nat /\ IsFiniteSet(DOMAIN e.seasons)
  <2>0. Absolute \in Int /\ 0 \in Int
    BY DEF Absolute
  <2>1. IsFiniteSet(0 .. Absolute)
    BY <2>0, FS_Interval, Zenon
  <2>2. IsFiniteSet(DOMAIN e.seasons)
    BY <1>2, <2>1, FS_Subset
  <2>3. \A s \in DOMAIN e.seasons : s \in Nat
    BY <1>2, <2>0
  <2> QED BY <2>2, <2>3
<1>4. /\ order \in [1 .. Cardinality(DOMAIN e.seasons) -> DOMAIN e.seasons]
      /\ Cardinality(DOMAIN e.seasons) \in Nat
      /\ \A s \in DOMAIN e.seasons : \E n \in DOMAIN order : order[n] = s
  BY <1>3, AscendingIs, FS_CardinalityType
<1>5. groups = IF order = <<>> THEN <<Row(NoSeason, <<>>, TRUE)>>
               ELSE [n \in DOMAIN order |-> Row(order[n], e.seasons[order[n]], review)]
  BY DEF GroupsOf
<1>6. ASSUME NEW s \in 0 .. NoSeason, NEW urls \in Seq(Urls), NEW flag \in BOOLEAN
      PROVE  /\ Row(s, urls, flag) \in Groups
             /\ Row(s, urls, flag).entry = Known(i) /\ Row(s, urls, flag).title = e.title
             /\ Row(s, urls, flag).season = s /\ Row(s, urls, flag).urls = urls
  <2>1. shared \in BOOLEAN
    OBVIOUS
  <2> HIDE DEF shared
  <2> QED BY <1>1, <2>1, GroupIs
<1>7. review \in BOOLEAN
  OBVIOUS
<1> HIDE DEF groups, Row, order, review
<1>8. CASE order = <<>>
  <2> DEFINE row == Row(NoSeason, <<>>, TRUE)
  <2>1. row \in Groups /\ row.entry = Known(i) /\ row.title = e.title
    <3>1. <<>> \in Seq(Urls) /\ NoSeason \in 0 .. NoSeason
      BY DEF NoSeason
    <3> QED BY <1>6, <3>1
  <2>2. groups = <<row>>
    BY <1>5, <1>8
  <2>3. DOMAIN e.seasons = {}
    <3>1. DOMAIN order = {}
      BY <1>8
    <3> QED BY <1>4, <3>1
  <2> HIDE DEF row
  <2>4. groups \in Sheets /\ Range(groups) = {row}
    BY <2>1, <2>2 DEF Sheets, Range
  <2> QED BY <2>1, <2>3, <2>4 DEF groups
<1>9. CASE order # <<>>
  <2> DEFINE n0 == Cardinality(DOMAIN e.seasons)
  <2>1. groups = [n \in 1 .. n0 |-> Row(order[n], e.seasons[order[n]], review)]
    BY <1>4, <1>5, <1>9
  <2>2. ASSUME NEW n \in 1 .. n0
        PROVE  /\ groups[n] \in Groups /\ groups[n].entry = Known(i)
               /\ groups[n].title = e.title
               /\ groups[n].season = order[n] /\ groups[n].urls = e.seasons[order[n]]
    <3>1. order[n] \in DOMAIN e.seasons
      BY <1>4
    <3>2. order[n] \in 0 .. NoSeason /\ e.seasons[order[n]] \in Seq(Urls)
      BY <1>2, <3>1 DEF NoSeason, Absolute
    <3>3. groups[n] = Row(order[n], e.seasons[order[n]], review)
      BY <2>1
    <3> QED BY <1>6, <1>7, <3>2, <3>3
  <2>3. groups \in Sheets
    <3> HIDE DEF n0
    <3>1. n0 \in Nat
      BY <1>4 DEF n0
    <3> QED BY <2>1, <2>2, <3>1, IsASeq DEF Sheets
  <2>4. DOMAIN groups = 1 .. n0
    BY <2>1
  <2>5. ASSUME NEW s \in DOMAIN e.seasons
        PROVE  \E row \in Range(groups) : row.season = s /\ row.urls = e.seasons[s]
    <3>1. PICK n \in 1 .. n0 : order[n] = s
      BY <1>4
    <3>2. groups[n] \in Range(groups)
      BY <2>4 DEF Range
    <3> QED BY <2>2, <3>1, <3>2
  <2>6. \A row \in Range(groups) : row.entry = Known(i) /\ row.title = e.title
    BY <2>2, <2>4 DEF Range
  <2> QED BY <2>3, <2>5, <2>6 DEF groups
<1> QED BY <1>8, <1>9

\* The sheet of a table: its rows are of its entries, and serve what they do.
LEMMA FlattenTableIs ==
  ASSUME NEW data \in Tables, NEW prefs
  PROVE  /\ FlattenTable(data, prefs) \in Sheets
         /\ \A row \in Range(FlattenTable(data, prefs)) : \E i \in DOMAIN data :
              row.entry = Known(i) /\ row.title = data[i].title
         /\ \A i \in DOMAIN data : \A fact : Serves(data[i], fact) =>
              \E row \in Range(FlattenTable(data, prefs)) :
                row.entry = Known(i) /\ row.season # NoSeason /\ fact \in FactsIn(row)
<1> DEFINE lists == [i \in DOMAIN data |-> GroupsOf(data[i], i, prefs)]
           sheet == FlattenTable(data, prefs)
<1>0. DOMAIN data = 1 .. Len(data) /\ Len(data) \in Nat
  BY DEF Tables
<1>1. ASSUME NEW i \in DOMAIN data
      PROVE  /\ data[i] \in Entries /\ i \in Nat \ {0}
             /\ lists[i] = GroupsOf(data[i], i, prefs)
  BY <1>0, EntryAt
<1>2. lists \in Seq(Sheets) /\ DOMAIN lists = DOMAIN data
  <2>1. \A i \in 1 .. Len(data) : GroupsOf(data[i], i, prefs) \in Sheets
    BY <1>0, <1>1, GroupsOfIs
  <2> QED BY <1>0, <2>1, IsASeq
<1>3. sheet = FlattenSeq(lists)
  BY DEF FlattenTable
<1> HIDE DEF lists, sheet
<1>4. sheet \in Sheets /\ Range(sheet) = UNION {Range(lists[i]) : i \in DOMAIN data}
  <2>1. lists \in Seq(Seq(Groups))
    BY <1>2 DEF Sheets
  <2> QED BY <1>2, <1>3, <2>1, FlattenIs DEF Sheets
<1>5. ASSUME NEW row \in Range(sheet)
      PROVE  \E i \in DOMAIN data : row.entry = Known(i) /\ row.title = data[i].title
  <2>1. PICK i \in DOMAIN data : row \in Range(lists[i])
    BY <1>4
  <2>2. row.entry = Known(i) /\ row.title = data[i].title
    BY <1>1, <2>1, GroupsOfIs
  <2> QED BY <2>2
<1>6. ASSUME NEW i \in DOMAIN data, NEW fact, Serves(data[i], fact)
      PROVE  \E row \in Range(sheet) :
               row.entry = Known(i) /\ row.season # NoSeason /\ fact \in FactsIn(row)
  <2>1. PICK s \in DOMAIN data[i].seasons : \E url \in Range(data[i].seasons[s]) :
          fact = <<Key[data[i].title], s, Norm[url]>>
    BY <1>6 DEF Serves
  <2>2. PICK row \in Range(lists[i]) : row.season = s /\ row.urls = data[i].seasons[s]
    BY <1>1, GroupsOfIs
  <2>3. row.entry = Known(i) /\ row.title = data[i].title
    BY <1>1, <2>2, GroupsOfIs
  <2>4. s \in 0 .. Absolute
    BY <1>1, UrlsAt
  <2>5. row \in Range(sheet)
    BY <1>4, <2>2
  <2>6. fact \in FactsIn(row)
    BY <2>1, <2>2, <2>3 DEF FactsIn
  <2>7. row.season # NoSeason
    BY <2>2, <2>4 DEF NoSeason, Absolute
  <2> QED BY <2>3, <2>5, <2>6, <2>7
<1> QED BY <1>4, <1>5, <1>6 DEF sheet

(***************************************************************************)
(* A page that is opened, edited and saved.                                *)
(***************************************************************************)
\* The rows of the entries of a sheet have titles alike in another sheet.
Agrees(sheet, current) ==
  \A row \in Range(sheet), own \in Range(current) :
    row.entry = own.entry => Key[row.title] = Key[own.title]

\* A row of the sheet.
LEMMA RowIn ==
  ASSUME NEW sheet \in Sheets, NEW row \in Range(sheet)
  PROVE  /\ row \in Groups /\ row.entry \in Nat /\ row.title \in Titles
         /\ row.season \in 0 .. NoSeason /\ row.urls \in Seq(Urls)
         /\ row.absolute \in BOOLEAN
BY RowAt DEF Range

\* What a row of a known entry serves comes back from the page.
LEMMA OwnRowIsKept ==
  ASSUME NEW sheet \in Sheets, NEW current, Agrees(sheet, current),
         NEW row \in Range(sheet), NEW own \in Range(current),
         row.entry = own.entry, row.season # NoSeason
  PROVE  FactsIn(row) \subseteq Facts(TableFromRows(sheet))
<1>1. PICK i \in DOMAIN sheet : row = sheet[i]
  BY DEF Range
<1>2. ASSUME NEW j \in OfEntry(sheet, row.entry) PROVE Key[sheet[j].title] = Key[row.title]
  <2>1. sheet[j] \in Range(sheet) /\ sheet[j].entry = own.entry
    BY <1>2 DEF OfEntry, Range
  <2> QED BY <2>1 DEF Agrees
<1> QED BY <1>1, <1>2, RowIsKept

\* The page as it is opened agrees with itself.
LEMMA FlatAgrees ==
  ASSUME NEW data \in Tables, NEW prefs
  PROVE  Agrees(FlattenTable(data, prefs), FlattenTable(data, prefs))
<1> DEFINE sheet == FlattenTable(data, prefs)
<1>1. ASSUME NEW row \in Range(sheet), NEW own \in Range(sheet), row.entry = own.entry
      PROVE  row.title = own.title
  <2>1. PICK i \in DOMAIN data : row.entry = Known(i) /\ row.title = data[i].title
    BY FlattenTableIs
  <2>2. PICK j \in DOMAIN data : own.entry = Known(j) /\ own.title = data[j].title
    BY FlattenTableIs
  <2>3. Known(i) = Known(j)
    BY <1>1, <2>1, <2>2, Zenon
  <2>5. i \in Nat /\ j \in Nat
    BY DEF Tables
  <2>4. i = j
    BY <2>3, <2>5 DEF Known
  <2> QED BY <2>1, <2>2, <2>4
<1> QED BY <1>1 DEF Agrees

\* A page that is opened and saved keeps what the table serves.
LEMMA NothingFlattenedAway ==
  ASSUME NEW data \in Tables, NEW prefs
  PROVE  Facts(data) \subseteq Facts(TableFromRows(FlattenTable(data, prefs)))
<1> DEFINE sheet == FlattenTable(data, prefs)
<1>1. sheet \in Sheets /\ Agrees(sheet, sheet)
  BY FlattenTableIs, FlatAgrees
<1>2. ASSUME NEW fact \in Facts(data) PROVE fact \in Facts(TableFromRows(sheet))
  <2>1. PICK e \in Range(data) : Serves(e, fact)
    BY FactsIs
  <2>2. PICK i \in DOMAIN data : e = data[i]
    BY DEF Range
  <2>3. PICK row \in Range(sheet) :
          row.entry = Known(i) /\ row.season # NoSeason /\ fact \in FactsIn(row)
    BY <2>1, <2>2, FlattenTableIs
  <2> HIDE DEF sheet
  <2> QED BY <1>1, <2>3, OwnRowIsKept
<1> QED BY <1>2

\* The page without the rows of one entry keeps what the others serve.
LEMMA OneEntryLess ==
  ASSUME NEW data \in Tables, NEW prefs, NEW i \in DOMAIN data
  PROVE  LET sheet == FlattenTable(data, prefs)
             left  == Chosen(sheet, DOMAIN sheet \ OfEntry(sheet, Known(i)))
         IN  /\ left \in Sheets
             /\ Facts(data) \ Facts(TableFromRows(left)) \subseteq Facts(<<data[i]>>)
<1> DEFINE sheet == FlattenTable(data, prefs)
           positions == DOMAIN sheet \ OfEntry(sheet, Known(i))
           left == Chosen(sheet, positions)
<1>1. sheet \in Sheets /\ Agrees(sheet, sheet)
  BY FlattenTableIs, FlatAgrees
<1>2. left \in Sheets /\ Range(left) = {sheet[n] : n \in positions}
  <2> HIDE DEF sheet
  <2> QED BY <1>1, ChosenIs DEF Sheets
<1>3. /\ \A row \in Range(left) : row \in Range(sheet)
      /\ \A row \in Range(sheet) : row.entry # Known(i) => row \in Range(left)
  <2> HIDE DEF sheet, left
  <2> QED BY <1>2 DEF OfEntry, Range
<1>4. Agrees(left, sheet)
  <2> HIDE DEF sheet, left
  <2> QED BY <1>1, <1>3 DEF Agrees
<1>5. ASSUME NEW fact \in Facts(data), fact \notin Facts(TableFromRows(left))
      PROVE  fact \in Facts(<<data[i]>>)
  <2>1. PICK e \in Range(data) : Serves(e, fact)
    BY FactsIs
  <2>2. PICK j \in DOMAIN data : e = data[j]
    BY DEF Range
  <2>3. PICK row \in Range(sheet) :
          row.entry = Known(j) /\ row.season # NoSeason /\ fact \in FactsIn(row)
    BY <2>1, <2>2, FlattenTableIs
  <2> HIDE DEF sheet, left
  <2>4. row \notin Range(left)
    BY <1>2, <1>4, <1>5, <2>3, OwnRowIsKept
  <2>5. Known(j) = Known(i) /\ i \in Nat /\ j \in Nat
    BY <1>3, <2>3, <2>4 DEF Tables
  <2>6. j = i
    BY <2>5 DEF Known
  <2>7. data[i] \in Range(<<data[i]>>)
    BY DEF Range
  <2> QED BY <2>1, <2>2, <2>6, <2>7, FactsIs
<1> QED BY <1>2, <1>5

\* A sheet whose rows are replaced one by one.
LEMMA SheetOf ==
  ASSUME NEW sheet \in Sheets, NEW other,
         other = [i \in DOMAIN sheet |-> other[i]], \A i \in DOMAIN sheet : other[i] \in Groups
  PROVE  other \in Sheets /\ DOMAIN other = DOMAIN sheet
<1>1. DOMAIN sheet = 1 .. Len(sheet) /\ Len(sheet) \in Nat
  BY DEF Sheets
<1>2. other \in [1 .. Len(sheet) -> Groups]
  BY <1>1
<1> QED BY <1>1, <1>2, IsASeq DEF Sheets

\* A row with other URLs.
LEMMA NewUrls ==
  ASSUME NEW row \in Groups, NEW urls \in Seq(Urls)
  PROVE  /\ [row EXCEPT !.urls = urls] \in Groups
         /\ [row EXCEPT !.urls = urls].title = row.title
         /\ [row EXCEPT !.urls = urls].season = row.season
BY DEF Groups

\* A row that is reviewed.
LEMMA NewReview ==
  ASSUME NEW row \in Groups, NEW review \in BOOLEAN
  PROVE  [row EXCEPT !.review = review] \in Groups
BY DEF Groups

\* A row with another title.
LEMMA NewName ==
  ASSUME NEW row \in Groups, NEW title \in Titles
  PROVE  /\ [row EXCEPT !.title = title] \in Groups
         /\ [row EXCEPT !.title = title].title = title
         /\ [row EXCEPT !.title = title].entry = row.entry
         /\ [row EXCEPT !.title = title].season = row.season
         /\ [row EXCEPT !.title = title].urls = row.urls
BY DEF Groups

\* A row that joins another entry.
LEMMA NewHome ==
  ASSUME NEW row \in Groups, NEW entry \in Nat, NEW title \in Titles
  PROVE  /\ [row EXCEPT !.entry = entry, !.title = title] \in Groups
         /\ [row EXCEPT !.entry = entry, !.title = title].title = title
         /\ [row EXCEPT !.entry = entry, !.title = title].entry = entry
         /\ [row EXCEPT !.entry = entry, !.title = title].season = row.season
BY DEF Groups

\* What the user makes of the page is a sheet.
LEMMA EditedIs ==
  ASSUME NEW sheet \in Sheets
  PROVE  /\ \A i \in DOMAIN sheet : RemoveAt(sheet, i) \in Sheets
         /\ \A i \in DOMAIN sheet : [sheet EXCEPT ![i].review = FALSE] \in Sheets
<1>0. DOMAIN sheet = 1 .. Len(sheet)
  BY DEF Sheets
<1>1. ASSUME NEW i \in DOMAIN sheet PROVE RemoveAt(sheet, i) \in Sheets
  BY <1>0, RemoveAtIs DEF Sheets
<1>2. ASSUME NEW i \in DOMAIN sheet PROVE [sheet EXCEPT ![i].review = FALSE] \in Sheets
  <2>1. sheet[i] \in Groups
    BY RowAt
  <2>2. [sheet[i] EXCEPT !.review = FALSE] \in Groups
    BY <2>1, NewReview
  <2>3. [sheet EXCEPT ![i].review = FALSE] = [sheet EXCEPT ![i] = [sheet[i] EXCEPT !.review = FALSE]]
    OBVIOUS
  <2> DEFINE row == [sheet[i] EXCEPT !.review = FALSE]
  <2> HIDE DEF row
  <2>4. [sheet EXCEPT ![i] = row] \in Seq(Groups)
    BY <1>0, <2>2, ExceptSeq DEF Sheets, row
  <2> QED BY <2>3, <2>4 DEF Sheets, row
<1> QED BY <1>1, <1>2

\* Sorting the parts of an import leaves a sheet.
LEMMA SortedRowsAre ==
  ASSUME NEW sheet \in Sheets
  PROVE  SortPartUrlsInRows(sheet) \in Sheets
<1> DEFINE other == SortPartUrlsInRows(sheet)
<1>1. ASSUME NEW i \in DOMAIN sheet PROVE other[i] \in Groups
  <2>1. other[i] = [sheet[i] EXCEPT !.urls = SortPartUrls(sheet[i].urls)]
    BY DEF SortPartUrlsInRows
  <2>2. sheet[i] \in Groups /\ SortPartUrls(sheet[i].urls) \in Seq(Urls)
    BY RowAt, SortPartUrlsIs
  <2> HIDE DEF other
  <2> QED BY <2>1, <2>2, NewUrls
<1>2. other = [i \in DOMAIN sheet |-> other[i]]
  BY DEF SortPartUrlsInRows
<1> HIDE DEF other
<1> QED BY <1>1, <1>2, SheetOf DEF other

\* An import has ids of its own, and the titles and seasons it came with.
LEMMA CoalescedIs ==
  ASSUME NEW incoming \in Sheets
  PROVE  /\ Coalesced(incoming) \in Sheets /\ DOMAIN Coalesced(incoming) = DOMAIN incoming
         /\ \A i \in DOMAIN incoming :
              /\ \E id \in Nat : Coalesced(incoming)[i].entry = Imported(id)
              /\ Key[Coalesced(incoming)[i].title] = Key[incoming[i].title]
              /\ Coalesced(incoming)[i].season = incoming[i].season
<1> DEFINE rows == Coalesced(incoming)
           alike(i) == {j \in DOMAIN incoming : Key[incoming[j].title] = Key[incoming[i].title]}
           first(i) == Lowest(alike(i))
<1>1. ASSUME NEW i \in DOMAIN incoming
      PROVE  /\ rows[i] \in Groups
             /\ \E id \in Nat : rows[i].entry = Imported(id)
             /\ Key[rows[i].title] = Key[incoming[i].title]
             /\ rows[i].season = incoming[i].season
  <2>0. /\ incoming[i] \in Groups /\ incoming[i].entry \in Nat /\ incoming[i].title \in Titles
        /\ Key[incoming[i].title] \in Nat
    BY RowAt, RowsAssumption
  <2>1. first(i) \in alike(i)
    <3>1. alike(i) \in SUBSET Nat /\ alike(i) # {}
      BY RowAt
    <3> QED BY <3>1, LowestIs
  <2>2. /\ first(i) \in DOMAIN incoming /\ incoming[first(i)].title \in Titles
        /\ Key[incoming[first(i)].title] = Key[incoming[i].title]
    BY <2>1, RowAt
  <2>3. rows[i] = IF incoming[i].entry # 0
                    THEN [incoming[i] EXCEPT !.entry = Imported(incoming[i].entry)]
                    ELSE [incoming[i] EXCEPT !.entry = Imported(Key[incoming[i].title]),
                                             !.title = incoming[first(i)].title]
    BY DEF Coalesced
  <2> HIDE DEF rows, first, alike
  <2>4. \A id \in Nat : Imported(id) \in Nat
    BY DEF Imported
  <2>5. CASE incoming[i].entry # 0
    <3> DEFINE row == incoming[i]
               id == Imported(incoming[i].entry)
    <3>1. rows[i] = [row EXCEPT !.entry = id]
      BY <2>3, <2>5, Zenon
    <3>2. row \in Groups /\ id \in Nat /\ row.title \in Titles
      BY <2>0, <2>4
    <3> HIDE DEF row, id
    <3>4. /\ [row EXCEPT !.entry = id] \in Groups
          /\ [row EXCEPT !.entry = id].entry = id
          /\ [row EXCEPT !.entry = id].title = row.title
          /\ [row EXCEPT !.entry = id].season = row.season
      BY <3>2 DEF Groups
    <3>3. /\ rows[i] \in Groups /\ rows[i].entry = id /\ rows[i].title = row.title
          /\ rows[i].season = row.season
      BY <3>1, <3>4, Zenon
    <3> QED BY <2>0, <3>3 DEF row, id
  <2>6. CASE incoming[i].entry = 0
    <3> DEFINE row == incoming[i]
               id == Imported(Key[incoming[i].title])
               title == incoming[first(i)].title
    <3>1. rows[i] = [row EXCEPT !.entry = id, !.title = title]
      BY <2>3, <2>6, Zenon
    <3>2. row \in Groups /\ id \in Nat /\ title \in Titles
      BY <2>0, <2>2, <2>4
    <3> HIDE DEF row, id, title
    <3>4. /\ [row EXCEPT !.entry = id, !.title = title] \in Groups
          /\ [row EXCEPT !.entry = id, !.title = title].entry = id
          /\ [row EXCEPT !.entry = id, !.title = title].title = title
          /\ [row EXCEPT !.entry = id, !.title = title].season = row.season
      BY <3>2 DEF Groups
    <3>3. /\ rows[i] \in Groups /\ rows[i].entry = id /\ rows[i].title = title
          /\ rows[i].season = row.season
      BY <3>1, <3>4, Zenon
    <3> QED BY <2>0, <2>2, <3>3 DEF row, id, title
  <2> QED BY <2>5, <2>6
<1>2. rows = [i \in DOMAIN incoming |-> rows[i]]
  BY DEF Coalesced
<1> HIDE DEF rows
<1> QED BY <1>1, <1>2, SheetOf DEF rows

(***************************************************************************)
(* Imports.                                                                *)
(***************************************************************************)
\* A row stands for another, under a title that may be written otherwise.
Like(row, own) == row.entry = own.entry /\ row.season = own.season /\ row.urls = own.urls

\* One imported group: the sheet still agrees with the table, and only an update
\* drops rows, those of the title and season it brings.
LEMMA ReconciledIs ==
  ASSUME NEW current \in Sheets, NEW sheet \in Sheets, NEW row \in Groups,
         NEW update \in BOOLEAN, Agrees(sheet, current), Agrees(current, current),
         \A own \in Range(current) : row.entry # own.entry
  PROVE  /\ Reconciled(current, sheet, row, update) \in Sheets
         /\ Agrees(Reconciled(current, sheet, row, update), current)
         /\ \A r \in Range(sheet) :
              \/ update /\ Concerns(r, Key[row.title], row.season)
              \/ \E d \in Range(Reconciled(current, sheet, row, update)) : Like(d, r)
<1> DEFINE key    == Key[row.title]
           same   == {i \in DOMAIN current : Key[current[i].title] = key}
           old    == {current[i] : i \in {j \in same : current[j].season = row.season}}
           home   == IF same = {} THEN row ELSE current[Lowest(same)]
           title  == IF update THEN row.title ELSE home.title
           left   == {i \in DOMAIN sheet : ~Concerns(sheet[i], key, row.season)}
           kept   == IF old = {} THEN sheet ELSE Chosen(sheet, left)
           Renamed(r) == IF update /\ same # {} /\ Key[r.title] = key
                           THEN [r EXCEPT !.title = title] ELSE r
           named  == [i \in DOMAIN kept |-> Renamed(kept[i])]
           added  == [row EXCEPT !.entry = home.entry, !.title = title]
           new    == Reconciled(current, sheet, row, update)
<1>0. row.title \in Titles /\ row.entry \in Nat
  BY DEF Groups
<1>1. new = IF old # {} /\ (~update \/ Signature(old) = Signature({row}))
              THEN sheet ELSE Append(named, added)
  BY DEF Reconciled
<1>2. /\ home \in Groups /\ Key[home.title] = key
      /\ home.entry \in Nat /\ home.title \in Titles
      /\ \A own \in Range(current) : own.entry = home.entry => Key[own.title] = key
  <2>1. CASE same = {}
    <3>1. home = row
      BY <2>1
    <3> QED BY <1>0, <3>1
  <2>2. CASE same # {}
    <3>1. same \in SUBSET Nat
      BY RowAt
    <3>2. Lowest(same) \in same
      BY <2>2, <3>1, LowestIs
    <3> DEFINE k == Lowest(same)
    <3>3. k \in DOMAIN current /\ Key[current[k].title] = key /\ home = current[k]
      BY <2>2, <3>2
    <3> HIDE DEF k, home, key, same
    <3>4. /\ current[k] \in Groups /\ current[k].entry \in Nat /\ current[k].title \in Titles
          /\ current[k] \in Range(current)
      BY <3>3, RowAt DEF Range
    <3>5. ASSUME NEW own \in Range(current), own.entry = home.entry PROVE Key[own.title] = key
      BY <3>3, <3>4, <3>5 DEF Agrees
    <3> QED BY <3>3, <3>4, <3>5
  <2> QED BY <2>1, <2>2
<1>3. title \in Titles /\ Key[title] = key
  BY <1>0, <1>2
<1>4. /\ added \in Groups /\ added.title = title /\ added.entry = home.entry
  <2> HIDE DEF home, title
  <2> QED BY <1>2, <1>3 DEF Groups
<1>5. kept \in Sheets /\ \A r \in Range(kept) : r \in Range(sheet)
  <2>1. CASE old = {}
    <3>1. kept = sheet
      BY <2>1
    <3> QED BY <3>1
  <2>2. CASE old # {}
    <3>1. kept = Chosen(sheet, left) /\ left \in SUBSET (DOMAIN sheet)
      BY <2>2
    <3> HIDE DEF kept, left, old
    <3>2. kept \in Sheets /\ Range(kept) = {sheet[i] : i \in left}
      BY <3>1, ChosenIs DEF Sheets
    <3> QED BY <3>1, <3>2 DEF Range
  <2> QED BY <2>1, <2>2
<1>6. ASSUME NEW r \in Range(sheet)
      PROVE  \/ old # {} /\ Concerns(r, key, row.season)
             \/ r \in Range(kept)
  <2>1. CASE old = {}
    <3>1. kept = sheet
      BY <2>1
    <3> QED BY <3>1
  <2>2. CASE old # {}
    <3>1. kept = Chosen(sheet, left) /\ left \in SUBSET (DOMAIN sheet)
      BY <2>2
    <3>0. PICK i \in DOMAIN sheet : r = sheet[i]
      BY DEF Range
    <3>3. i \in left \/ Concerns(r, key, row.season)
      BY <3>0
    <3> HIDE DEF kept, left, old
    <3>2. Range(kept) = {sheet[n] : n \in left}
      BY <3>1, ChosenIs DEF Sheets
    <3> QED BY <2>2, <3>0, <3>2, <3>3
  <2> QED BY <2>1, <2>2
<1> HIDE DEF key, same, old, home, title, left, kept, added, new
<1>7. ASSUME NEW r \in Groups
      PROVE  /\ Renamed(r) \in Groups /\ Like(Renamed(r), r)
             /\ Key[Renamed(r).title] = Key[r.title]
  <2>1. CASE update /\ same # {} /\ Key[r.title] = key
    <3>1. Renamed(r) = [r EXCEPT !.title = title]
      BY <2>1
    <3> HIDE DEF Renamed
    <3>2. /\ [r EXCEPT !.title = title] \in Groups
          /\ [r EXCEPT !.title = title].title = title
          /\ [r EXCEPT !.title = title].entry = r.entry
          /\ [r EXCEPT !.title = title].season = r.season
          /\ [r EXCEPT !.title = title].urls = r.urls
      BY <1>3, NewName
    <3> QED BY <1>3, <2>1, <3>1, <3>2 DEF Like
  <2>2. CASE ~(update /\ same # {} /\ Key[r.title] = key)
    BY <2>2 DEF Like
  <2> QED BY <2>1, <2>2
<1>8. DOMAIN kept = 1 .. Len(kept) /\ Len(kept) \in Nat /\ \A i \in DOMAIN kept : kept[i] \in Groups
  BY <1>5 DEF Sheets
<1> HIDE DEF Renamed
<1>9. named \in Sheets /\ DOMAIN named = DOMAIN kept /\ \A i \in DOMAIN kept : named[i] = Renamed(kept[i])
  <2>1. \A i \in 1 .. Len(kept) : Renamed(kept[i]) \in Groups
    BY <1>7, <1>8
  <2> QED BY <1>8, <2>1, IsASeq DEF Sheets
<1> HIDE DEF named
<1>10. /\ Append(named, added) \in Sheets
       /\ \A i \in DOMAIN named : named[i] \in Range(Append(named, added))
       /\ \A r \in Range(Append(named, added)) : r = added \/ \E i \in DOMAIN named : r = named[i]
  <2> DEFINE longer == Append(named, added)
  <2>1. /\ Len(longer) = Len(named) + 1 /\ longer[Len(named) + 1] = added
        /\ \A i \in 1 .. Len(named) : longer[i] = named[i]
        /\ DOMAIN named = 1 .. Len(named) /\ DOMAIN longer = 1 .. (Len(named) + 1)
        /\ Len(named) \in Nat
        /\ longer \in Sheets
    BY <1>4, <1>9 DEF Sheets
  <2> HIDE DEF longer
  <2>2. \A i \in DOMAIN longer : i = Len(named) + 1 \/ i \in DOMAIN named
    BY <2>1
  <2>3. \A i \in DOMAIN named : i \in DOMAIN longer
    BY <2>1
  <2> QED BY <2>1, <2>2, <2>3 DEF Range, longer
<1>11. CASE old # {} /\ (~update \/ Signature(old) = Signature({row}))
  <2>1. new = sheet
    BY <1>1, <1>11
  <2>2. \A r \in Range(sheet) : \E d \in Range(new) : Like(d, r)
    BY <2>1 DEF Like
  <2> QED BY <2>1, <2>2 DEF new
<1>12. CASE ~(old # {} /\ (~update \/ Signature(old) = Signature({row})))
  <2>1. new = Append(named, added)
    BY <1>1, <1>12
  <2>2. ASSUME NEW r \in Range(new), NEW own \in Range(current), r.entry = own.entry
        PROVE  Key[r.title] = Key[own.title]
    <3>1. CASE r = added
      BY <1>2, <1>3, <1>4, <2>2, <3>1
    <3>2. ASSUME NEW i \in DOMAIN named, r = named[i] PROVE Key[r.title] = Key[own.title]
      <4>1. r = Renamed(kept[i]) /\ kept[i] \in Groups /\ kept[i] \in Range(sheet)
        BY <1>5, <1>8, <1>9, <3>2 DEF Range
      <4>2. Key[r.title] = Key[kept[i].title] /\ r.entry = kept[i].entry
        BY <1>7, <4>1 DEF Like
      <4> QED BY <2>2, <4>1, <4>2 DEF Agrees
    <3> QED BY <1>10, <2>1, <2>2, <3>1, <3>2
  <2>3. ASSUME NEW r \in Range(sheet), ~(update /\ Concerns(r, key, row.season))
        PROVE  \E d \in Range(new) : Like(d, r)
    <3>1. r \in Range(kept)
      BY <1>6, <1>12, <2>3
    <3>2. PICK i \in DOMAIN kept : r = kept[i]
      BY <3>1 DEF Range
    <3>3. named[i] \in Range(new) /\ Like(named[i], r)
      BY <1>7, <1>8, <1>9, <1>10, <2>1, <3>2
    <3> QED BY <3>3
  <2> QED BY <1>10, <2>1, <2>2, <2>3 DEF Agrees, new, key
<1> QED BY <1>11, <1>12

\* The first n imported rows bring the title and season of this one.
Brought(rows, n, own) ==
  \E j \in 1 .. n : Concerns(own, Key[rows[j].title], rows[j].season)

\* What holds of the sheet after the first n imported groups.
Upheld(sheet, current, rows, n, update) ==
  /\ sheet \in Sheets /\ Agrees(sheet, current)
  /\ \A own \in Range(current) :
       \/ update /\ Brought(rows, n, own)
       \/ \E d \in Range(sheet) : Like(d, own)

\* One imported row more.
LEMMA OneMore ==
  ASSUME NEW current \in Sheets, Agrees(current, current), NEW rows \in Sheets,
         NEW update \in BOOLEAN, NEW sheet, NEW n \in Nat, n + 1 <= Len(rows),
         \A i \in DOMAIN rows, own \in Range(current) : rows[i].entry # own.entry,
         Upheld(sheet, current, rows, n, update)
  PROVE  Upheld(Reconciled(current, sheet, rows[n + 1], update), current, rows, n + 1, update)
<1> DEFINE row == rows[n + 1]
           new == Reconciled(current, sheet, row, update)
<1>0. Len(rows) \in Nat /\ DOMAIN rows = 1 .. Len(rows)
  BY DEF Sheets
<1>1. n + 1 \in DOMAIN rows
  BY <1>0
<1>2. row \in Groups /\ \A own \in Range(current) : row.entry # own.entry
  BY <1>1, RowAt
<1>3. sheet \in Sheets /\ Agrees(sheet, current)
  BY DEF Upheld
<1> DEFINE title == row.title
<1> HIDE DEF row
<1>4. /\ new \in Sheets /\ Agrees(new, current)
      /\ \A r \in Range(sheet) : \/ update /\ Concerns(r, Key[row.title], row.season)
                                \/ \E d \in Range(new) : Like(d, r)
  BY <1>2, <1>3, ReconciledIs
<1> HIDE DEF new
<1>5. ASSUME NEW own \in Range(current)
      PROVE  \/ update /\ Brought(rows, n + 1, own)
             \/ \E d \in Range(new) : Like(d, own)
  <2>1. CASE update /\ Brought(rows, n, own)
    <3>1. \A j \in 1 .. n : j \in 1 .. (n + 1)
      OBVIOUS
    <3> QED BY <2>1, <3>1 DEF Brought
  <2>2. ASSUME NEW r \in Range(sheet), Like(r, own)
        PROVE  \/ update /\ Brought(rows, n + 1, own)
               \/ \E d \in Range(new) : Like(d, own)
    <3>1. CASE update /\ Concerns(r, Key[row.title], row.season)
      <4>1. Key[r.title] = Key[own.title] /\ r.season = own.season
        BY <1>3, <2>2 DEF Agrees, Like
      <4>2. Concerns(own, Key[row.title], row.season)
        BY <3>1, <4>1 DEF Concerns
      <4>3. n + 1 \in 1 .. (n + 1)
        OBVIOUS
      <4> QED BY <3>1, <4>2, <4>3 DEF Brought, row
    <3>2. ASSUME NEW d \in Range(new), Like(d, r) PROVE Like(d, own)
      BY <2>2, <3>2 DEF Like
    <3> QED BY <1>4, <3>1, <3>2
  <2> QED BY <2>1, <2>2 DEF Upheld
<1> QED BY <1>4, <1>5 DEF Upheld, new, row

\* All of them.
LEMMA ImportedRowsAre ==
  ASSUME NEW current \in Sheets, Agrees(current, current), NEW incoming \in Sheets,
         \A own \in Range(current), id \in Nat : own.entry # Imported(id),
         NEW mode \in {"add_only", "update"}
  PROVE  Upheld(ReconcileImportRows(current, incoming, mode), current, Coalesced(incoming),
                Len(Coalesced(incoming)), mode = "update")
<1> DEFINE rows == Coalesced(incoming)
           update == mode = "update"
           isAfter(f) == f = [n \in 0 .. Len(rows) |->
                                IF n = 0 THEN current
                                ELSE Reconciled(current, f[n - 1], rows[n], update)]
           after == CHOOSE f : isAfter(f)
<1>1. ReconcileImportRows(current, incoming, mode) = after[Len(rows)]
  BY DEF ReconcileImportRows
<1>2. /\ rows \in Sheets /\ update \in BOOLEAN
      /\ \A i \in DOMAIN rows, own \in Range(current) : rows[i].entry # own.entry
  BY CoalescedIs
<1>3. Len(rows) \in Nat
  BY <1>2 DEF Sheets
<1> HIDE DEF rows, update
<1> DEFINE Follows(f, n) ==
             /\ f = [k \in 0 .. n |-> f[k]]
             /\ \A k \in 0 .. n : f[k] = IF k = 0 THEN current
                                        ELSE Reconciled(current, f[k - 1], rows[k], update)
           reached == {n \in Nat : \E f : Follows(f, n)}
<1>4. reached = Nat
  <2>1. 0 \in reached
    <3> DEFINE f == [k \in 0 .. 0 |-> current]
    <3>1. Follows(f, 0)
      OBVIOUS
    <3> HIDE DEF Follows
    <3> QED BY <3>1
  <2>2. ASSUME NEW n \in Nat, NEW f, Follows(f, n) PROVE \E g : Follows(g, n + 1)
    <3> DEFINE last == Reconciled(current, f[n], rows[n + 1], update)
               g == [k \in 0 .. (n + 1) |-> IF k = n + 1 THEN last ELSE f[k]]
    <3>1. ASSUME NEW k \in 0 .. (n + 1)
          PROVE  g[k] = IF k = 0 THEN current
                        ELSE Reconciled(current, g[k - 1], rows[k], update)
      <4> HIDE DEF last
      <4>1. CASE k = n + 1
        <5>1. g[k] = last /\ g[k - 1] = f[n] /\ k # 0
          BY <4>1
        <5> HIDE DEF g
        <5> QED BY <4>1, <5>1 DEF last
      <4>2. CASE k # n + 1
        <5>1. k \in 0 .. n /\ g[k] = f[k] /\ (k # 0 => g[k - 1] = f[k - 1])
          BY <4>2
        <5> HIDE DEF g
        <5>2. f[k] = IF k = 0 THEN current
                     ELSE Reconciled(current, f[k - 1], rows[k], update)
          BY <2>2, <5>1
        <5> QED BY <5>1, <5>2
      <4> QED BY <4>1, <4>2
    <3>2. g = [k \in 0 .. (n + 1) |-> g[k]]
      OBVIOUS
    <3> HIDE DEF g
    <3>3. Follows(g, n + 1)
      BY <3>1, <3>2
    <3> HIDE DEF Follows
    <3> QED BY <3>3
  <2>3. reached \in SUBSET Nat /\ \A n \in reached : n + 1 \in reached
    <3> HIDE DEF Follows
    <3> QED BY <2>2
  <2> HIDE DEF reached
  <2> QED BY <2>1, <2>3, SetInduction
<1>5. isAfter(after)
  <2>1. Len(rows) \in reached
    BY <1>3, <1>4
  <2>2. PICK f : Follows(f, Len(rows))
    <3> HIDE DEF Follows
    <3> QED BY <2>1
  <2>3. isAfter(f)
    BY <2>2
  <2> HIDE DEF isAfter
  <2> QED BY <2>3
<1>6. \A n \in 0 .. Len(rows) : after[n] = IF n = 0 THEN current
                              ELSE Reconciled(current, after[n - 1], rows[n], update)
  <2> HIDE DEF after
  <2> QED BY <1>5
<1> HIDE DEF after, reached, Follows
<1> DEFINE upheld == {n \in Nat : n <= Len(rows) => Upheld(after[n], current, rows, n, update)}
<1>7. 0 \in upheld
  <2>1. after[0] = current
    BY <1>3, <1>6
  <2>2. Upheld(current, current, rows, 0, update)
    BY DEF Upheld, Like
  <2> QED BY <2>1, <2>2
<1>8. ASSUME NEW n \in upheld PROVE n + 1 \in upheld
  <2> SUFFICES ASSUME n + 1 <= Len(rows) PROVE Upheld(after[n + 1], current, rows, n + 1, update)
    BY <1>8
  <2>1. n \in Nat /\ n <= Len(rows)
    BY <1>3
  <2>2. Upheld(after[n], current, rows, n, update)
    BY <2>1
  <2>3. after[n + 1] = Reconciled(current, after[n], rows[n + 1], update)
    <3>1. n + 1 \in 0 .. Len(rows) /\ n + 1 # 0 /\ (n + 1) - 1 = n
      BY <1>3, <2>1
    <3> QED BY <1>6, <3>1
  <2>4. Upheld(Reconciled(current, after[n], rows[n + 1], update), current, rows, n + 1, update)
    <3> HIDE DEF upheld
    <3> QED BY <1>2, <2>1, <2>2, OneMore
  <2> QED BY <2>3, <2>4
<1>9. upheld = Nat
  <2>1. upheld \in SUBSET Nat
    OBVIOUS
  <2> HIDE DEF upheld
  <2> QED BY <1>7, <1>8, <2>1, SetInduction
<1>10. Upheld(after[Len(rows)], current, rows, Len(rows), update)
  BY <1>3, <1>9
<1> QED BY <1>1, <1>10 DEF rows, update, after

\* The ids of an import are none of the table's.
LEMMA NoImportedRows ==
  ASSUME NEW data \in Tables, NEW prefs
  PROVE  \A own \in Range(FlattenTable(data, prefs)), id \in Nat : own.entry # Imported(id)
<1> SUFFICES ASSUME NEW own \in Range(FlattenTable(data, prefs)), NEW id \in Nat
             PROVE  own.entry # Imported(id)
  OBVIOUS
<1>1. PICK i \in DOMAIN data : own.entry = Known(i)
  BY FlattenTableIs
<1>2. i \in Nat
  BY DEF Tables
<1>3. Known(i) # Imported(id)
  BY <1>2 DEF Known, Imported
<1> QED BY <1>1, <1>3

\* An import leaves a sheet.
LEMMA ImportTyped ==
  ASSUME NEW data \in Tables, NEW prefs, NEW incoming \in Sheets,
         NEW mode \in {"add_only", "update", "overwrite"}
  PROVE  ReconcileImportRows(FlattenTable(data, prefs), incoming, mode) \in Sheets
<1> DEFINE current == FlattenTable(data, prefs)
<1>1. current \in Sheets /\ Agrees(current, current)
  BY FlattenTableIs, FlatAgrees
<1>2. \A own \in Range(current), id \in Nat : own.entry # Imported(id)
  BY NoImportedRows
<1> HIDE DEF current
<1>3. CASE mode = "overwrite"
  <2>1. ReconcileImportRows(current, incoming, mode) = Coalesced(incoming)
    BY <1>3 DEF ReconcileImportRows
  <2> QED BY <2>1, CoalescedIs DEF current
<1>4. CASE mode # "overwrite"
  <2>1. mode \in {"add_only", "update"}
    BY <1>4
  <2> QED BY <1>1, <1>2, <2>1, ImportedRowsAre DEF Upheld, current
<1> QED BY <1>3, <1>4

\* What an import takes away: nothing, the seasons it brings, everything.
LEMMA ImportKeeps ==
  ASSUME NEW data \in Tables, NEW prefs, NEW incoming \in Sheets,
         NEW mode \in {"add_only", "update", "overwrite"},
         NEW fact \in Facts(data)
  PROVE  LET sheet == ReconcileImportRows(FlattenTable(data, prefs), incoming, mode)
         IN  /\ sheet \in Sheets
             /\ \/ mode = "overwrite"
                \/ mode = "update" /\ \E i \in DOMAIN incoming :
                                         Concerns(incoming[i], fact[1], fact[2])
                \/ fact \in Facts(TableFromRows(sheet))
<1> DEFINE current == FlattenTable(data, prefs)
           rows == Coalesced(incoming)
           sheet == ReconcileImportRows(current, incoming, mode)
<1>1. current \in Sheets /\ Agrees(current, current)
  BY FlattenTableIs, FlatAgrees
<1>2. /\ rows \in Sheets /\ DOMAIN rows = DOMAIN incoming
      /\ \A i \in DOMAIN incoming : /\ Key[rows[i].title] = Key[incoming[i].title]
                                    /\ rows[i].season = incoming[i].season
  BY CoalescedIs
<1>3. CASE mode = "overwrite"
  <2>1. sheet = rows
    BY <1>3 DEF ReconcileImportRows
  <2> QED BY <1>2, <1>3, <2>1
<1>4. CASE mode # "overwrite"
  <2>1. \A own \in Range(current), id \in Nat : own.entry # Imported(id)
    BY NoImportedRows
  <2>2. mode \in {"add_only", "update"}
    BY <1>4
  <2>3. PICK e \in Range(data) : Serves(e, fact)
    BY FactsIs
  <2>4. PICK k \in DOMAIN data : e = data[k]
    BY DEF Range
  <2>5. PICK own \in Range(current) : own.season # NoSeason /\ fact \in FactsIn(own)
    BY <2>3, <2>4, FlattenTableIs
  <2> HIDE DEF current, rows, sheet
  <2>6. Upheld(sheet, current, rows, Len(rows), mode = "update")
    BY <1>1, <2>1, <2>2, ImportedRowsAre DEF rows, sheet
  <2>7. CASE mode = "update" /\ Brought(rows, Len(rows), own)
    <3>1. PICK j \in 1 .. Len(rows) : Concerns(own, Key[rows[j].title], rows[j].season)
      BY <2>7 DEF Brought
    <3>2. j \in DOMAIN incoming
      BY <1>2 DEF Sheets
    <3>3. fact[1] = Key[own.title] /\ fact[2] = own.season
      BY <2>5 DEF FactsIn
    <3>4. Concerns(incoming[j], fact[1], fact[2])
      BY <1>2, <3>1, <3>2, <3>3 DEF Concerns
    <3> QED BY <2>6, <2>7, <3>2, <3>4 DEF Upheld, sheet, current
  <2>8. ASSUME NEW d \in Range(sheet), Like(d, own) PROVE fact \in Facts(TableFromRows(sheet))
    <3>1. sheet \in Sheets /\ Agrees(sheet, current)
      BY <2>6 DEF Upheld
    <3>2. d.entry = own.entry /\ d.season = own.season /\ d.urls = own.urls
      BY <2>8 DEF Like
    <3>3. Key[d.title] = Key[own.title]
      BY <3>1, <3>2 DEF Agrees
    <3>4. FactsIn(d) = FactsIn(own)
      BY <3>2, <3>3 DEF FactsIn
    <3>5. FactsIn(d) \subseteq Facts(TableFromRows(sheet))
      BY <2>5, <3>1, <3>2, OwnRowIsKept
    <3> QED BY <2>5, <3>4, <3>5
  <2> QED BY <2>6, <2>7, <2>8 DEF Upheld, sheet, current
<1> QED BY <1>3, <1>4

(***************************************************************************)
(* A page that is read back (mapping.py).                                  *)
(***************************************************************************)
\* The table as every write leaves it: in the order of its titles.
Sorted(data) == \A i, j \in DOMAIN data : i < j => data[i].title <= data[j].title

\* No season has a URL twice.
Single(seasons) == \A s \in DOMAIN seasons : IsInjective(seasons[s])
Unrepeated(data) == \A e \in Range(data) : Single(e.seasons)

\* A table the page can read back.
Neat(data) == Sorted(data) /\ Unrepeated(data)

\* The comparison the table is sorted with.
ByTitle(data) ==
  {p \in (DOMAIN data) \X (DOMAIN data) : data[p[1]].title < data[p[2]].title}

\* sorted() can be given the titles to compare.
LEMMA ByTitleSorts ==
  ASSUME NEW data \in Tables
  PROVE  /\ SortedByTitle(data) = Arranged(data, ByTitle(data))
         /\ Sorts(ByTitle(data), DOMAIN data)
         /\ \A i, j \in DOMAIN data :
              <<i, j>> \in ByTitle(data) <=> data[i].title < data[j].title
         /\ \A i \in DOMAIN data : data[i].title \in Nat
<1>1. SortedByTitle(data) = Arranged(data, ByTitle(data))
  BY DEF SortedByTitle, ByTitle
<1>2. \A i, j \in DOMAIN data : <<i, j>> \in ByTitle(data) <=> data[i].title < data[j].title
  BY DEF ByTitle
<1>3. \A i \in DOMAIN data : data[i].title \in Nat
  BY EntryAt, RowsAssumption
<1>4. Sorts(ByTitle(data), DOMAIN data)
  <2> DEFINE T(i) == data[i].title
  <2>1. \A i \in DOMAIN data : T(i) \in Nat
    BY <1>3
  <2>2. \A i, j \in DOMAIN data : <<i, j>> \in ByTitle(data) <=> T(i) < T(j)
    BY <1>2
  <2> HIDE DEF T
  <2> QED BY <2>1, <2>2 DEF Sorts
<1> QED BY <1>1, <1>2, <1>3, <1>4

\* A table in the order of its titles is left as it is by a sort.
LEMMA SortedStays ==
  ASSUME NEW data \in Tables, Sorted(data)
  PROVE  SortedByTitle(data) = data
<1>1. \A i, j \in DOMAIN data : i < j => <<j, i>> \notin ByTitle(data)
  BY ByTitleSorts DEF Sorted
<1>2. data \in Seq(Entries)
  BY DEF Tables
<1> QED BY <1>1, <1>2, ByTitleSorts, ArrangedSame

\* A table that was sorted is in order, and its lists are as they were.
LEMMA SortingSorts ==
  ASSUME NEW data \in Tables
  PROVE  /\ Sorted(SortedByTitle(data))
         /\ Unrepeated(data) => Unrepeated(SortedByTitle(data))
<1> DEFINE sorted == SortedByTitle(data)
<1>1. data \in Seq(Entries)
  BY DEF Tables
<1>2. PICK order \in [DOMAIN data -> DOMAIN data] :
        /\ Arranged(data, ByTitle(data)) = [n \in DOMAIN data |-> data[order[n]]]
        /\ \A i \in DOMAIN data : \E n \in DOMAIN data : order[n] = i
        /\ \A n, m \in DOMAIN data :
             n < m => order[n] # order[m] /\ <<order[m], order[n]>> \notin ByTitle(data)
  BY <1>1, ByTitleSorts, ArrangedBy
<1>3. sorted = [n \in DOMAIN data |-> data[order[n]]]
  BY <1>2, ByTitleSorts
<1> HIDE DEF sorted
<1>4. ASSUME NEW n \in DOMAIN data, NEW m \in DOMAIN data, n < m
      PROVE  sorted[n].title <= sorted[m].title
  <2>1. <<order[m], order[n]>> \notin ByTitle(data) /\ order[n] \in DOMAIN data /\ order[m] \in DOMAIN data
    BY <1>2, <1>4
  <2>2. /\ ~(data[order[m]].title < data[order[n]].title)
        /\ data[order[m]].title \in Nat /\ data[order[n]].title \in Nat
    BY <2>1, ByTitleSorts
  <2> QED BY <1>3, <2>2
<1>5. Sorted(sorted)
  BY <1>3, <1>4 DEF Sorted
<1>6. Range(sorted) = Range(data)
  BY SortedByTitleIs DEF sorted
<1>7. Unrepeated(data) => Unrepeated(sorted)
  BY <1>6 DEF Unrepeated
<1> QED BY <1>5, <1>7 DEF sorted

\* A row of an entry, as the page shows it.
RowOf(row, e, i) ==
  /\ row.entry = Known(i) /\ row.title = e.title /\ row.absolute = e.absolute
  /\ IF DOMAIN e.seasons = {} THEN row.season = NoSeason
     ELSE row.season \in DOMAIN e.seasons /\ row.urls = e.seasons[row.season]

\* The rows of an entry show it, one row for each of its seasons.
LEMMA GroupsAre ==
  ASSUME NEW e \in Entries, NEW i \in Nat \ {0}, NEW prefs
  PROVE  /\ DOMAIN GroupsOf(e, i, prefs) # {}
         /\ \A n \in DOMAIN GroupsOf(e, i, prefs) : RowOf(GroupsOf(e, i, prefs)[n], e, i)
         /\ \A n, m \in DOMAIN GroupsOf(e, i, prefs) :
              GroupsOf(e, i, prefs)[n].season = GroupsOf(e, i, prefs)[m].season => n = m
<1> DEFINE review == e.title \in prefs.review
           shared == e.title \in prefs.shared
           Row(s, urls, flag) == Group(Known(i), e.title, s, urls, e.absolute, flag, shared)
           order == Ascending(DOMAIN e.seasons)
           groups == GroupsOf(e, i, prefs)
<1>1. e.seasons \in SeasonMaps
  BY EntryIs
<1>3. DOMAIN e.seasons \in SUBSET Nat /\ IsFiniteSet(DOMAIN e.seasons)
  <2>0. Absolute \in Int /\ 0 \in Int
    BY DEF Absolute
  <2>1. IsFiniteSet(0 .. Absolute)
    BY <2>0, FS_Interval, Zenon
  <2>2. DOMAIN e.seasons \in SUBSET (0 .. Absolute)
    BY <1>1, SeasonMapIs
  <2>3. IsFiniteSet(DOMAIN e.seasons)
    BY <2>1, <2>2, FS_Subset
  <2>4. \A s \in DOMAIN e.seasons : s \in Nat
    BY <2>0, <2>2
  <2> QED BY <2>3, <2>4
<1>4. /\ order \in [1 .. Cardinality(DOMAIN e.seasons) -> DOMAIN e.seasons]
      /\ Cardinality(DOMAIN e.seasons) \in Nat
      /\ \A s \in DOMAIN e.seasons : \E n \in DOMAIN order : order[n] = s
      /\ \A n, m \in DOMAIN order : n < m => order[n] < order[m]
  BY <1>3, AscendingIs, FS_CardinalityType
<1>5. groups = IF order = <<>> THEN <<Row(NoSeason, <<>>, TRUE)>>
               ELSE [n \in DOMAIN order |-> Row(order[n], e.seasons[order[n]], review)]
  BY DEF GroupsOf
<1>6. ASSUME NEW s, NEW urls, NEW flag
      PROVE  /\ Row(s, urls, flag).entry = Known(i) /\ Row(s, urls, flag).title = e.title
             /\ Row(s, urls, flag).absolute = e.absolute
             /\ Row(s, urls, flag).season = s /\ Row(s, urls, flag).urls = urls
  BY DEF Group
<1> DEFINE alone == Row(NoSeason, <<>>, TRUE)
<1>7. /\ alone.entry = Known(i) /\ alone.title = e.title
      /\ alone.absolute = e.absolute /\ alone.season = NoSeason
  BY DEF Group
<1> HIDE DEF groups, Row, order, review, alone
<1>8. CASE order = <<>>
  <2>1. groups = <<alone>>
    BY <1>5, <1>8 DEF alone
  <2>2. DOMAIN e.seasons = {}
    <3>1. DOMAIN order = {}
      BY <1>8
    <3> QED BY <1>4, <3>1
  <2>3. RowOf(alone, e, i)
    BY <1>7, <2>2 DEF RowOf
  <2>4. DOMAIN groups = {1} /\ groups[1] = alone
    BY <2>1
  <2> QED BY <2>3, <2>4 DEF groups
<1>9. CASE order # <<>>
  <2>1. groups = [n \in DOMAIN order |-> Row(order[n], e.seasons[order[n]], review)]
    BY <1>5, <1>9
  <2>2. DOMAIN order # {}
    <3>1. CASE Cardinality(DOMAIN e.seasons) = 0
      <4>1. order \in [1 .. 0 -> DOMAIN e.seasons]
        BY <1>4, <3>1
      <4>2. order = <<>>
        BY <4>1
      <4> QED BY <1>9, <4>2
    <3>2. CASE Cardinality(DOMAIN e.seasons) # 0
      BY <1>4, <3>2
    <3> QED BY <3>1, <3>2
  <2>3. ASSUME NEW n \in DOMAIN order
        PROVE  /\ RowOf(groups[n], e, i) /\ groups[n].season = order[n]
               /\ order[n] \in Nat
    <3>1. order[n] \in DOMAIN e.seasons
      BY <1>4
    <3>2. groups[n] = Row(order[n], e.seasons[order[n]], review)
      BY <2>1
    <3> QED BY <1>3, <1>6, <3>1, <3>2 DEF RowOf
  <2>4. ASSUME NEW n \in DOMAIN order, NEW m \in DOMAIN order, groups[n].season = groups[m].season
        PROVE  n = m
    <3>1. order[n] = order[m] /\ order[n] \in Nat
      BY <2>3, <2>4
    <3>2. ~(n < m) /\ ~(m < n)
      BY <1>4, <3>1
    <3>3. n \in Nat /\ m \in Nat
      BY <1>4
    <3> QED BY <3>2, <3>3
  <2>5. DOMAIN groups = DOMAIN order
    BY <2>1
  <2> QED BY <2>2, <2>3, <2>4, <2>5 DEF groups
<1> QED BY <1>8, <1>9

\* Different positions of the table have different row ids.
LEMMA KnownOnce ==
  ASSUME NEW i \in Nat \ {0}, NEW j \in Nat \ {0}, Known(i) = Known(j)
  PROVE  i = j
BY DEF Known

\* Every row of the page shows an entry, every season has a row, and only one.
LEMMA SheetIs ==
  ASSUME NEW data \in Tables, NEW prefs
  PROVE  LET sheet == FlattenTable(data, prefs)
         IN  /\ \A a \in DOMAIN sheet : \E i \in DOMAIN data : RowOf(sheet[a], data[i], i)
             /\ \A i \in DOMAIN data : \E a \in DOMAIN sheet : RowOf(sheet[a], data[i], i)
             /\ \A i \in DOMAIN data : \A s \in DOMAIN data[i].seasons :
                  \E a \in DOMAIN sheet : sheet[a].entry = Known(i) /\ sheet[a].season = s
             /\ \A a, b \in DOMAIN sheet :
                  sheet[a].entry = sheet[b].entry /\ sheet[a].season = sheet[b].season => a = b
<1> DEFINE lists == [i \in DOMAIN data |-> GroupsOf(data[i], i, prefs)]
           sheet == FlattenTable(data, prefs)
<1>0. DOMAIN data = 1 .. Len(data) /\ Len(data) \in Nat
  BY DEF Tables
<1>1. ASSUME NEW i \in DOMAIN data
      PROVE  /\ data[i] \in Entries /\ i \in Nat \ {0} /\ lists[i] \in Seq(Groups)
             /\ DOMAIN lists[i] # {}
             /\ \A n \in DOMAIN lists[i] : RowOf(lists[i][n], data[i], i)
             /\ \A n, m \in DOMAIN lists[i] :
                  lists[i][n].season = lists[i][m].season => n = m
             /\ \A s \in DOMAIN data[i].seasons : \E row \in Range(lists[i]) : row.season = s
  <2> DEFINE list == GroupsOf(data[i], i, prefs)
  <2>1. data[i] \in Entries /\ i \in Nat \ {0} /\ lists[i] = list
    BY <1>0, EntryAt
  <2>2. list \in Seq(Groups)
    BY <2>1, GroupsOfIs DEF Sheets
  <2>3. \A s \in DOMAIN data[i].seasons : \E row \in Range(list) : row.season = s
    BY <2>1, GroupsOfIs
  <2>4. /\ DOMAIN list # {}
        /\ \A n \in DOMAIN list : RowOf(list[n], data[i], i)
        /\ \A n, m \in DOMAIN list : list[n].season = list[m].season => n = m
    BY <2>1, GroupsAre
  <2> HIDE DEF list, lists
  <2> QED BY <2>1, <2>2, <2>3, <2>4
<1>2. lists \in Seq(Seq(Groups)) /\ DOMAIN lists = DOMAIN data
  <2>1. \A i \in 1 .. Len(data) : GroupsOf(data[i], i, prefs) \in Seq(Groups)
    BY <1>0, <1>1
  <2> QED BY <1>0, <2>1, IsASeq
<1>3. sheet = FlattenSeq(lists)
  BY DEF FlattenTable
<1> HIDE DEF lists, sheet
<1>4. sheet \in Seq(Groups) /\ Range(sheet) = UNION {Range(lists[i]) : i \in DOMAIN data}
  BY <1>2, <1>3, FlattenIs
<1>5. ASSUME NEW row \in Range(sheet)
      PROVE  \E i \in DOMAIN data : \E n \in DOMAIN lists[i] : row = lists[i][n]
  <2>1. PICK i \in DOMAIN data : row \in Range(lists[i])
    BY <1>4
  <2> QED BY <2>1 DEF Range
<1>6. ASSUME NEW i \in DOMAIN data, NEW row \in Range(lists[i])
      PROVE  RowOf(row, data[i], i) /\ \E a \in DOMAIN sheet : row = sheet[a]
  <2>1. row \in Range(sheet)
    BY <1>4
  <2>2. PICK n \in DOMAIN lists[i] : row = lists[i][n]
    BY DEF Range
  <2>3. \E a \in DOMAIN sheet : row = sheet[a]
    BY <2>1 DEF Range
  <2>4. RowOf(lists[i][n], data[i], i)
    BY <1>1
  <2> QED BY <2>2, <2>3, <2>4, Zenon
<1>7. ASSUME NEW i \in DOMAIN data, NEW j \in DOMAIN data,
             NEW n \in DOMAIN lists[i], NEW m \in DOMAIN lists[j],
             lists[i][n].entry = lists[j][m].entry
      PROVE  i = j
  <2>1. RowOf(lists[i][n], data[i], i) /\ RowOf(lists[j][m], data[j], j)
    BY <1>1
  <2>2. Known(i) = Known(j)
    BY <1>7, <2>1 DEF RowOf
  <2> QED BY <1>1, <2>2, KnownOnce
<1>8. IsInjective(sheet)
  <2>1. ASSUME NEW i \in DOMAIN lists PROVE IsInjective(lists[i])
    <3>1. \A n, m \in DOMAIN lists[i] : lists[i][n] = lists[i][m] => n = m
      BY <1>1, <1>2
    <3> QED BY <3>1 DEF IsInjective
  <2>2. ASSUME NEW i \in DOMAIN lists, NEW j \in DOMAIN lists, i # j
        PROVE  Range(lists[i]) \cap Range(lists[j]) = {}
    BY <1>2, <1>7, <2>2 DEF Range
  <2> QED BY <1>2, <1>3, <2>1, <2>2, FlattenOnce
<1>9. ASSUME NEW a \in DOMAIN sheet
      PROVE  \E i \in DOMAIN data : \E n \in DOMAIN lists[i] : sheet[a] = lists[i][n]
  <2>1. sheet[a] \in Range(sheet)
    BY DEF Range
  <2> QED BY <1>5, <2>1
<1>10. ASSUME NEW a \in DOMAIN sheet, NEW b \in DOMAIN sheet,
              sheet[a].entry = sheet[b].entry, sheet[a].season = sheet[b].season
       PROVE  a = b
  <2>1. PICK i \in DOMAIN data : \E n \in DOMAIN lists[i] : sheet[a] = lists[i][n]
    BY <1>9
  <2>2. PICK n \in DOMAIN lists[i] : sheet[a] = lists[i][n]
    BY <2>1
  <2>3. PICK j \in DOMAIN data : \E m \in DOMAIN lists[j] : sheet[b] = lists[j][m]
    BY <1>9
  <2>4. PICK m \in DOMAIN lists[j] : sheet[b] = lists[j][m]
    BY <2>3
  <2>5. i = j
    BY <1>7, <1>10, <2>2, <2>4
  <2>6. n = m
    BY <1>1, <1>10, <2>2, <2>4, <2>5
  <2>7. sheet[a] = sheet[b]
    BY <2>2, <2>4, <2>5, <2>6
  <2> QED BY <1>8, <2>7 DEF IsInjective
<1>11. ASSUME NEW a \in DOMAIN sheet
       PROVE  \E i \in DOMAIN data : RowOf(sheet[a], data[i], i)
  <2>1. PICK i \in DOMAIN data : \E n \in DOMAIN lists[i] : sheet[a] = lists[i][n]
    BY <1>9
  <2> QED BY <1>1, <2>1
<1>12. ASSUME NEW i \in DOMAIN data
       PROVE  \E a \in DOMAIN sheet : RowOf(sheet[a], data[i], i)
  <2>1. PICK n \in DOMAIN lists[i] : TRUE
    BY <1>1
  <2>2. lists[i][n] \in Range(lists[i])
    BY DEF Range
  <2>3. PICK a \in DOMAIN sheet : lists[i][n] = sheet[a]
    BY <1>6, <2>2
  <2>4. RowOf(lists[i][n], data[i], i)
    BY <1>6, <2>2
  <2> QED BY <2>3, <2>4
<1>13. ASSUME NEW i \in DOMAIN data, NEW s \in DOMAIN data[i].seasons
       PROVE  \E a \in DOMAIN sheet : sheet[a].entry = Known(i) /\ sheet[a].season = s
  <2>1. PICK row \in Range(lists[i]) : row.season = s
    BY <1>1
  <2>2. RowOf(row, data[i], i)
    BY <1>6
  <2>3. PICK a \in DOMAIN sheet : row = sheet[a]
    BY <1>6
  <2> QED BY <2>1, <2>2, <2>3 DEF RowOf
<1> QED BY <1>10, <1>11, <1>12, <1>13 DEF sheet

\* A page that is read back gives each entry as it was.
LEMMA EntryRead ==
  ASSUME NEW data \in Tables, Unrepeated(data), NEW prefs, NEW i \in DOMAIN data
  PROVE  /\ Known(i) \in Ids(FlattenTable(data, prefs))
         /\ EntryFromRows(FlattenTable(data, prefs), Known(i)) = data[i]
<1> DEFINE sheet == FlattenTable(data, prefs)
           e == data[i]
           rows == OfEntry(sheet, Known(i))
           last == CHOOSE a \in rows : \A b \in rows :
                     \/ sheet[b].season < sheet[a].season
                     \/ sheet[b].season = sheet[a].season /\ b <= a
           lists(s) == [a \in DOMAIN sheet |->
                          IF a \in rows /\ sheet[a].season = s THEN sheet[a].urls ELSE <<>>]
           UrlsIn(s) == FlattenSeq(lists(s))
           S == {sheet[a].season : a \in rows} \ {NoSeason}
           seasons == [s \in S |-> Distinct(UrlsIn(s))]
<1>0. DOMAIN data = 1 .. Len(data) /\ Len(data) \in Nat
  BY DEF Tables
<1>1. EntryFromRows(sheet, Known(i)) = Entry(sheet[last].title, sheet[last].absolute, seasons)
  BY DEF EntryFromRows
<1>2. /\ sheet \in Sheets
      /\ \A a \in DOMAIN sheet : \E j \in DOMAIN data : RowOf(sheet[a], data[j], j)
      /\ \E a \in DOMAIN sheet : RowOf(sheet[a], e, i)
      /\ \A s \in DOMAIN e.seasons :
           \E a \in DOMAIN sheet : sheet[a].entry = Known(i) /\ sheet[a].season = s
      /\ \A a, b \in DOMAIN sheet :
           sheet[a].entry = sheet[b].entry /\ sheet[a].season = sheet[b].season => a = b
  BY FlattenTableIs, SheetIs
<1> HIDE DEF sheet, last
<1>3. rows \in SUBSET (DOMAIN sheet) /\ \A a \in DOMAIN sheet : a \in rows <=> sheet[a].entry = Known(i)
  BY DEF OfEntry
<1> HIDE DEF rows
<1>4. rows # {}
  BY <1>2, <1>3 DEF RowOf
<1>5. last \in rows
  BY <1>2, <1>3, <1>4, LastRowIs DEF last
<1>6. ASSUME NEW a \in rows PROVE RowOf(sheet[a], e, i)
  <2>1. a \in DOMAIN sheet /\ sheet[a].entry = Known(i)
    BY <1>3
  <2>2. PICK j \in DOMAIN data : RowOf(sheet[a], data[j], j)
    BY <1>2, <2>1
  <2>3. Known(i) = Known(j)
    BY <2>1, <2>2 DEF RowOf
  <2>4. i = j
    BY <1>0, <2>3, KnownOnce
  <2> QED BY <2>2, <2>4
<1>7. e \in Entries /\ e.seasons \in SeasonMaps
  BY EntryAt
<1>8. /\ DOMAIN e.seasons \in SUBSET (0 .. Absolute)
      /\ e.seasons = [s \in DOMAIN e.seasons |-> e.seasons[s]]
      /\ \A s \in DOMAIN e.seasons : e.seasons[s] \in Seq(Urls)
  BY <1>7, SeasonMapIs
<1>9. S = DOMAIN e.seasons
  <2>1. ASSUME NEW a \in rows, sheet[a].season # NoSeason
        PROVE  sheet[a].season \in DOMAIN e.seasons
    BY <1>6, <2>1 DEF RowOf
  <2>2. ASSUME NEW s \in DOMAIN e.seasons PROVE s \in S
    <3>1. PICK a \in DOMAIN sheet : sheet[a].entry = Known(i) /\ sheet[a].season = s
      BY <1>2
    <3>2. a \in rows
      BY <1>3, <3>1
    <3>3. s # NoSeason
      <4>1. s \in 0 .. Absolute
        BY <1>8
      <4> QED BY <4>1 DEF NoSeason, Absolute
    <3> QED BY <3>1, <3>2, <3>3
  <2> QED BY <2>1, <2>2
<1>10. ASSUME NEW s \in DOMAIN e.seasons PROVE Distinct(UrlsIn(s)) = e.seasons[s]
  <2> DEFINE list == lists(s)
  <2>1. PICK a \in DOMAIN sheet : sheet[a].entry = Known(i) /\ sheet[a].season = s
    BY <1>2
  <2>2. a \in rows /\ sheet[a].urls = e.seasons[s]
    <3>1. a \in rows
      BY <1>3, <2>1
    <3> QED BY <1>6, <2>1, <3>1 DEF RowOf
  <2>3. list \in Seq(Seq(Urls)) /\ DOMAIN list = DOMAIN sheet
    <3>1. DOMAIN sheet = 1 .. Len(sheet) /\ Len(sheet) \in Nat
      BY <1>2 DEF Sheets
    <3>2. \A b \in 1 .. Len(sheet) :
            (IF b \in rows /\ sheet[b].season = s THEN sheet[b].urls ELSE <<>>) \in Seq(Urls)
      <4>1. <<>> \in Seq(Urls)
        OBVIOUS
      <4> QED BY <1>2, <3>1, <4>1, RowAt
    <3> QED BY <3>1, <3>2, IsASeq
  <2>4. list[a] = e.seasons[s]
    BY <2>1, <2>2
  <2>5. ASSUME NEW b \in DOMAIN list \ {a} PROVE list[b] = <<>>
    <3>1. b \in DOMAIN sheet
      BY <2>3
    <3>2. ~(b \in rows /\ sheet[b].season = s)
      BY <1>2, <1>3, <2>1, <3>1
    <3> QED BY <3>1, <3>2
  <2>6. UrlsIn(s) = FlattenSeq(list)
    OBVIOUS
  <2> HIDE DEF list, UrlsIn
  <2>7. FlattenSeq(list) = list[a]
    BY <2>3, <2>5, FlattenAlone
  <2>8. UrlsIn(s) = e.seasons[s] /\ e.seasons[s] \in Seq(Urls)
    BY <1>8, <2>4, <2>6, <2>7
  <2>9. IsInjective(e.seasons[s])
    BY DEF Unrepeated, Single, Range
  <2>10. Distinct(e.seasons[s]) = e.seasons[s]
    BY <1>8, <2>9, DistinctOnce
  <2> QED BY <2>8, <2>10
<1>11. seasons = e.seasons
  <2>1. seasons = [s \in DOMAIN e.seasons |-> e.seasons[s]]
    BY <1>9, <1>10
  <2> QED BY <1>8, <2>1
<1>12. sheet[last].title = e.title /\ sheet[last].absolute = e.absolute
  BY <1>5, <1>6 DEF RowOf
<1>13. e = Entry(e.title, e.absolute, e.seasons)
  BY <1>7, EntryIs
<1> HIDE DEF seasons
<1>14. EntryFromRows(sheet, Known(i)) = e
  BY <1>1, <1>11, <1>12, <1>13, Zenon
<1>15. Known(i) \in Ids(sheet)
  BY <1>3, <1>4 DEF Ids
<1> QED BY <1>14, <1>15 DEF sheet

\* Numbers of one digit are read in their order.
LEMMA IdsRead ==
  ASSUME NEW data \in Tables, Len(data) <= 10, Unrepeated(data), NEW prefs
  PROVE  ById(FlattenTable(data, prefs)) = [n \in 1 .. Len(data) |-> Known(n)]
<1> DEFINE sheet == FlattenTable(data, prefs)
           ids == Ids(sheet)
           order == {p \in ids \X ids : IdBefore(p[1], p[2])}
           g == [n \in 1 .. Len(data) |-> Known(n)]
<1>0. DOMAIN data = 1 .. Len(data) /\ Len(data) \in Nat
  BY DEF Tables
<1>1. /\ \A a \in DOMAIN sheet : \E i \in DOMAIN data : RowOf(sheet[a], data[i], i)
      /\ \A i \in DOMAIN data : Known(i) \in ids
  BY SheetIs, EntryRead
<1> HIDE DEF sheet
<1>2. \A id \in ids : \E i \in DOMAIN data : id = Known(i)
  BY <1>1 DEF Ids, RowOf
<1>3. ById(sheet) = InOrder(ids, order)
  BY DEF ById
<1> HIDE DEF ids
<1>4. ids \in SUBSET Nat
  BY <1>0, <1>2 DEF Known
<1>5. Orders(order, ids)
  BY <1>4, IdBeforeOrders
<1>6. g \in [1 .. Len(data) -> ids] /\ \A x \in ids : \E n \in 1 .. Len(data) : g[n] = x
  BY <1>0, <1>1, <1>2
<1>7. ASSUME NEW n \in 1 .. Len(data), NEW m \in 1 .. Len(data), n < m
      PROVE  <<g[n], g[m]>> \in order
  <2>1. /\ Known(n) % 2 = 0 /\ Known(n) \div 2 = n - 1
        /\ Known(m) % 2 = 0 /\ Known(m) \div 2 = m - 1
    BY <1>0 DEF Known
  <2>2. TextRank(n - 1) = 111 * (n - 1) /\ TextRank(m - 1) = 111 * (m - 1)
    <3>1. n - 1 \in Nat /\ n - 1 < 10 /\ m - 1 \in Nat /\ m - 1 < 10
      BY <1>0
    <3> QED BY <3>1, PlainRank
  <2>3. TextRank(n - 1) < TextRank(m - 1)
    BY <1>0, <1>7, <2>2
  <2>4. IdBefore(Known(n), Known(m))
    BY <2>1, <2>3 DEF IdBefore
  <2>5. g[n] = Known(n) /\ g[m] = Known(m) /\ g[n] \in ids /\ g[m] \in ids
    BY <1>6
  <2> QED BY <2>4, <2>5
<1> HIDE DEF order, g
<1>8. InOrder(ids, order) = g
  BY <1>0, <1>5, <1>6, <1>7, ListedIs
<1> QED BY <1>3, <1>8 DEF sheet, g

\* A page that is saved as it was opened leaves the table as it was.
LEMMA ReadBack ==
  ASSUME NEW data \in Tables, Len(data) <= 10, Sorted(data), Unrepeated(data), NEW prefs
  PROVE  TableFromRows(FlattenTable(data, prefs)) = data
<1> DEFINE sheet == FlattenTable(data, prefs)
           ids == ById(sheet)
           read == [n \in DOMAIN ids |-> EntryFromRows(sheet, ids[n])]
<1>0. DOMAIN data = 1 .. Len(data) /\ Len(data) \in Nat /\ data = [n \in 1 .. Len(data) |-> data[n]]
  BY DEF Tables
<1>1. TableFromRows(sheet) = SortedByTitle(read)
  BY DEF TableFromRows
<1>2. ids = [n \in 1 .. Len(data) |-> Known(n)]
  BY IdsRead
<1>3. \A n \in DOMAIN data : EntryFromRows(sheet, Known(n)) = data[n]
  BY EntryRead
<1> HIDE DEF sheet, ids
<1>4. read = [n \in 1 .. Len(data) |-> data[n]]
  BY <1>0, <1>2, <1>3
<1>5. read = data
  BY <1>0, <1>4
<1> HIDE DEF read
<1> QED BY <1>1, <1>5, SortedStays DEF sheet

(***************************************************************************)
(* Tables that stay neat.                                                  *)
(***************************************************************************)
\* Setting a season to a list without repetitions.
LEMMA WithSingle ==
  ASSUME NEW f \in SeasonMaps, Single(f), NEW key \in 0 .. Absolute,
         NEW value \in Seq(Urls), IsInjective(value)
  PROVE  Single(With(f, key, value))
<1> DEFINE g == With(f, key, value)
<1>1. /\ DOMAIN g = DOMAIN f \cup {key} /\ g[key] = value
      /\ \A s \in DOMAIN f \ {key} : g[s] = f[s]
  BY WithIs
<1> HIDE DEF g
<1>2. ASSUME NEW s \in DOMAIN g PROVE IsInjective(g[s])
  <2>1. CASE s = key
    BY <1>1, <2>1
  <2>2. CASE s # key
    BY <1>1, <2>2 DEF Single
  <2> QED BY <2>1, <2>2
<1> QED BY <1>2 DEF Single, g

\* Removing a season.
LEMMA WithoutSingle ==
  ASSUME NEW f, Single(f), NEW key
  PROVE  Single(Without(f, key))
BY DEF Single, Without

\* No season at all.
LEMMA NoneSingle == Single(<<>>)
BY NoSeasonsIs DEF Single

\* The lists of an entry of the table.
LEMMA SingleAt ==
  ASSUME NEW data, Unrepeated(data), NEW i \in DOMAIN data
  PROVE  Single(data[i].seasons)
BY DEF Unrepeated, Range

\* An entry in the place of another.
LEMMA PutUnrepeated ==
  ASSUME NEW data, Unrepeated(data), NEW i, NEW e, Single(e.seasons)
  PROVE  Unrepeated([data EXCEPT ![i] = e])
<1> DEFINE new == [data EXCEPT ![i] = e]
<1>1. DOMAIN new = DOMAIN data /\ \A j \in DOMAIN data : new[j] = IF j = i THEN e ELSE data[j]
  OBVIOUS
<1> HIDE DEF new
<1>2. ASSUME NEW j \in DOMAIN new PROVE Single(new[j].seasons)
  <2>1. CASE j = i
    BY <1>1, <2>1
  <2>2. CASE j # i
    <3>1. new[j] = data[j] /\ j \in DOMAIN data
      BY <1>1, <2>2
    <3>2. Single(data[j].seasons)
      BY <3>1, SingleAt
    <3> QED BY <3>1, <3>2
  <2> QED BY <2>1, <2>2
<1> QED BY <1>2 DEF Unrepeated, Range, new

\* One entry more.
LEMMA MoreUnrepeated ==
  ASSUME NEW data \in Tables, Unrepeated(data), NEW e \in Entries, Single(e.seasons)
  PROVE  Unrepeated(Append(data, e))
<1> DEFINE new == Append(data, e)
<1>1. /\ DOMAIN new = 1 .. (Len(data) + 1) /\ new[Len(data) + 1] = e
      /\ \A i \in 1 .. Len(data) : new[i] = data[i]
      /\ DOMAIN data = 1 .. Len(data) /\ Len(data) \in Nat
  BY DEF Tables
<1> HIDE DEF new
<1>2. ASSUME NEW j \in DOMAIN new PROVE Single(new[j].seasons)
  <2>1. CASE j = Len(data) + 1
    BY <1>1, <2>1
  <2>2. CASE j # Len(data) + 1
    <3>1. new[j] = data[j] /\ j \in DOMAIN data
      BY <1>1, <2>2
    <3>2. Single(data[j].seasons)
      BY <3>1, SingleAt
    <3> QED BY <3>1, <3>2
  <2> QED BY <2>1, <2>2
<1> QED BY <1>2 DEF Unrepeated, Range, new

\* Other seasons of an entry.
LEMMA SetSeasonsNeat ==
  ASSUME NEW data \in Tables, Neat(data), NEW i \in DOMAIN data,
         NEW seasons \in SeasonMaps, Single(seasons)
  PROVE  Neat(SetSeasons(data, i, seasons))
<1> DEFINE e == [data[i] EXCEPT !.seasons = seasons]
           new == SetSeasons(data, i, seasons)
<1>1. e.title = data[i].title /\ e.seasons = seasons
  BY EntryAt, NewSeasons
<1>2. new = [data EXCEPT ![i] = e]
  BY DEF SetSeasons
<1> HIDE DEF e, new
<1>3. Unrepeated(new)
  BY <1>1, <1>2, PutUnrepeated DEF Neat
<1>4. DOMAIN new = DOMAIN data /\ \A j \in DOMAIN data : new[j].title = data[j].title
  <2>1. DOMAIN new = DOMAIN data /\ \A j \in DOMAIN data : new[j] = IF j = i THEN e ELSE data[j]
    BY <1>2
  <2> QED BY <1>1, <2>1
<1>5. Sorted(new)
  BY <1>4 DEF Neat, Sorted
<1> QED BY <1>3, <1>5 DEF Neat, new

\* Sorting a table without repetitions makes it neat.
LEMMA SortingNeat ==
  ASSUME NEW data \in Tables, Unrepeated(data)
  PROVE  Neat(SortedByTitle(data))
BY SortingSorts DEF Neat

\* The methods of Table.py keep a neat table neat: a serie more,
LEMMA AppendSerieNeat ==
  ASSUME NEW data \in Tables, Neat(data), NEW title \in Titles, NEW absolute \in BOOLEAN
  PROVE  Neat(AppendSerie(data, title, absolute))
<1>1. CASE Has(data, title)
  BY <1>1 DEF AppendSerie
<1>2. CASE ~Has(data, title)
  <2> DEFINE e == Entry(title, absolute, <<>>)
             longer == Append(data, e)
  <2>1. e \in Entries /\ e.seasons = <<>>
    BY NoSeasonsIs, EntryIs
  <2>2. AppendSerie(data, title, absolute) = SortedByTitle(longer)
    BY <1>2 DEF AppendSerie
  <2> HIDE DEF e
  <2>3. Unrepeated(longer) /\ longer \in Tables
    BY <2>1, NoneSingle, MoreUnrepeated, AppendedEntry DEF Neat
  <2> HIDE DEF longer
  <2> QED BY <2>2, <2>3, SortingNeat
<1> QED BY <1>1, <1>2

\* a season more,
LEMMA AppendSeasonNeat ==
  ASSUME NEW data \in Tables, Neat(data), NEW title \in Titles, NEW season \in 0 .. Absolute
  PROVE  Neat(AppendSeason(data, title, season))
<1> DEFINE known == AppendSerie(data, title, FALSE)
           i == At(known, title)
           old == known[i].seasons
           new == With(old, season, <<>>)
<1>1. known \in Tables /\ Has(known, title) /\ Neat(known)
  BY AppendSerieIs, AppendSerieNeat DEF Extends
<1>2. \/ AppendSeason(data, title, season) = known
      \/ AppendSeason(data, title, season) = SetSeasons(known, i, new)
  BY DEF AppendSeason
<1> HIDE DEF known
<1>3. i \in DOMAIN known
  BY <1>1, AtIs
<1> HIDE DEF i
<1>4. old \in SeasonMaps /\ Single(old)
  BY <1>1, <1>3, EntryAt, SingleAt DEF Neat
<1> HIDE DEF old
<1>5. new \in SeasonMaps /\ Single(new)
  <2>1. <<>> \in Seq(Urls)
    OBVIOUS
  <2> QED BY <1>4, <2>1, ShortOnce, WithIs, WithSingle
<1> HIDE DEF new
<1> QED BY <1>1, <1>2, <1>3, <1>5, SetSeasonsNeat

\* a URL more,
LEMMA AppendUrlNeat ==
  ASSUME NEW data \in Tables, Neat(data), NEW title \in Titles, NEW season \in 0 .. Absolute,
         NEW url \in Urls
  PROVE  Neat(AppendUrls(data, title, season, <<url>>))
<1> DEFINE urls == <<url>>
           known == IF HasSeason(data, title, season) THEN data
                    ELSE AppendSeason(data, title, season)
           i == At(known, title)
           old == known[i].seasons[season]
           places == {n \in DOMAIN urls : ~Contains(old, urls[n])}
           fresh == Chosen(urls, places)
           new == With(known[i].seasons, season, old \o fresh)
<1>0. urls \in Seq(Urls) /\ DOMAIN urls = {1}
  OBVIOUS
<1>1. known \in Tables /\ Neat(known)
  BY AppendSeasonIs, AppendSeasonNeat DEF Extends
<1>2. AppendUrls(data, title, season, urls) =
        IF ~HasSeason(known, title, season) THEN known ELSE SetSeasons(known, i, new)
  BY DEF AppendUrls
<1> HIDE DEF known
<1>3. CASE ~HasSeason(known, title, season)
  BY <1>1, <1>2, <1>3
<1>4. CASE HasSeason(known, title, season)
  <2>1. i \in DOMAIN known /\ season \in DOMAIN known[i].seasons
    BY <1>1, <1>4, AtIs DEF HasSeason
  <2> HIDE DEF i
  <2>2. /\ known[i].seasons \in SeasonMaps /\ Single(known[i].seasons) /\ old \in Seq(Urls)
        /\ IsInjective(old)
    BY <1>1, <2>1, EntryAt, UrlsAt, SingleAt DEF Neat, Single
  <2> HIDE DEF old, urls
  <2>3. places \in SUBSET (DOMAIN urls) /\ \A n, m \in places : urls[n] = urls[m] => n = m
    BY <1>0
  <2>4. ASSUME NEW n \in places PROVE urls[n] \notin Range(old)
    BY <2>2 DEF Contains, Range
  <2> HIDE DEF places
  <2>5. /\ fresh \in Seq(Urls) /\ Range(fresh) = {urls[n] : n \in places} /\ IsInjective(fresh)
    BY <1>0, <2>3, ChosenIs, ChosenOnce
  <2> HIDE DEF fresh
  <2>6. Range(old) \cap Range(fresh) = {}
    BY <2>4, <2>5
  <2>7. old \o fresh \in Seq(Urls) /\ IsInjective(old \o fresh)
    BY <2>2, <2>5, <2>6, LengthenedOnce, Lengthened
  <2>8. season \in 0 .. Absolute
    OBVIOUS
  <2>9. new \in SeasonMaps /\ Single(new)
    BY <2>2, <2>7, <2>8, WithIs, WithSingle
  <2> HIDE DEF new
  <2> QED BY <1>1, <1>2, <1>4, <2>1, <2>9, SetSeasonsNeat DEF urls
<1> QED BY <1>3, <1>4

\* a serie less,
LEMMA RemoveSerieNeat ==
  ASSUME NEW data \in Tables, Neat(data), NEW title
  PROVE  Neat(RemoveSerie(data, title))
<1>1. CASE ~Has(data, title)
  BY <1>1 DEF RemoveSerie
<1>2. CASE Has(data, title)
  <2> DEFINE i == At(data, title)
             left == RemoveAt(data, i)
             place(n) == IF n < i THEN n ELSE n + 1
  <2>0. Len(data) \in Nat /\ DOMAIN data = 1 .. Len(data) /\ data \in Seq(Entries)
    BY DEF Tables
  <2>1. i \in 1 .. Len(data)
    BY <1>2, <2>0, AtIs
  <2>2. left = RemoveSerie(data, title)
    BY <1>2 DEF RemoveSerie
  <2> HIDE DEF i
  <2>3. /\ DOMAIN left = 1 .. (Len(data) - 1)
        /\ \A n \in 1 .. (Len(data) - 1) : left[n] = IF n < i THEN data[n] ELSE data[n + 1]
    BY <2>0, <2>1, RemovedAt
  <2> HIDE DEF left
  <2>4. ASSUME NEW n \in DOMAIN left
        PROVE  place(n) \in DOMAIN data /\ left[n] = data[place(n)] /\ n \in Nat
    BY <2>0, <2>1, <2>3
  <2>5. ASSUME NEW n \in DOMAIN left, NEW m \in DOMAIN left, n < m
        PROVE  left[n].title <= left[m].title
    <3>1. place(n) < place(m)
      BY <2>1, <2>4, <2>5
    <3> HIDE DEF place
    <3> QED BY <2>4, <3>1 DEF Neat, Sorted
  <2>6. ASSUME NEW n \in DOMAIN left PROVE Single(left[n].seasons)
    <3> HIDE DEF place
    <3>1. Single(data[place(n)].seasons)
      BY <2>4, SingleAt DEF Neat
    <3> QED BY <2>4, <3>1
  <2> QED BY <2>2, <2>5, <2>6 DEF Neat, Sorted, Unrepeated, Range
<1> QED BY <1>1, <1>2

\* a season or a URL less,
LEMMA RemovalsNeat ==
  ASSUME NEW data \in Tables, Neat(data), NEW title, NEW season, NEW url
  PROVE  /\ Neat(RemoveSeason(data, title, season))
         /\ Neat(RemoveUrl(data, title, season, url))
<1> DEFINE i == At(data, title)
<1>1. HasSeason(data, title, season) =>
        /\ i \in DOMAIN data /\ data[i].seasons \in SeasonMaps /\ Single(data[i].seasons)
        /\ data[i].seasons[season] \in Seq(Urls) /\ season \in 0 .. Absolute
        /\ IsInjective(data[i].seasons[season])
  BY AtIs, EntryAt, UrlsAt, SingleAt DEF HasSeason, Neat, Single
<1>2. Neat(RemoveSeason(data, title, season))
  <2>1. CASE HasSeason(data, title, season)
    <3>1. Without(data[i].seasons, season) \in SeasonMaps /\ Single(Without(data[i].seasons, season))
      BY <1>1, <2>1, WithoutIs, WithoutSingle
    <3> QED BY <1>1, <2>1, <3>1, SetSeasonsNeat DEF RemoveSeason
  <2> QED BY <2>1 DEF RemoveSeason
<1>3. Neat(RemoveUrl(data, title, season, url))
  <2> DEFINE urls == data[i].seasons[season]
             left == RemoveAt(urls, PlaceOf(urls, url))
  <2>1. CASE HasSeason(data, title, season) /\ Contains(urls, url)
    <3>1. left \in Seq(Urls) /\ IsInjective(left)
      BY <1>1, <2>1, PlaceOfIs, RemoveAtIs, RemovedOnce
    <3>2. With(data[i].seasons, season, left) \in SeasonMaps /\ Single(With(data[i].seasons, season, left))
      BY <1>1, <2>1, <3>1, WithIs, WithSingle
    <3> QED BY <1>1, <2>1, <3>2, SetSeasonsNeat DEF RemoveUrl
  <2>2. CASE ~(HasSeason(data, title, season) /\ Contains(urls, url))
    BY <2>2 DEF RemoveUrl
  <2> QED BY <2>1, <2>2
<1> QED BY <1>2, <1>3

\* another title or another season,
LEMMA RenamingsNeat ==
  ASSUME NEW data \in Tables, Neat(data), NEW title, NEW season,
         NEW newTitle \in Titles, NEW newSeason \in 0 .. Absolute
  PROVE  /\ Neat(RenameSerie(data, title, newTitle))
         /\ Neat(RenameSeason(data, title, season, newSeason))
<1> DEFINE i == At(data, title)
<1>1. Neat(RenameSerie(data, title, newTitle))
  <2>1. CASE Has(data, newTitle) \/ ~Has(data, title)
    BY <2>1 DEF RenameSerie
  <2>2. CASE ~(Has(data, newTitle) \/ ~Has(data, title))
    <3> DEFINE e == [data[i] EXCEPT !.title = newTitle]
               renamed == [data EXCEPT ![i].title = newTitle]
    <3>1. i \in DOMAIN data /\ data[i] \in Entries
      BY <2>2, AtIs, EntryAt
    <3>2. e \in Entries /\ e.seasons = data[i].seasons
      BY <3>1, NewTitle
    <3>3. renamed = [data EXCEPT ![i] = e]
      OBVIOUS
    <3>4. RenameSerie(data, title, newTitle) = SortedByTitle(renamed)
      BY <2>2 DEF RenameSerie
    <3>5. Single(data[i].seasons)
      BY <3>1, SingleAt DEF Neat
    <3> HIDE DEF e, renamed, i
    <3>6. renamed \in Tables
      BY <3>1, <3>2, <3>3 DEF Tables
    <3>7. Unrepeated(renamed)
      BY <3>2, <3>3, <3>5, PutUnrepeated DEF Neat
    <3> QED BY <3>4, <3>6, <3>7, SortingNeat
  <2> QED BY <2>1, <2>2
<1>2. HasSeason(data, title, season) =>
        /\ i \in DOMAIN data /\ data[i].seasons \in SeasonMaps /\ Single(data[i].seasons)
        /\ data[i].seasons[season] \in Seq(Urls) /\ season \in 0 .. Absolute
        /\ IsInjective(data[i].seasons[season])
  BY AtIs, EntryAt, UrlsAt, SingleAt DEF HasSeason, Neat, Single
<1>3. Neat(RenameSeason(data, title, season, newSeason))
  <2>1. CASE HasSeason(data, title, newSeason) \/ ~HasSeason(data, title, season)
    BY <2>1 DEF RenameSeason
  <2>2. CASE ~(HasSeason(data, title, newSeason) \/ ~HasSeason(data, title, season))
    <3> DEFINE f == Without(data[i].seasons, season)
               g == With(f, newSeason, data[i].seasons[season])
    <3>1. f \in SeasonMaps /\ Single(f)
      BY <1>2, <2>2, WithoutIs, WithoutSingle
    <3>2. RenameSeason(data, title, season, newSeason) = SetSeasons(data, i, g)
      BY <2>2 DEF RenameSeason
    <3> HIDE DEF f, i
    <3>3. g \in SeasonMaps /\ Single(g)
      BY <1>2, <2>2, <3>1, WithIs, WithSingle
    <3> HIDE DEF g
    <3> QED BY <1>2, <2>2, <3>2, <3>3, SetSeasonsNeat
  <2> QED BY <2>1, <2>2
<1> QED BY <1>1, <1>3

\* and another URL.
LEMMA RenamedUrlNeat ==
  ASSUME NEW data \in Tables, Neat(data), NEW title, NEW season, NEW url, NEW newUrl \in Urls
  PROVE  Neat(RenameUrl(data, title, season, url, newUrl))
<1> DEFINE i == At(data, title)
           urls == data[i].seasons[season]
           after == [urls EXCEPT ![PlaceOf(urls, url)] = newUrl]
<1>1. HasSeason(data, title, season) =>
        /\ i \in DOMAIN data /\ data[i].seasons \in SeasonMaps /\ Single(data[i].seasons)
        /\ urls \in Seq(Urls) /\ season \in 0 .. Absolute
        /\ IsInjective(urls)
  BY AtIs, EntryAt, UrlsAt, SingleAt DEF HasSeason, Neat, Single
<1>2. CASE HasSeason(data, title, season) /\ ~Contains(urls, newUrl) /\ Contains(urls, url)
  <2>1. after \in Seq(Urls) /\ IsInjective(after)
    <3>1. urls \in Seq(Urls) /\ IsInjective(urls)
      BY <1>1, <1>2
    <3> HIDE DEF urls
    <3>2. PlaceOf(urls, url) \in 1 .. Len(urls)
      BY <1>2, <3>1, PlaceOfIs
    <3>3. newUrl \notin Range(urls)
      BY <1>2, <3>1 DEF Contains, Range
    <3> QED BY <3>1, <3>2, <3>3, ExceptSeq, PutOnce
  <2>2. With(data[i].seasons, season, after) \in SeasonMaps /\ Single(With(data[i].seasons, season, after))
    BY <1>1, <1>2, <2>1, WithIs, WithSingle
  <2> QED BY <1>1, <1>2, <2>2, SetSeasonsNeat DEF RenameUrl
<1>3. CASE ~(HasSeason(data, title, season) /\ ~Contains(urls, newUrl) /\ Contains(urls, url))
  BY <1>3 DEF RenameUrl
<1> QED BY <1>2, <1>3

\* The rows of an entry are read without repetitions.
LEMMA EntryOnce ==
  ASSUME NEW sheet \in Sheets, NEW id \in Ids(sheet)
  PROVE  Single(EntryFromRows(sheet, id).seasons)
<1> DEFINE rows == OfEntry(sheet, id)
           last == CHOOSE i \in rows : \A j \in rows :
                     \/ sheet[j].season < sheet[i].season
                     \/ sheet[j].season = sheet[i].season /\ j <= i
           lists(s) == [i \in DOMAIN sheet |->
                          IF i \in rows /\ sheet[i].season = s THEN sheet[i].urls ELSE <<>>]
           UrlsIn(s) == FlattenSeq(lists(s))
           S == {sheet[i].season : i \in rows} \ {NoSeason}
           seasons == [s \in S |-> Distinct(UrlsIn(s))]
<1>1. EntryFromRows(sheet, id).seasons = seasons
  BY DEF EntryFromRows, Entry
<1> HIDE DEF rows, last, S
<1>2. ASSUME NEW s PROVE UrlsIn(s) \in Seq(Urls)
  <2>1. lists(s) \in Seq(Seq(Urls))
    <3>1. DOMAIN sheet = 1 .. Len(sheet) /\ Len(sheet) \in Nat
      BY DEF Sheets
    <3>2. \A i \in 1 .. Len(sheet) :
            (IF i \in rows /\ sheet[i].season = s THEN sheet[i].urls ELSE <<>>) \in Seq(Urls)
      <4>1. <<>> \in Seq(Urls)
        OBVIOUS
      <4> QED BY <3>1, <4>1, RowAt
    <3> QED BY <3>1, <3>2, IsASeq
  <2> QED BY <2>1, FlattenIs
<1> HIDE DEF UrlsIn
<1>3. \A s \in DOMAIN seasons : IsInjective(seasons[s])
  BY <1>2, DistinctOf
<1> HIDE DEF seasons
<1> QED BY <1>1, <1>3 DEF Single

\* A table read from rows is neat.
LEMMA ReadNeat ==
  ASSUME NEW sheet \in Sheets
  PROVE  Neat(TableFromRows(sheet))
<1> DEFINE ids == ById(sheet)
           data == [n \in DOMAIN ids |-> EntryFromRows(sheet, ids[n])]
<1>1. ids \in Seq(Ids(sheet))
  BY ByIdIs
<1>2. TableFromRows(sheet) = SortedByTitle(data)
  BY DEF TableFromRows
<1> HIDE DEF ids
<1>3. /\ DOMAIN ids = 1 .. Len(ids) /\ Len(ids) \in Nat
      /\ \A n \in DOMAIN ids : ids[n] \in Ids(sheet)
  BY <1>1
<1>4. \A n \in DOMAIN ids : /\ EntryFromRows(sheet, ids[n]) \in Entries
                            /\ Single(EntryFromRows(sheet, ids[n]).seasons)
  BY <1>3, EntryFromRowsIs, EntryOnce
<1>5. data \in Tables
  BY <1>3, <1>4, IsASeq DEF Tables
<1>6. Unrepeated(data)
  BY <1>4 DEF Unrepeated, Range
<1> HIDE DEF data
<1> QED BY <1>2, <1>5, <1>6, SortingNeat

\* A season of an entry, there or not, has no URL twice.
LEMMA SeasonOnce ==
  ASSUME NEW e, Single(e.seasons), NEW season
  PROVE  IsInjective(SeasonOf(e, season))
<1>1. CASE season \in DOMAIN e.seasons
  BY <1>1 DEF Single, SeasonOf
<1>2. CASE season \notin DOMAIN e.seasons
  BY <1>2, ShortOnce DEF SeasonOf
<1> QED BY <1>1, <1>2

\* An entry with another list for one of its seasons.
LEMMA AmendedEntry ==
  ASSUME NEW e \in Entries, Single(e.seasons), NEW season \in 0 .. Absolute,
         NEW after \in Seq(Urls), IsInjective(after)
  PROVE  /\ [e EXCEPT !.seasons = With(e.seasons, season, after)] \in Entries
         /\ Single([e EXCEPT !.seasons = With(e.seasons, season, after)].seasons)
<1> DEFINE g == With(e.seasons, season, after)
<1>1. e.seasons \in SeasonMaps
  BY EntryIs
<1>2. g \in SeasonMaps /\ Single(g)
  BY <1>1, WithIs, WithSingle
<1> HIDE DEF g
<1>3. [e EXCEPT !.seasons = g] \in Entries /\ [e EXCEPT !.seasons = g].seasons = g
  BY <1>2, NewSeasons
<1> QED BY <1>2, <1>3 DEF g

\* The automation amends a table when the season does not have the URL.
LEMMA AmendedUnrepeated ==
  ASSUME NEW data \in Tables, Unrepeated(data), NEW title \in Titles,
         NEW season \in 0 .. Absolute, NEW url \in Urls, ~Refused(data, title, season, url)
  PROVE  Unrepeated(Amended(data, title, season, url))
<1> DEFINE i == FindEntry(data, title)
           entry == IF i = 0 THEN Entry(title, FALSE, <<>>) ELSE [data[i] EXCEPT !.title = title]
           urls == SeasonOf(entry, season)
           after == Append(urls, url)
           amended == [entry EXCEPT !.seasons = With(entry.seasons, season, after)]
<1>1. /\ entry \in Entries /\ Single(entry.seasons) /\ url \notin Range(urls)
      /\ i # 0 => i \in DOMAIN data
  <2>1. CASE i = 0
    <3>0. Entry(title, FALSE, <<>>) \in Entries
      BY NoSeasonsIs, EntryIs
    <3>1. Entry(title, FALSE, <<>>) \in Entries /\ Entry(title, FALSE, <<>>).seasons = <<>>
      BY <3>0 DEF Entry
    <3>2. entry = Entry(title, FALSE, <<>>)
      BY <2>1
    <3> HIDE DEF entry, i
    <3>3. urls = <<>>
      BY <3>1, <3>2, NoSeasonsIs DEF SeasonOf
    <3>4. Range(urls) = {}
      BY <3>3, NoSeasonsIs DEF Range
    <3> QED BY <2>1, <3>1, <3>2, <3>4, NoneSingle
  <2>2. CASE i # 0
    <3>1. i \in DOMAIN data /\ data[i] \in Entries /\ Single(data[i].seasons)
      BY <2>2, FindEntryIs, EntryAt, SingleAt
    <3>2. entry = [data[i] EXCEPT !.title = title]
      BY <2>2
    <3>3. ~(season \in DOMAIN data[i].seasons /\ url \in Range(data[i].seasons[season]))
      BY <2>2 DEF Refused
    <3> HIDE DEF i, entry
    <3>4. entry \in Entries /\ entry.seasons = data[i].seasons
      BY <3>1, <3>2, NewTitle
    <3>5. url \notin Range(urls)
      <4>1. CASE season \in DOMAIN entry.seasons
        BY <3>3, <3>4, <4>1 DEF SeasonOf
      <4>2. CASE season \notin DOMAIN entry.seasons
        <5>1. urls = <<>>
          BY <4>2 DEF SeasonOf
        <5> QED BY <5>1, NoSeasonsIs DEF Range
      <4> QED BY <4>1, <4>2
    <3> QED BY <3>1, <3>4, <3>5
  <2> QED BY <2>1, <2>2
<1>2. Amended(data, title, season, url) =
        IF i = 0 THEN Append(data, amended) ELSE [data EXCEPT ![i] = amended]
  BY DEF Amended, SeasonOf
<1> HIDE DEF i, entry
<1>3. urls \in Seq(Urls) /\ IsInjective(urls)
  BY <1>1, SeasonOfIs, SeasonOnce
<1> HIDE DEF urls
<1>4. after \in Seq(Urls) /\ IsInjective(after)
  BY <1>1, <1>3, AppendedOnce
<1> HIDE DEF after
<1>5. amended \in Entries /\ Single(amended.seasons)
  BY <1>1, <1>4, AmendedEntry
<1> HIDE DEF amended
<1> QED BY <1>2, <1>5, MoreUnrepeated, PutUnrepeated

============================================================================
