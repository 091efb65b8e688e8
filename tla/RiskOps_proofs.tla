---------------------------- MODULE RiskOps_proofs ----------------------------
(***************************************************************************)
(* What the proofs need to know of lists of positions and of sums: the     *)
(* heat of open positions, the results of booked rows.                     *)
(*                                                                         *)
(* The folds of the community modules take what they add as operators,     *)
(* which a lemma cannot stand for; so the lemmas are about the function    *)
(* from sets to sums that a fold defines.  Induction is by a smallest      *)
(* counterexample.                                                         *)
(***************************************************************************)
EXTENDS RiskOps, FiniteSetTheorems, SequenceTheorems, WellFoundedInduction, TLAPS

\* ---- Induction ------------------------------------------------------------

\* A set of naturals has a least member.
LEMMA LeastMember ==
    ASSUME NEW T \in SUBSET Nat, T # {}
    PROVE  \E n \in T : \A m \in T : n <= m
<1>1. PICK n \in T : \A m \in T : <<m, n>> \notin OpToRel(<, Nat)
  BY NatLessThanWellFounded, WFMin
<1>2. \A m \in T : ~(m < n)
  BY <1>1 DEF OpToRel
<1> QED
  BY <1>2

\* And a greatest one, when they are bounded.
LEMMA GreatestMember ==
    ASSUME NEW N \in Nat, NEW T \in SUBSET (0..N), T # {}
    PROVE  \E n \in T : \A m \in T : n >= m
<1> DEFINE Away == {N - n : n \in T}
<1>1. ASSUME NEW n \in T PROVE n \in Int /\ N - n \in Nat
  <2>1. n \in 0..N
    OBVIOUS
  <2> QED
    BY <2>1
<1>2. Away \in SUBSET Nat /\ Away # {}
  BY <1>1
<1> HIDE DEF Away
<1>3. PICK a \in Away : \A b \in Away : a <= b
  BY <1>2, LeastMember
<1>4. PICK n \in T : a = N - n
  BY <1>3 DEF Away
<1>5. ASSUME NEW m \in T PROVE n >= m
  <2>1. N - n <= N - m
    BY <1>3, <1>4 DEF Away
  <2> QED
    BY <1>1, <2>1
<1> QED
  BY <1>5

\* A family of subsets of a finite set has a smallest member.
LEMMA SmallestSet ==
    ASSUME NEW D, IsFiniteSet(D), NEW F \in SUBSET SUBSET D, F # {}
    PROVE  \E S \in F : \A x \in S : S \ {x} \notin F
<1> DEFINE Sizes == {Cardinality(S) : S \in F}
<1>1. \A S \in SUBSET D : IsFiniteSet(S) /\ Cardinality(S) \in Nat
  BY FS_Subset, FS_CardinalityType
<1>2. Sizes \in SUBSET Nat /\ Sizes # {}
  BY <1>1
<1> HIDE DEF Sizes
<1>3. PICK n \in Sizes : \A m \in Sizes : n <= m
  BY <1>2, LeastMember
<1>4. PICK S \in F : Cardinality(S) = n
  BY <1>3 DEF Sizes
<1>5. ASSUME NEW x \in S, S \ {x} \in F PROVE FALSE
  <2>1. Cardinality(S \ {x}) = Cardinality(S) - 1
    BY <1>1, FS_RemoveElement
  <2>2. n <= Cardinality(S \ {x})
    BY <1>3, <1>5 DEF Sizes
  <2> QED
    BY <1>1, <1>4, <2>1, <2>2
<1> QED
  BY <1>5

\* ---- the recursion of a fold ---------------------------------------------

\* The set S loses the element the fold takes first, whose step comes last.
Folded(g, base, step, first, family) ==
    \A S \in family :
        g[S] = IF S = {} THEN base ELSE step[first[S]][g[S \ {first[S]}]]

Takes(first, D) == \A S \in SUBSET D : S # {} => first[S] \in S

\* A fold over a finite set is well defined, whatever it makes of its elements.
LEMMA FoldHasSolution ==
    ASSUME NEW D, IsFiniteSet(D), NEW X, NEW base \in X, NEW step,
           \A n \in D : \A x \in X : step[n][x] \in X,
           NEW first, Takes(first, D)
    PROVE  \E g \in [SUBSET D -> X] : Folded(g, base, step, first, SUBSET D)
<1> DEFINE Upto(n) == {S \in SUBSET D : Cardinality(S) <= n}
           Solved(n) == \E g \in [Upto(n) -> X] : Folded(g, base, step, first, Upto(n))
           Open == {n \in Nat : ~Solved(n)}
<1>1. \A S \in SUBSET D : IsFiniteSet(S) /\ Cardinality(S) \in Nat
  BY FS_Subset, FS_CardinalityType
<1>2. Open = {}
  <2> SUFFICES ASSUME Open # {} PROVE FALSE
    OBVIOUS
  <2>1. PICK n \in Open : \A m \in Open : n <= m
    <3>1. Open \in SUBSET Nat
      OBVIOUS
    <3> HIDE DEF Open
    <3> QED
      BY <3>1, LeastMember
  <2>2. CASE n = 0
    <3> DEFINE g == [S \in Upto(0) |-> base]
    <3>1. Upto(0) = {{}}
      <4>1. {} \in Upto(0)
        BY FS_EmptySet
      <4>2. ASSUME NEW S \in Upto(0) PROVE S = {}
        BY <1>1, FS_EmptySet
      <4> QED
        BY <4>1, <4>2
    <3>2. g \in [Upto(0) -> X] /\ Folded(g, base, step, first, Upto(0))
      BY <3>1 DEF Folded
    <3>3. Solved(0)
      BY <3>2
    <3> QED
      BY <2>2, <3>3
  <2>3. CASE n # 0
    <3>0. n \in Nat
      OBVIOUS
    <3>1. n - 1 \in Nat /\ n - 1 \notin Open
      <4>1. n - 1 \in Nat /\ ~(n <= n - 1)
        BY <2>3, <3>0
      <4> HIDE DEF Open
      <4> QED
        BY <2>1, <4>1
    <3>2. PICK h \in [Upto(n - 1) -> X] : Folded(h, base, step, first, Upto(n - 1))
      BY <3>1
    <3> DEFINE g == [S \in Upto(n) |->
                       IF S = {} THEN base ELSE step[first[S]][h[S \ {first[S]}]]]
    <3>3. ASSUME NEW S \in Upto(n), S # {}
          PROVE  /\ first[S] \in D /\ first[S] \in S
                 /\ S \ {first[S]} \in Upto(n - 1) /\ S \ {first[S]} \in Upto(n)
      <4>1. first[S] \in S
        BY <3>3 DEF Takes
      <4>2. Cardinality(S \ {first[S]}) = Cardinality(S) - 1
        BY <1>1, <4>1, FS_RemoveElement
      <4> QED
        BY <1>1, <4>1, <4>2
    <3>4. ASSUME NEW S \in Upto(n - 1) PROVE g[S] = h[S]
      <4>1. S \in Upto(n)
        BY <1>1
      <4>2. h[S] = IF S = {} THEN base ELSE step[first[S]][h[S \ {first[S]}]]
        BY <3>2 DEF Folded
      <4> QED
        BY <4>1, <4>2
    <3>5. g \in [Upto(n) -> X]
      BY <3>3
    <3>6. Folded(g, base, step, first, Upto(n))
      <4> SUFFICES ASSUME NEW S \in Upto(n)
                   PROVE  g[S] = IF S = {} THEN base
                                 ELSE step[first[S]][g[S \ {first[S]}]]
        BY DEF Folded
      <4> QED
        BY <3>3, <3>4
    <3> HIDE DEF g
    <3>7. Solved(n)
      BY <3>5, <3>6
    <3> QED
      BY <3>7
  <2> QED
    BY <2>2, <2>3
<1>3. Cardinality(D) \in Nat /\ Upto(Cardinality(D)) = SUBSET D
  BY <1>1, FS_Subset
<1>4. Solved(Cardinality(D))
  BY <1>2, <1>3
<1> HIDE DEF Upto
<1> QED
  BY <1>3, <1>4

\* The same where the step adds a value.
Recursion(g, values, first, family) ==
    \A S \in family :
        g[S] = IF S = {} THEN 0 ELSE values[first[S]] + g[S \ {first[S]}]

\* A sum is a fold, so it is well defined too.
LEMMA RecursionHasSolution ==
    ASSUME NEW D, IsFiniteSet(D), NEW values \in [D -> Int],
           NEW first, Takes(first, D)
    PROVE  \E g \in [SUBSET D -> Int] : Recursion(g, values, first, SUBSET D)
<1> DEFINE step == [n \in D |-> [x \in Int |-> values[n] + x]]
<1>1. \A n \in D : \A x \in Int : step[n][x] = values[n] + x /\ step[n][x] \in Int
  OBVIOUS
<1> HIDE DEF step
<1>2. PICK g \in [SUBSET D -> Int] : Folded(g, 0, step, first, SUBSET D)
  <2>1. 0 \in Int /\ \A n \in D : \A x \in Int : step[n][x] \in Int
    BY <1>1
  <2> QED
    BY <2>1, FoldHasSolution
<1>3. Recursion(g, values, first, SUBSET D)
  <2> SUFFICES ASSUME NEW S \in SUBSET D, S # {}
               PROVE  g[S] = values[first[S]] + g[S \ {first[S]}]
    BY <1>2 DEF Folded, Recursion
  <2>1. first[S] \in D /\ S \ {first[S]} \in SUBSET D
    BY DEF Takes
  <2>2. g[S] = step[first[S]][g[S \ {first[S]}]]
    BY <1>2 DEF Folded
  <2>3. g[S \ {first[S]}] \in Int
    BY <1>2, <2>1
  <2> QED
    BY <1>1, <2>1, <2>2, <2>3
<1> QED
  BY <1>3

\* ---- sums ----------------------------------------------------------------

\* g[S] is the sum of the values in S, for every S within D.
IsSum(g, values, D) ==
    /\ g \in [SUBSET D -> Int]
    /\ g[{}] = 0
    /\ \A S \in SUBSET D : \A x \in S : g[S] = values[x] + g[S \ {x}]

\* Every subset has a sum, and the order in which elements are taken is no matter.
LEMMA RecursionSums ==
    ASSUME NEW D, IsFiniteSet(D), NEW values \in [D -> Int],
           NEW first, Takes(first, D),
           NEW g \in [SUBSET D -> Int], Recursion(g, values, first, SUBSET D)
    PROVE  IsSum(g, values, D)
<1> DEFINE Sums(S) == \A x \in S : g[S] = values[x] + g[S \ {x}]
           Wrong == {S \in SUBSET D : ~Sums(S)}
<1>1. ASSUME NEW S \in Wrong, \A x \in S : S \ {x} \notin Wrong PROVE FALSE
  <2>1. PICK x \in S : g[S] # values[x] + g[S \ {x}]
    OBVIOUS
  <2> DEFINE y == first[S]
  <2>2. y \in S /\ S \in SUBSET D /\ S # {}
    BY <2>1 DEF Takes
  <2>3. g[S] = values[y] + g[S \ {y}]
    BY <2>2 DEF Recursion
  <2> HIDE DEF y
  <2>4. x # y
    BY <2>1, <2>3
  <2>5. Sums(S \ {x}) /\ Sums(S \ {y})
    BY <1>1, <2>2
  <2>6. /\ g[S \ {x}] = values[y] + g[(S \ {x}) \ {y}]
        /\ g[S \ {y}] = values[x] + g[(S \ {y}) \ {x}]
    BY <2>2, <2>4, <2>5
  <2>7. (S \ {x}) \ {y} = (S \ {y}) \ {x} /\ (S \ {x}) \ {y} \in SUBSET D
    BY <2>2
  <2> DEFINE rest == g[(S \ {x}) \ {y}]
  <2>8. values[x] \in Int /\ values[y] \in Int /\ rest \in Int
    BY <2>2, <2>7
  <2>9. g[S] = values[y] + (values[x] + rest) /\ g[S \ {x}] = values[y] + rest
    BY <2>3, <2>6, <2>7
  <2> HIDE DEF rest
  <2>10. g[S] = values[x] + g[S \ {x}]
    BY <2>8, <2>9
  <2> QED
    BY <2>1, <2>10
<1>2. Wrong = {}
  <2>1. Wrong \in SUBSET SUBSET D
    OBVIOUS
  <2> HIDE DEF Wrong
  <2> QED
    BY <1>1, <2>1, SmallestSet
<1>3. g[{}] = 0
  BY DEF Recursion
<1> QED
  BY <1>2, <1>3 DEF IsSum

\* The same where the sum before the step is known to be a number.
Equations(g, values, first, D) ==
    \A S \in SUBSET D : S # {} /\ g[S \ {first[S]}] \in Int
        => g[S] = values[first[S]] + g[S \ {first[S]}]

IsFunctionOn(g, S) == g = [x \in S |-> g[x]]

\* What satisfies the equations of a fold is a sum.
LEMMA FoldIsSum ==
    ASSUME NEW D, IsFiniteSet(D), NEW values \in [D -> Int],
           NEW first, Takes(first, D),
           NEW g, IsFunctionOn(g, SUBSET D), g[{}] = 0,
           Equations(g, values, first, D)
    PROVE  IsSum(g, values, D)
<1> DEFINE Wrong == {S \in SUBSET D : g[S] \notin Int}
<1>1. ASSUME NEW S \in Wrong, \A x \in S : S \ {x} \notin Wrong PROVE FALSE
  <2>6. S \in SUBSET D /\ g[S] \notin Int
    OBVIOUS
  <2>1. S # {} /\ S \in SUBSET D
    <3>1. 0 \in Int
      OBVIOUS
    <3> HIDE DEF Wrong
    <3> QED
      BY <2>6, <3>1, Zenon
  <2>2. first[S] \in S
    BY <2>1 DEF Takes
  <2> HIDE DEF Wrong
  <2>3. g[S \ {first[S]}] \in Int
    BY <1>1, <2>1, <2>2 DEF Wrong
  <2>4. values[first[S]] \in Int
    BY <2>1, <2>2
  <2>5. g[S] = values[first[S]] + g[S \ {first[S]}]
    BY <2>1, <2>3 DEF Equations
  <2> QED
    BY <2>3, <2>4, <2>5, <2>6
<1>2. Wrong = {}
  <2>1. Wrong \in SUBSET SUBSET D
    OBVIOUS
  <2> HIDE DEF Wrong
  <2> QED
    BY <1>1, <2>1, SmallestSet
<1>3. \A S \in SUBSET D : g[S] \in Int
  BY <1>2
<1>4. g \in [SUBSET D -> Int]
  BY <1>3 DEF IsFunctionOn
<1>5. Recursion(g, values, first, SUBSET D)
  <2> SUFFICES ASSUME NEW S \in SUBSET D
               PROVE  g[S] = IF S = {} THEN 0
                             ELSE values[first[S]] + g[S \ {first[S]}]
    BY DEF Recursion
  <2>1. S \ {first[S]} \in SUBSET D
    OBVIOUS
  <2> QED
    BY <1>3, <2>1 DEF Equations
<1> QED
  BY <1>4, <1>5, RecursionSums

\* Sums over two domains agree where one set of elements stands for the other
\* with the same values.
LEMMA SumOfImage ==
    ASSUME NEW D, NEW values, NEW g, IsSum(g, values, D), NEW S \in SUBSET D,
           IsFiniteSet(S),
           NEW E, NEW other, NEW h, IsSum(h, other, E),
           NEW to \in [S -> E],
           \A x, y \in S : to[x] = to[y] => x = y,
           \A x \in S : other[to[x]] = values[x]
    PROVE  g[S] = h[{to[x] : x \in S}]
<1> DEFINE Image(T) == {to[x] : x \in T}
           Wrong == {T \in SUBSET S : g[T] # h[Image(T)]}
<1>1. ASSUME NEW T \in Wrong, \A x \in T : T \ {x} \notin Wrong PROVE FALSE
  <2>1. CASE T = {}
    <3>1. Image(T) = {}
      BY <2>1
    <3> QED
      BY <1>1, <2>1, <3>1 DEF IsSum
  <2>2. CASE T # {}
    <3>1. PICK x \in T : TRUE
      BY <2>2
    <3>2. Image(T \ {x}) = Image(T) \ {to[x]} /\ to[x] \in Image(T)
      BY <3>1
    <3>3. T \in SUBSET D /\ g[T \ {x}] = h[Image(T \ {x})]
      BY <1>1, <3>1
    <3>4. Image(T) \in SUBSET E
      OBVIOUS
    <3> HIDE DEF Image
    <3>5. g[T] = values[x] + g[T \ {x}]
      BY <3>1, <3>3 DEF IsSum
    <3>6. h[Image(T)] = other[to[x]] + h[Image(T) \ {to[x]}]
      BY <3>2, <3>4 DEF IsSum
    <3>7. g[T] = h[Image(T)]
      BY <3>1, <3>2, <3>3, <3>5, <3>6
    <3> QED
      BY <3>7
  <2> QED
    BY <2>1, <2>2
<1>2. Wrong = {}
  <2>1. Wrong \in SUBSET SUBSET S
    OBVIOUS
  <2> HIDE DEF Wrong
  <2> QED
    BY <1>1, <2>1, SmallestSet
<1>3. g[S] = h[Image(S)]
  BY <1>2
<1> QED
  BY <1>3

\* The sum over part of what is summed is all that has to agree.
LEMMA SumOfPart ==
    ASSUME NEW D, NEW values, NEW g, IsSum(g, values, D), NEW S \in SUBSET D,
           IsFiniteSet(S),
           NEW E, NEW other, NEW h, IsSum(h, other, E), S \in SUBSET E,
           \A x \in S : other[x] = values[x]
    PROVE  g[S] = h[S]
<1> DEFINE to == [x \in S |-> x]
<1>1. to \in [S -> E] /\ (\A x \in S : to[x] = x)
  OBVIOUS
<1>2. {to[x] : x \in S} = S
  OBVIOUS
<1> HIDE DEF to
<1>3. g[S] = h[{to[x] : x \in S}]
  BY <1>1, SumOfImage
<1> QED
  BY <1>2, <1>3

\* A sum of what is not negative is not negative.
LEMMA SumNotNegative ==
    ASSUME NEW D, NEW values, NEW g, IsSum(g, values, D), NEW S \in SUBSET D,
           IsFiniteSet(S), \A x \in S : values[x] \in Nat
    PROVE  g[S] \in Nat
<1> DEFINE Wrong == {T \in SUBSET S : g[T] \notin Nat}
<1>1. ASSUME NEW T \in Wrong, \A x \in T : T \ {x} \notin Wrong PROVE FALSE
  <2>1. T # {}
    <3>1. g[{}] = 0
      BY DEF IsSum
    <3> QED
      BY <3>1
  <2>2. PICK x \in T : TRUE
    BY <2>1
  <2>3. g[T \ {x}] \in Nat /\ values[x] \in Nat
    BY <1>1, <2>2
  <2>4. g[T] = values[x] + g[T \ {x}]
    BY <2>2 DEF IsSum
  <2>5. g[T] \in Nat
    BY <2>3, <2>4
  <2> QED
    BY <2>5
<1>2. Wrong = {}
  <2>1. Wrong \in SUBSET SUBSET S
    OBVIOUS
  <2> HIDE DEF Wrong
  <2> QED
    BY <1>1, <2>1, SmallestSet
<1> QED
  BY <1>2

\* ---- Lists of positions ---------------------------------------------------

\* The list open without its position k.
LacksOnly(rest, open, k) ==
    /\ rest \in Seq(Position)
    /\ Len(rest) = Len(open) - 1
    /\ \A i \in 1..Len(rest) : rest[i] = open[IF i < k THEN i ELSE i + 1]

LEMMA RemoveAtLacks ==
    ASSUME NEW open \in Seq(Position), NEW k \in 1..Len(open)
    PROVE  LacksOnly(RemoveAt(open, k), open, k)
<1> DEFINE front == SubSeq(open, 1, k - 1)
           back == SubSeq(open, k + 1, Len(open))
<1>0. Len(open) \in Nat /\ k \in Nat
  BY LenProperties
<1>1. /\ front \in Seq(Position) /\ Len(front) = k - 1
      /\ \A i \in 1..(k - 1) : front[i] = open[i]
  <2>1. \A i \in 1..(k - 1) : open[i] \in Position
    BY <1>0, ElementOfSeq
  <2> QED
    BY <1>0, <2>1, SubSeqProperties
<1>2. /\ back \in Seq(Position) /\ Len(back) = Len(open) - k
      /\ \A i \in 1..(Len(open) - k) : back[i] = open[k + i]
  <2>1. \A i \in (k + 1)..Len(open) : open[i] \in Position
    BY <1>0, ElementOfSeq
  <2> QED
    BY <1>0, <2>1, SubSeqProperties
<1>3. RemoveAt(open, k) = front \o back
  BY DEF RemoveAt
<1> HIDE DEF front, back
<1>4. /\ front \o back \in Seq(Position)
      /\ Len(front \o back) = Len(front) + Len(back)
      /\ \A i \in 1..(Len(front) + Len(back)) :
            (front \o back)[i] = IF i <= Len(front) THEN front[i]
                                 ELSE back[i - Len(front)]
  BY <1>1, <1>2, ConcatProperties
<1>5. ASSUME NEW i \in 1..(Len(open) - 1)
      PROVE  (front \o back)[i] = open[IF i < k THEN i ELSE i + 1]
  <2>1. CASE i < k
    BY <1>0, <1>1, <1>2, <1>4, <2>1
  <2>2. CASE ~(i < k)
    <3>1. i - (k - 1) \in 1..(Len(open) - k) /\ k + (i - (k - 1)) = i + 1
      BY <1>0, <2>2
    <3> QED
      BY <1>0, <1>1, <1>2, <1>4, <2>2, <3>1
  <2> QED
    BY <2>1, <2>2
<1> QED
  BY <1>0, <1>1, <1>2, <1>3, <1>4, <1>5 DEF LacksOnly

\* close_position's search loop: the first position of the instrument goes, or
\* there is none and nothing goes.
LEMMA Removal ==
    ASSUME NEW open \in Seq(Position), NEW instrument
    PROVE  \/ /\ \A i \in 1..Len(open) : open[i].instrument # instrument
              /\ Without(open, instrument) = open
           \/ \E k \in 1..Len(open) :
                 /\ open[k].instrument = instrument
                 /\ LacksOnly(Without(open, instrument), open, k)
<1> DEFINE I == {i \in 1..Len(open) : open[i].instrument = instrument}
<1>1. CASE I = {}
  BY <1>1 DEF Without, RemoveFirstMatch
<1>2. CASE I # {}
  <2> DEFINE k == Min(I)
  <2>1. k \in I
    <3>1. I \in SUBSET Nat
      BY LenProperties
    <3>2. \E n \in I : \A m \in I : n <= m
      BY <1>2, <3>1, LeastMember
    <3> QED
      BY <3>2 DEF Min
  <2> HIDE DEF k
  <2>2. Without(open, instrument) = RemoveAt(open, k)
    BY <1>2 DEF Without, RemoveFirstMatch, SelectInSeq, k
  <2> QED
    BY <2>1, <2>2, RemoveAtLacks
<1> QED
  BY <1>1, <1>2

\* What is left is a list of positions again, and not a longer one.
LEMMA RemovalType ==
    ASSUME NEW open \in Seq(Position), NEW instrument
    PROVE  /\ Without(open, instrument) \in Seq(Position)
           /\ Len(Without(open, instrument)) <= Len(open)
<1>1. Len(open) \in Nat
  BY LenProperties
<1> QED
  BY <1>1, Removal DEF LacksOnly

\* ---- The risk record ------------------------------------------------------

\* A cent amount is an integer, whatever the mills were.
LEMMA RoundToCentType ==
    ASSUME NEW mills \in Int, NEW c \in RoundToCent(mills)
    PROVE  c \in Int
BY RiskAssumption DEF RoundToCent, RiskAssumption

LEMMA RiskMillsType ==
    ASSUME NEW r \in Risk
    PROVE  RiskMills(r) \in Int
<1>1. RiskPerTrade \in Int /\ DeriskedPerTrade \in Int
  BY RiskAssumption DEF RiskAssumption
<1>2. r.balance \in Int
  BY DEF Risk
<1> QED
  BY <1>1, <1>2 DEF RiskMills

LEMMA RolloverType ==
    ASSUME NEW r \in Risk, NEW day \in Nat
    PROVE  Rollover(r, day) \in Risk
BY DEF Rollover, Risk

LEMMA ArmedType ==
    ASSUME NEW r \in Risk
    PROVE  /\ Armed(r) \in Risk
           /\ Armed(r).day = r.day
           /\ Armed(r).open = r.open
           /\ Armed(r).balance = r.balance
           /\ Armed(r).dayStart = r.dayStart
           /\ Armed(r).dayPnl = r.dayPnl
<1>1. LimitHit(r) \in BOOLEAN
  BY DEF LimitHit
<1> QED
  BY <1>1 DEF Armed, Risk

LEMMA BookedType ==
    ASSUME NEW r \in Risk, NEW instrument, NEW pnl \in Int
    PROVE  Booked(r, instrument, pnl) \in Risk
<1>1. Without(r.open, instrument) \in Seq(Position)
  BY RemovalType DEF Risk
<1>2. (IF pnl >= 0 THEN 0
       ELSE IF r.losses < DeriskAfterLosses THEN r.losses + 1 ELSE r.losses)
        \in 0..DeriskAfterLosses
  BY RiskAssumption DEF Risk, RiskAssumption
<1> QED
  BY <1>1, <1>2 DEF Booked, Risk

LEMMA ClosePositionType ==
    ASSUME NEW r \in Risk, NEW instrument, NEW pnl \in Int, NEW day \in Nat
    PROVE  ClosePosition(r, instrument, pnl, day) \in Risk
BY RolloverType, BookedType, ArmedType DEF ClosePosition

\* What a close does to the balance and the positions, on any day.
LEMMA ClosePositionMoves ==
    ASSUME NEW r \in Risk, NEW instrument, NEW pnl \in Int, NEW day \in Nat
    PROVE  /\ ClosePosition(r, instrument, pnl, day).balance = r.balance + pnl
           /\ ClosePosition(r, instrument, pnl, day).open
                = Without(r.open, instrument)
<1>1. /\ Rollover(r, day) \in Risk /\ Rollover(r, day).balance = r.balance
      /\ Rollover(r, day).open = r.open
  BY RolloverType DEF Rollover, Risk
<1>2. /\ Booked(Rollover(r, day), instrument, pnl) \in Risk
      /\ Booked(Rollover(r, day), instrument, pnl).balance = r.balance + pnl
      /\ Booked(Rollover(r, day), instrument, pnl).open = Without(r.open, instrument)
  BY <1>1, BookedType DEF Booked
<1> QED
  BY <1>2, ArmedType DEF ClosePosition

LEMMA RegisterFillType ==
    ASSUME NEW r \in Risk, NEW instrument \in Instruments, NEW direction \in {-1, 1},
           NEW amount \in Int
    PROVE  RegisterFill(r, instrument, direction, amount) \in Risk
<1>1. [instrument |-> instrument, direction |-> direction,
       risk |-> amount] \in Position
  BY DEF Position
<1>2. ASSUME NEW p \in Position
      PROVE  [r EXCEPT !.open = Append(@, p)] \in Risk
  <2>1. Append(r.open, p) \in Seq(Position)
    BY DEF Risk
  <2>2. ASSUME NEW open \in Seq(Position)
        PROVE  [r EXCEPT !.open = open] \in Risk
    BY DEF Risk
  <2> QED
    BY <2>1, <2>2
<1> QED
  BY <1>1, <1>2 DEF RegisterFill

\* ---- The heat -------------------------------------------------------------

\* The heat of a list of positions is a sum in the sense of Sums_proofs.
LEMMA HeatIsSum ==
    ASSUME NEW open \in Seq(Position)
    PROVE  \E g : /\ IsSum(g, [n \in 1..Len(open) |-> open[n].risk], 1..Len(open))
                  /\ GrossHeat(open) = g[1..Len(open)]
<1> DEFINE D == 1..Len(open)
           risks == [n \in D |-> open[n].risk]
           first == [S \in SUBSET D |-> Max(S)]
           Step(g) == [S \in SUBSET D |->
                         IF S = {} THEN 0 ELSE LET n == Max(S)
                                               IN  g[S \ {n}] + open[n].risk]
           sum == CHOOSE g : g = Step(g)
<1>1. Len(open) \in Nat /\ DOMAIN open = D /\ IsFiniteSet(D)
  BY LenProperties, FS_Interval
<1>2. ASSUME NEW n \in D PROVE open[n].risk \in Int
  <2>1. open[n] \in Position
    BY ElementOfSeq
  <2> QED
    BY <2>1 DEF Position
<1>3. Takes(first, D)
  <2> SUFFICES ASSUME NEW S \in SUBSET D, S # {} PROVE Max(S) \in S
    BY DEF Takes
  <2>1. \E n \in S : \A m \in S : n >= m
    <3>1. S \in SUBSET (0..Len(open))
      BY <1>1
    <3> QED
      BY <1>1, <3>1, GreatestMember
  <2> QED
    BY <2>1 DEF Max
<1>4. risks \in [D -> Int]
  BY <1>2
<1>9. PICK g \in [SUBSET D -> Int] : Recursion(g, risks, first, SUBSET D)
  <2> HIDE DEF risks, first, D
  <2> QED
    BY <1>1, <1>3, <1>4, RecursionHasSolution
<1>5. g = Step(g)
  <2>1. ASSUME NEW S \in SUBSET D, S # {}
        PROVE  g[S] = g[S \ {Max(S)}] + open[Max(S)].risk
    <3>1. first[S] = Max(S) /\ Max(S) \in D
      BY <1>3, <2>1 DEF Takes
    <3>2. g[S] = risks[Max(S)] + g[S \ {Max(S)}]
      BY <1>9, <2>1, <3>1 DEF Recursion
    <3>3. g[S \ {Max(S)}] \in Int
      BY <1>9
    <3> QED
      BY <1>2, <3>1, <3>2, <3>3
  <2>2. g[{}] = 0
    BY <1>9 DEF Recursion
  <2> QED
    BY <1>9, <2>1, <2>2
<1>6. sum = Step(sum)
  BY <1>5
<1>7. GrossHeat(open) = sum[D]
  BY <1>1 DEF GrossHeat, SumOver, FoldLeft, MapThenFoldSet
<1>8. IsSum(sum, risks, D)
  <2>1. IsFunctionOn(sum, SUBSET D) /\ sum[{}] = 0
    <3> HIDE DEF sum
    <3> QED
      BY <1>6 DEF IsFunctionOn
  <2>2. ASSUME NEW S \in SUBSET D, S # {}, sum[S \ {first[S]}] \in Int
        PROVE  sum[S] = risks[first[S]] + sum[S \ {first[S]}]
    <3>1. first[S] = Max(S) /\ Max(S) \in D
      BY <1>3, <2>2 DEF Takes
    <3>2. sum[S] = sum[S \ {Max(S)}] + open[Max(S)].risk
      BY <1>6, <2>2
    <3> HIDE DEF sum
    <3> QED
      BY <1>2, <2>2, <3>1, <3>2
  <2> HIDE DEF sum, risks, first, D
  <2> QED
    BY <1>1, <1>3, <1>4, <2>1, <2>2, FoldIsSum DEF Equations
<1> QED
  BY <1>7, <1>8

LEMMA HeatType ==
    ASSUME NEW open \in Seq(Position)
    PROVE  GrossHeat(open) \in Int
<1>1. PICK g : /\ IsSum(g, [n \in 1..Len(open) |-> open[n].risk], 1..Len(open))
               /\ GrossHeat(open) = g[1..Len(open)]
  BY HeatIsSum
<1> QED
  BY <1>1 DEF IsSum

LEMMA HeatOfNone == GrossHeat(<<>>) = 0
<1>1. <<>> \in Seq(Position) /\ 1..Len(<<>>) = {}
  OBVIOUS
<1>2. PICK g : /\ IsSum(g, [n \in 1..Len(<<>>) |-> <<>>[n].risk], 1..Len(<<>>))
               /\ GrossHeat(<<>>) = g[1..Len(<<>>)]
  BY <1>1, HeatIsSum
<1>3. GrossHeat(<<>>) = g[{}]
  BY <1>1, <1>2
<1> QED
  BY <1>2, <1>3 DEF IsSum

\* A position that goes takes its risk with it.
LEMMA HeatOfRemoval ==
    ASSUME NEW open \in Seq(Position), NEW k \in 1..Len(open), NEW rest,
           LacksOnly(rest, open, k)
    PROVE  GrossHeat(open) = open[k].risk + GrossHeat(rest)
<1> DEFINE D == 1..Len(open)
           E == 1..Len(rest)
           values == [n \in D |-> open[n].risk]
           other == [n \in E |-> rest[n].risk]
           to == [n \in D \ {k} |-> IF n < k THEN n ELSE n - 1]
<1>0. /\ Len(open) \in Nat /\ k \in Nat /\ k \in D
      /\ rest \in Seq(Position) /\ Len(rest) = Len(open) - 1
  BY LenProperties DEF LacksOnly
<1>1. PICK g : IsSum(g, values, D) /\ GrossHeat(open) = g[D]
  BY HeatIsSum
<1>2. PICK h : IsSum(h, other, E) /\ GrossHeat(rest) = h[E]
  BY <1>0, HeatIsSum
<1>3. g[D] = open[k].risk + g[D \ {k}]
  BY <1>0, <1>1 DEF IsSum
<1>4. to \in [D \ {k} -> E]
  BY <1>0
<1>5. \A x, y \in D \ {k} : to[x] = to[y] => x = y
  BY <1>0
<1>6. ASSUME NEW x \in D \ {k} PROVE other[to[x]] = values[x]
  <2>1. to[x] \in E /\ rest[to[x]] = open[IF to[x] < k THEN to[x] ELSE to[x] + 1]
    BY <1>4 DEF LacksOnly
  <2>2. (IF to[x] < k THEN to[x] ELSE to[x] + 1) = x
    BY <1>0
  <2> QED
    BY <2>1, <2>2
<1>7. {to[x] : x \in D \ {k}} = E
  <2>1. ASSUME NEW n \in E PROVE \E x \in D \ {k} : to[x] = n
    <3>1. CASE n < k
      BY <1>0, <3>1
    <3>2. CASE ~(n < k)
      <4>1. n + 1 \in D \ {k} /\ to[n + 1] = n
        BY <1>0, <3>2
      <4> QED
        BY <4>1
    <3> QED
      BY <3>1, <3>2
  <2> QED
    BY <1>4, <2>1
<1>8. IsFiniteSet(D \ {k}) /\ D \ {k} \in SUBSET D
  <2>1. IsFiniteSet(D)
    BY <1>0, FS_Interval
  <2> HIDE DEF D
  <2> QED
    BY <2>1, FS_RemoveElement
<1> HIDE DEF D, E, values, other, to
<1>9. g[D \ {k}] = h[{to[x] : x \in D \ {k}}]
  BY <1>1, <1>2, <1>4, <1>5, <1>6, <1>8, SumOfImage
<1> QED
  BY <1>1, <1>2, <1>3, <1>7, <1>9

\* register_fill adds the risk of the new position.
LEMMA HeatOfAppend ==
    ASSUME NEW open \in Seq(Position), NEW p \in Position
    PROVE  GrossHeat(Append(open, p)) = p.risk + GrossHeat(open)
<1> DEFINE k == Len(open) + 1
<1>1. /\ Append(open, p) \in Seq(Position) /\ Len(Append(open, p)) = k
      /\ Append(open, p)[k] = p
      /\ \A i \in 1..Len(open) : Append(open, p)[i] = open[i]
      /\ Len(open) \in Nat
  BY AppendProperties, LenProperties
<1>2. k \in 1..Len(Append(open, p))
  BY <1>1
<1>3. LacksOnly(open, Append(open, p), k)
  BY <1>1 DEF LacksOnly
<1> QED
  BY <1>1, <1>2, <1>3, HeatOfRemoval

LEMMA HeatNotNegative ==
    ASSUME NEW open \in Seq(Position), \A n \in 1..Len(open) : open[n].risk \in Nat
    PROVE  GrossHeat(open) \in Nat
<1> DEFINE D == 1..Len(open)
           values == [n \in D |-> open[n].risk]
<1>1. PICK g : IsSum(g, values, D) /\ GrossHeat(open) = g[D]
  BY HeatIsSum
<1>2. IsFiniteSet(D) /\ D \in SUBSET D
  BY LenProperties, FS_Interval
<1>3. \A x \in D : values[x] \in Nat
  OBVIOUS
<1> HIDE DEF D, values
<1> QED
  BY <1>1, <1>2, <1>3, SumNotNegative

\* ---- Sums over sets -------------------------------------------------------

\* The fold that adds up what a function has on a finite set is a sum.
LEMMA FoldIsSumOf ==
    ASSUME NEW D, IsFiniteSet(D), NEW values, \A x \in D : values[x] \in Int
    PROVE  \E g : /\ IsSum(g, values, D)
                  /\ FoldFunctionOnSet(+, 0, values, D) = g[D]
<1> DEFINE first == [S \in SUBSET D |-> CHOOSE x \in S : TRUE]
           on == [x \in D |-> values[x]]
           Step(g) == [S \in SUBSET D |->
                         IF S = {} THEN 0
                         ELSE LET x == CHOOSE x \in S : TRUE
                              IN  values[x] + g[S \ {x}]]
           sum == CHOOSE g : g = Step(g)
<1>1. Takes(first, D)
  BY DEF Takes
<1>0. on \in [D -> Int] /\ \A x \in D : on[x] = values[x]
  OBVIOUS
<1> HIDE DEF on
<1>2. PICK g \in [SUBSET D -> Int] : Recursion(g, on, first, SUBSET D)
  <2> HIDE DEF first
  <2> QED
    BY <1>0, <1>1, RecursionHasSolution
<1>3. g = Step(g)
  <2>1. ASSUME NEW S \in SUBSET D, S # {}
        PROVE  g[S] = values[first[S]] + g[S \ {first[S]}]
    <3> HIDE DEF first
    <3>1. first[S] \in D
      BY <1>1, <2>1 DEF Takes
    <3> QED
      BY <1>0, <1>2, <2>1, <3>1 DEF Recursion
  <2>2. g[{}] = 0
    <3> HIDE DEF first
    <3> QED
      BY <1>2 DEF Recursion
  <2> QED
    BY <1>2, <2>1, <2>2
<1>4. sum = Step(sum)
  BY <1>3
<1>5. FoldFunctionOnSet(+, 0, values, D) = sum[D]
  BY DEF FoldFunctionOnSet, MapThenFoldSet
<1>6. IsSum(sum, on, D)
  <2>1. IsFunctionOn(sum, SUBSET D) /\ sum[{}] = 0
    <3> HIDE DEF sum
    <3> QED
      BY <1>4 DEF IsFunctionOn
  <2>2. ASSUME NEW S \in SUBSET D, S # {}, sum[S \ {first[S]}] \in Int
        PROVE  sum[S] = on[first[S]] + sum[S \ {first[S]}]
    <3>1. first[S] \in D
      BY <1>1, <2>2 DEF Takes
    <3>2. sum[S] = values[first[S]] + sum[S \ {first[S]}]
      <4> HIDE DEF sum
      <4> QED
        BY <1>4, <2>2
    <3> HIDE DEF sum, first
    <3> QED
      BY <1>0, <3>1, <3>2
  <2> HIDE DEF sum, first
  <2> QED
    BY <1>0, <1>1, <2>1, <2>2, FoldIsSum DEF Equations
<1>7. IsSum(sum, values, D)
  <2> HIDE DEF sum
  <2> QED
    BY <1>0, <1>6 DEF IsSum
<1> QED
  BY <1>5, <1>7

LEMMA SumType ==
    ASSUME NEW D, IsFiniteSet(D), NEW values, \A x \in D : values[x] \in Int
    PROVE  FoldFunctionOnSet(+, 0, values, D) \in Int
<1>1. PICK g : IsSum(g, values, D) /\ FoldFunctionOnSet(+, 0, values, D) = g[D]
  BY FoldIsSumOf
<1>2. g[D] \in Int
  BY <1>1 DEF IsSum
<1> QED
  BY <1>1, <1>2, Zenon

\* What is added up besides does not matter.
LEMMA SumOfSame ==
    ASSUME NEW D, IsFiniteSet(D), NEW values, NEW others,
           \A x \in D : values[x] \in Int /\ others[x] = values[x]
    PROVE  FoldFunctionOnSet(+, 0, others, D) = FoldFunctionOnSet(+, 0, values, D)
<1>1. PICK g : IsSum(g, values, D) /\ FoldFunctionOnSet(+, 0, values, D) = g[D]
  BY FoldIsSumOf
<1>2. PICK h : IsSum(h, others, D) /\ FoldFunctionOnSet(+, 0, others, D) = h[D]
  BY FoldIsSumOf
<1>3. g[D] = h[D]
  <2>1. D \in SUBSET D
    OBVIOUS
  <2>2. IsSum(g, values, D) /\ IsSum(h, others, D)
    BY <1>1, <1>2
  <2> QED
    BY <2>1, <2>2, SumOfPart
<1> QED
  BY <1>1, <1>2, <1>3, Zenon

\* An element more adds its value.
LEMMA SumOfMore ==
    ASSUME NEW D, IsFiniteSet(D), NEW values, NEW more, NEW x, x \notin D,
           more[x] \in Int, \A y \in D : values[y] \in Int /\ more[y] = values[y]
    PROVE  FoldFunctionOnSet(+, 0, more, D \cup {x})
             = more[x] + FoldFunctionOnSet(+, 0, values, D)
<1> DEFINE E == D \cup {x}
<1>1. /\ IsFiniteSet(E) /\ D \in SUBSET E /\ D \in SUBSET D
      /\ E \in SUBSET E /\ x \in E /\ E \ {x} = D
  BY FS_AddElement
<1>2. \A y \in E : more[y] \in Int
  OBVIOUS
<1> HIDE DEF E
<1>3. PICK h : IsSum(h, more, E) /\ FoldFunctionOnSet(+, 0, more, E) = h[E]
  BY <1>1, <1>2, FoldIsSumOf
<1>4. PICK g : IsSum(g, values, D) /\ FoldFunctionOnSet(+, 0, values, D) = g[D]
  BY FoldIsSumOf
<1>5. g[D] = h[D]
  <2>1. IsSum(g, values, D) /\ IsSum(h, more, E)
    BY <1>3, <1>4
  <2> QED
    BY <1>1, <2>1, SumOfPart
<1>6. h[E] = more[x] + h[D]
  BY <1>1, <1>3 DEF IsSum
<1>7. FoldFunctionOnSet(+, 0, more, E) = more[x] + FoldFunctionOnSet(+, 0, values, D)
  BY <1>3, <1>4, <1>5, <1>6, Zenon
<1> QED
  BY <1>7 DEF E

\* ---- arithmetic ------------------------------------------------------------

\* Division rounds down.
LEMMA QuotientType ==
    ASSUME NEW a \in Nat, NEW d \in Nat \ {0}
    PROVE  a \div d \in Nat /\ (a \div d) * d <= a
OBVIOUS

\* Products keep the order.
LEMMA TimesMonotone ==
    ASSUME NEW a \in Int, NEW b \in Int, NEW k \in Nat, a <= b
    PROVE  a * k <= b * k
OBVIOUS

\* ---- lists of amounts --------------------------------------------------------

\* What is added up from the left.
ListSum(amounts) == FoldLeft(LAMBDA sum, amount : sum + amount, 0, amounts)

\* Adding up from the left is a sum.
LEMMA ListSumIsSum ==
    ASSUME NEW amounts \in Seq(Int)
    PROVE  \E g : /\ IsSum(g, [n \in 1..Len(amounts) |-> amounts[n]], 1..Len(amounts))
                  /\ ListSum(amounts) = g[1..Len(amounts)]
<1> DEFINE D == 1..Len(amounts)
           values == [n \in D |-> amounts[n]]
           first == [S \in SUBSET D |-> Max(S)]
           Step(g) == [S \in SUBSET D |->
                         IF S = {} THEN 0 ELSE LET n == Max(S)
                                               IN  g[S \ {n}] + amounts[n]]
           sum == CHOOSE g : g = Step(g)
<1>1. Len(amounts) \in Nat /\ DOMAIN amounts = D /\ IsFiniteSet(D)
  BY LenProperties, FS_Interval
<1>2. ASSUME NEW n \in D PROVE amounts[n] \in Int
  BY ElementOfSeq
<1>3. Takes(first, D)
  <2> SUFFICES ASSUME NEW S \in SUBSET D, S # {} PROVE Max(S) \in S
    BY DEF Takes
  <2>1. \E n \in S : \A m \in S : n >= m
    <3>1. S \in SUBSET (0..Len(amounts))
      BY <1>1
    <3> QED
      BY <1>1, <3>1, GreatestMember
  <2> QED
    BY <2>1 DEF Max
<1>4. values \in [D -> Int]
  BY <1>2
<1>9. PICK g \in [SUBSET D -> Int] : Recursion(g, values, first, SUBSET D)
  <2> HIDE DEF values, first, D
  <2> QED
    BY <1>1, <1>3, <1>4, RecursionHasSolution
<1>5. g = Step(g)
  <2>1. ASSUME NEW S \in SUBSET D, S # {}
        PROVE  g[S] = g[S \ {Max(S)}] + amounts[Max(S)]
    <3>1. first[S] = Max(S) /\ Max(S) \in D
      BY <1>3, <2>1 DEF Takes
    <3>2. g[S] = values[Max(S)] + g[S \ {Max(S)}]
      BY <1>9, <2>1, <3>1 DEF Recursion
    <3>3. g[S \ {Max(S)}] \in Int
      BY <1>9
    <3> QED
      BY <1>2, <3>1, <3>2, <3>3
  <2>2. g[{}] = 0
    BY <1>9 DEF Recursion
  <2> QED
    BY <1>9, <2>1, <2>2
<1>6. sum = Step(sum)
  BY <1>5
<1>7. ListSum(amounts) = sum[D]
  BY <1>1 DEF ListSum, FoldLeft, MapThenFoldSet
<1>8. IsSum(sum, values, D)
  <2>1. IsFunctionOn(sum, SUBSET D) /\ sum[{}] = 0
    <3> HIDE DEF sum
    <3> QED
      BY <1>6 DEF IsFunctionOn
  <2>2. ASSUME NEW S \in SUBSET D, S # {}, sum[S \ {first[S]}] \in Int
        PROVE  sum[S] = values[first[S]] + sum[S \ {first[S]}]
    <3>1. first[S] = Max(S) /\ Max(S) \in D
      BY <1>3, <2>2 DEF Takes
    <3>2. sum[S] = sum[S \ {Max(S)}] + amounts[Max(S)]
      BY <1>6, <2>2
    <3> HIDE DEF sum
    <3> QED
      BY <1>2, <2>2, <3>1, <3>2
  <2> HIDE DEF sum, values, first, D
  <2> QED
    BY <1>1, <1>3, <1>4, <2>1, <2>2, FoldIsSum DEF Equations
<1> QED
  BY <1>7, <1>8

\* Such a sum is an amount.
LEMMA ListSumType ==
    ASSUME NEW amounts \in Seq(Int)
    PROVE  ListSum(amounts) \in Int
<1>1. PICK g : /\ IsSum(g, [n \in 1..Len(amounts) |-> amounts[n]], 1..Len(amounts))
               /\ ListSum(amounts) = g[1..Len(amounts)]
  BY ListSumIsSum
<1> QED
  BY <1>1 DEF IsSum
=============================================================================
