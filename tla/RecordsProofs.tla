----------------------------- MODULE RecordsProofs -----------------------------
(* Proofs about module Records, for all pages, rules and texts.            *)
EXTENDS Records, FiniteSetTheorems, SequenceTheorems, WellFoundedInduction, TLAPS

-----------------------------------------------------------------------------
(* What the operators return.                                              *)

\* Whatever a field holds is a JSON value.
LEMMA FieldIsValue == \A v \in Field : IsValue(v)
<1> SUFFICES ASSUME NEW v \in Field PROVE IsValue(v)
  OBVIOUS
<1>1. CASE v \in Values
  BY <1>1, RecordsAssumption
<1>2. CASE v \in {List(<<w>>) : w \in Values}
  <2>1. PICK w \in Values : v = List(<<w>>)
    BY <1>2
  <2>2. <<w>> \in Seq(Values)
    OBVIOUS
  <2>3. v.kind = "list" /\ v.items = <<w>> /\ v = List(v.items)
    BY <2>1 DEF List
  <2> QED
    BY <2>2, <2>3 DEF IsValue
<1>3. CASE v \in [kind : {"string"}, len : Nat]
  BY <1>3 DEF IsValue, Str
<1> QED
  BY <1>1, <1>2, <1>3 DEF Field

\* The validator counts exactly the values that hold something.
LEMMA FilledHasContent == \A v \in Field : IsFilled(v) <=> HasContent(v)
<1> SUFFICES ASSUME NEW v \in Field PROVE IsFilled(v) <=> HasContent(v)
  OBVIOUS
<1>v. IsValue(v)
  BY FieldIsValue
<1>1. CASE v \in {Null, Number}
  BY <1>1 DEF IsFilled, HasContent, Null, Number, Str, List
<1>2. CASE v.kind = "string" /\ v.len \in Nat /\ v = Str(v.len)
  BY <1>2 DEF IsFilled, HasContent, Null, Str, List
<1>3. CASE v.kind = "list" /\ v.items \in Seq(Values) /\ v = List(v.items)
  BY <1>3 DEF IsFilled, HasContent, Null, Str, List
<1>4. CASE v.kind = "dict" /\ v = Dict(v.at)
  BY <1>4 DEF IsFilled, HasContent, Null, Str, List, Dict
<1> QED
  BY <1>v, <1>1, <1>2, <1>3, <1>4 DEF IsValue

\* A value that holds something is worth between one hundredth and one.
LEMMA QualityBounds == \A v \in Field : IsFilled(v) => Quality(v) \in 1 .. 100
<1> SUFFICES ASSUME NEW v \in Field, IsFilled(v) PROVE Quality(v) \in 1 .. 100
  OBVIOUS
<1>1. IsValue(v)
  BY FieldIsValue
<1>2. CASE v.kind = "string"
  <2>1. v.len \in Nat
    BY <1>1, <1>2 DEF IsValue, Null, Number
  <2>2. v.len > 0
    BY <1>2 DEF IsFilled
  <2> QED
    BY <2>1, <2>2 DEF Quality
<1>3. CASE v.kind # "string"
  BY <1>3 DEF Quality
<1> QED
  BY <1>2, <1>3

\* A key or an item of a value is a value.
LEMMA EntryType == \A v \in Values : \A key : Entry(v, key) \in Values
<1> SUFFICES ASSUME NEW v \in Values, NEW key PROVE Entry(v, key) \in Values
  OBVIOUS
<1>1. IsValue(v) /\ Null \in Values
  BY RecordsAssumption
<1>2. CASE v.kind = "dict" /\ key \in DOMAIN v.at
  BY <1>1, <1>2 DEF IsValue, Entry, Null, Number
<1> QED
  BY <1>1, <1>2 DEF Entry

LEMMA ItemType == \A v \in Values : \A n : Item(v, n) \in Values
<1> SUFFICES ASSUME NEW v \in Values, NEW n PROVE Item(v, n) \in Values
  OBVIOUS
<1>1. IsValue(v) /\ Null \in Values
  BY RecordsAssumption
<1>2. CASE v.kind = "list"
  <2>1. v.items \in Seq(Values)
    BY <1>1, <1>2 DEF IsValue, Null, Number
  <2>2. \A i \in DOMAIN v.items : v.items[i] \in Values
    BY <2>1
  <2> QED
    BY <1>1, <1>2, <2>2 DEF Item
<1> QED
  BY <1>1, <1>2 DEF Item

\* One more field is looked at.
LEMMA ContentsGrow ==
  ASSUME NEW n \in Nat
  PROVE  /\ IsFiniteSet(ContentsUpTo(n))
         /\ Cardinality(ContentsUpTo(n)) \in 0 .. n
         /\ Cardinality(ContentsUpTo(n + 1)) =
                IF HasContent(fields[n + 1]) THEN Cardinality(ContentsUpTo(n)) + 1
                                             ELSE Cardinality(ContentsUpTo(n))
<1>1. IsFiniteSet(1 .. n) /\ Cardinality(1 .. n) = n
  BY FS_Interval
<1>2. IsFiniteSet(ContentsUpTo(n)) /\ Cardinality(ContentsUpTo(n)) <= n
  BY <1>1, FS_Subset DEF ContentsUpTo
<1>3. Cardinality(ContentsUpTo(n)) \in Nat
  BY <1>2, FS_CardinalityType
<1>4. CASE HasContent(fields[n + 1])
  <2>1. ContentsUpTo(n + 1) = ContentsUpTo(n) \cup {n + 1} /\ n + 1 \notin ContentsUpTo(n)
    BY <1>4 DEF ContentsUpTo
  <2> QED
    BY <1>2, <1>3, <1>4, <2>1, FS_AddElement
<1>5. CASE ~HasContent(fields[n + 1])
  <2>1. ContentsUpTo(n + 1) = ContentsUpTo(n)
    BY <1>5 DEF ContentsUpTo
  <2> QED
    BY <1>2, <1>3, <1>5, <2>1
<1> QED
  BY <1>2, <1>3, <1>4, <1>5

\* A quotient is at least any bound that the dividend is a multiple of.
LEMMA QuotientBound ==
  ASSUME NEW a \in Nat, NEW b \in Nat \ {0}, NEW k \in Nat, a >= k * b
  PROVE  a \div b >= k
<1> DEFINE q == a \div b
           r == a % b
<1>1. q \in Int /\ r \in 0 .. b - 1 /\ a = b * q + r
  OBVIOUS
<1> HIDE DEF q, r
<1>2. ASSUME q <= k - 1 PROVE FALSE
  <2>1. b * q <= b * (k - 1)
    BY <1>1, <1>2
  <2> QED
    BY <1>1, <2>1
<1>3. q >= k
  BY <1>1, <1>2
<1> QED
  BY <1>3 DEF q

\* The sixth: 0.6 times it is the threshold, whatever the values are worth.
LEMMA SixthScores ==
  ASSUME NEW t \in Nat, NEW f \in Nat, NEW q \in Nat, t > 0, f > 0, 6 * f >= t
  PROVE  Score(t, f, q) >= Threshold
<1>1. t * f \in Nat /\ t * f > 0 /\ f * f \in Nat /\ q * t \in Nat
  OBVIOUS
<1>2. f * (6 * f) >= f * t
  OBVIOUS
<1>3. 6 * (f * f) >= t * f
  BY <1>2
<1>4. 20 * Numerator(t, f, q) + t * f >= Threshold * (2 * (t * f))
  <2>1. Numerator(t, f, q) = 600 * (f * f) + 4 * (q * t)
    BY DEF Numerator
  <2> QED
    BY <1>1, <1>3, <2>1 DEF Threshold
<1>5. 2 * t * f = 2 * (t * f)
  OBVIOUS
<1>6. Numerator(t, f, q) \in Nat
  BY DEF Numerator
<1> QED
  BY <1>1, <1>4, <1>5, <1>6, QuotientBound DEF Score, Threshold

-----------------------------------------------------------------------------
(* How much one field can lower the score.                                 *)

\* Dividing an inequality.
LEMMA Cancel ==
  ASSUME NEW f \in Nat \ {0}, NEW a \in Int, NEW b \in Int, f * a <= f * b
  PROVE  a <= b
<1>1. ASSUME a >= b + 1 PROVE FALSE
  <2>1. f * a >= f * (b + 1)
    BY <1>1
  <2> QED
    BY <2>1
<1> QED
  BY <1>1

\* The score is the quotient up to rounding.
LEMMA ScoreBounds ==
  ASSUME NEW t \in Nat \ {0}, NEW f \in Nat \ {0}, NEW q \in Nat
  PROVE  /\ Score(t, f, q) \in Int
         /\ 2 * (t * f) * Score(t, f, q) <= 12000 * (f * f) + 80 * (q * t) + t * f
         /\ 2 * (t * f) * Score(t, f, q) >= 12000 * (f * f) + 80 * (q * t) - t * f
<1> DEFINE n == 20 * Numerator(t, f, q) + t * f
           d == 2 * t * f
<1>1. t * f \in Nat \ {0} /\ f * f \in Nat /\ q * t \in Nat
  OBVIOUS
<1>2. Numerator(t, f, q) = 600 * (f * f) + 4 * (q * t)
  BY DEF Numerator
<1>3. n = 12000 * (f * f) + 80 * (q * t) + t * f /\ d = 2 * (t * f)
  BY <1>2
<1>4. n \in Nat /\ d \in Nat \ {0}
  BY <1>1, <1>3
<1>5. Score(t, f, q) = n \div d
  BY DEF Score
<1> HIDE DEF n, d
<1>6. n \div d \in Int /\ n % d \in 0 .. d - 1 /\ n = d * (n \div d) + (n % d)
  BY <1>4
<1> QED
  BY <1>1, <1>3, <1>5, <1>6

\* What a field worth x can take from a score.
LEMMA DropBound ==
  ASSUME NEW t \in Nat \ {0}, NEW f \in Nat \ {0}, NEW q \in Nat, NEW x \in 1 .. 100,
         q <= 100 * (f - 1)
  PROVE  t * (Score(t, f - 1, q) - Score(t, f, q + x) - 1) <= 1980 * t - 6000
<1> DEFINE a == Score(t, f - 1, q)
           b == Score(t, f, q + x)
           g == f - 1
<1>1. /\ b \in Int
      /\ 2 * (t * f) * b >= 12000 * (f * f) + 80 * ((q + x) * t) - t * f
  BY ScoreBounds
<1>2. CASE f = 1
  <2>1. a = 0 /\ q = 0
    BY <1>2 DEF Score
  <2>2. 2 * t * b >= 12000 + 80 * (x * t) - t
    BY <1>1, <1>2, <2>1
  <2>3. x * t >= t
    OBVIOUS
  <2> HIDE DEF a, b
  <2>4. t * (a - b - 1) = - (t * b) - t
    BY <1>1, <2>1
  <2>5. 2 * (t * b) >= 12000 + 79 * t
    BY <1>1, <2>2, <2>3
  <2>6. t * b \in Int
    BY <1>1
  <2> QED
    BY <2>4, <2>5, <2>6 DEF a, b
<1>3. CASE f > 1
  <2>1. /\ g \in Nat \ {0} /\ a \in Int
        /\ 2 * (t * g) * a <= 12000 * (g * g) + 80 * (q * t) + t * g
    <3>1. g \in Nat \ {0} /\ a = Score(t, g, q)
      BY <1>3
    <3> HIDE DEF g, a
    <3> QED
      BY <3>1, ScoreBounds
  <2>2. f = g + 1 /\ q <= 100 * g
    OBVIOUS
  <2> HIDE DEF a, b, g
  <2> DEFINE y == a - b - 1
             k == t * g * f
  <2>3. 2 * k * a <= 12000 * (g * g * f) + 80 * (q * t * f) + k
    <3>1. f * (2 * (t * g) * a) <= f * (12000 * (g * g) + 80 * (q * t) + t * g)
      BY <2>1
    <3> QED
      BY <2>1, <3>1
  <2>4. 2 * k * b >= 12000 * (f * f * g) + 80 * ((q + x) * t * g) - k
    <3>1. g * (2 * (t * f) * b) >= g * (12000 * (f * f) + 80 * ((q + x) * t) - t * f)
      BY <1>1, <2>1
    <3> QED
      BY <1>1, <2>1, <3>1
  <2>5. 2 * k * y <= 12000 * (g * g * f - f * f * g) + 80 * (q * t * f - (q + x) * t * g)
    <3>1. k \in Int /\ 2 * k * y = 2 * k * a - 2 * k * b - 2 * k
      BY <1>1, <2>1
    <3> QED
      BY <1>1, <2>1, <2>3, <2>4, <3>1
  <2>6. g * g * f - f * f * g = - (g * f)
    BY <2>1, <2>2
  <2>7. q * t * f - (q + x) * t * g = t * (q - x * g)
    BY <2>1, <2>2
  <2>8. t * (q - x * g) <= t * (99 * g)
    <3>1. x * g >= g
      BY <2>1
    <3>2. q - x * g <= 99 * g
      BY <2>1, <2>2, <3>1
    <3> QED
      BY <2>1, <3>2
  <2>9. 2 * k * y <= g * (7920 * t - 12000 * f)
    <3>1. g * (7920 * t - 12000 * f) = 80 * (t * (99 * g)) - 12000 * (g * f)
      BY <2>1
    <3> DEFINE left == 2 * k * y
               m1 == g * g * f - f * f * g
               m2 == q * t * f - (q + x) * t * g
               m3 == t * (q - x * g)
               m4 == t * (99 * g)
               m5 == g * f
    <3>2. left \in Int /\ m1 \in Int /\ m2 \in Int /\ m3 \in Int /\ m4 \in Int /\ m5 \in Int
      BY <1>1, <2>1
    <3>3. /\ left <= 12000 * m1 + 80 * m2 /\ m1 = -m5 /\ m2 = m3 /\ m3 <= m4
          /\ g * (7920 * t - 12000 * f) = 80 * m4 - 12000 * m5
      BY <2>5, <2>6, <2>7, <2>8, <3>1
    <3> HIDE DEF left, m1, m2, m3, m4, m5
    <3>4. left <= 80 * m4 - 12000 * m5
      BY <3>2, <3>3
    <3> QED
      BY <3>3, <3>4 DEF left
  <2>10. g * (2 * t * f * y) <= g * (f * (3960 * t - 12000))
    <3>1. 2 * k * y = g * (2 * t * f * y)
      BY <1>1, <2>1
    <3>2. 2 * t <= f * t
      BY <1>3
    <3>3. 7920 * t - 12000 * f <= f * (3960 * t - 12000)
      BY <3>2
    <3>4. g * (7920 * t - 12000 * f) <= g * (f * (3960 * t - 12000))
      BY <2>1, <3>3
    <3> QED
      BY <2>9, <3>1, <3>4, <2>1, <1>1
  <2>11. y \in Int
    BY <1>1, <2>1
  <2>12. f * (2 * t * y) <= f * (3960 * t - 12000)
    <3>1. 2 * t * f * y <= f * (3960 * t - 12000)
      BY <2>1, <2>10, <2>11, Cancel
    <3> QED
      BY <2>11, <3>1
  <2>13. 2 * t * y <= 3960 * t - 12000
    BY <2>11, <2>12, Cancel
  <2> QED
    BY <2>11, <2>13 DEF a, b, g
<1> QED
  BY <1>2, <1>3
-----------------------------------------------------------------------------
(* The nodes that a path selects.                                          *)

LEMMA FlattenNone == FlattenSeq(<<>>) = <<>>
  BY DEF FlattenSeq

LEMMA FlattenOne == \A s : FlattenSeq(<<s>>) = s
<1> SUFFICES ASSUME NEW s PROVE FlattenSeq(<<s>>) = s
  OBVIOUS
<1> DEFINE seqs == <<s>>
           Def(f) == [i \in 1 .. Len(seqs) |-> IF i = 1 THEN seqs[i] ELSE f[i-1] \o seqs[i]]
           flat == CHOOSE f : f = Def(f)
<1>1. Len(seqs) = 1 /\ seqs[1] = s
  OBVIOUS
<1>2. FlattenSeq(seqs) = flat[Len(seqs)]
  BY <1>1 DEF FlattenSeq
<1>3. \E f : f = Def(f)
  <2> DEFINE f == [i \in 1 .. Len(seqs) |-> s]
  <2>1. f = Def(f)
    BY <1>1
  <2> QED
    BY <2>1
<1>4. flat = Def(flat)
  BY <1>3
<1> QED
  BY <1>1, <1>2, <1>4
LEMMA FoldNone == \A b : FoldLeft(SelectSub, b, <<>>) = b
<1> SUFFICES ASSUME NEW b PROVE FoldLeft(SelectSub, b, <<>>) = b
  OBVIOUS
<1>1. DOMAIN <<>> = {}
  OBVIOUS
<1> QED
  BY <1>1 DEF FoldLeft, MapThenFoldSet

LEMMA FoldOne == \A b, x : FoldLeft(SelectSub, b, <<x>>) = SelectSub(b, x)
<1> SUFFICES ASSUME NEW b, NEW x PROVE FoldLeft(SelectSub, b, <<x>>) = SelectSub(b, x)
  OBVIOUS
<1> DEFINE S == DOMAIN <<x>>
           Def(f) == [s \in SUBSET S |->
                         IF s = {} THEN b
                         ELSE LET y == Max(s) IN SelectSub(f[s \ {y}], <<x>>[y])]
           iter == CHOOSE f : f = Def(f)
<1>1. FoldLeft(SelectSub, b, <<x>>) = iter[S]
  BY DEF FoldLeft, MapThenFoldSet
<1>2. S = {1} /\ SUBSET S = {{}, {1}} /\ <<x>>[1] = x
  OBVIOUS
<1>3. Max({1}) = 1
  BY DEF Max
<1>4. \E f : f = Def(f)
  <2> DEFINE f == [s \in SUBSET S |-> IF s = {} THEN b ELSE SelectSub(b, x)]
  <2>1. ASSUME NEW s \in SUBSET S, s # {}
        PROVE  SelectSub(f[s \ {Max(s)}], <<x>>[Max(s)]) = SelectSub(b, x)
    <3>1. s = {1} /\ s \ {Max(s)} = {}
      BY <1>2, <1>3, <2>1
    <3>2. f[{}] = b
      OBVIOUS
    <3> HIDE DEF f
    <3> QED
      BY <1>2, <1>3, <3>1, <3>2
  <2>2. f = Def(f)
    BY <2>1, Zenon
  <2> QED
    BY <2>2
<1>5. iter = Def(iter)
  BY <1>4
<1> HIDE DEF iter
<1>6. iter[{}] = b
  BY <1>5
<1>7. iter[{1}] = SelectSub(iter[{1} \ {Max({1})}], <<x>>[Max({1})])
  BY <1>2, <1>5, Zenon
<1>8. {1} \ {Max({1})} = {}
  BY <1>3
<1>9. iter[{1}] = SelectSub(b, x)
  BY <1>2, <1>3, <1>6, <1>7, <1>8
<1> HIDE DEF S
<1> QED
  BY <1>1, <1>2, <1>9

LEMMA SelectedDef ==
    ASSUME NEW path, path.parts \in Seq(Part), NEW v
    PROVE  LET nodes == Selected(path, v)
           IN  /\ nodes[0] = <<v>>
               /\ \A n \in 1 .. Len(path.parts) :
                      nodes[n] = SelectPart(nodes[n - 1], path.parts[n])
<1> DEFINE N == Len(path.parts)
           Def(f, k) == [n \in 0 .. k |->
                            IF n = 0 THEN <<v>> ELSE SelectPart(f[n - 1], path.parts[n])]
           T == {k \in 0 .. N : ~\E f : f = Def(f, k)}
<1>1. N \in Nat
  OBVIOUS
<1>2. T = {}
  <2> SUFFICES ASSUME T # {} PROVE FALSE
    OBVIOUS
  <2> T \subseteq Nat
    BY <1>1
  <2>1. PICK k \in T : \A y \in T : ~(<<y, k>> \in OpToRel(<, Nat))
    BY WFMin, NatLessThanWellFounded
  <2>2. \A y \in T : ~(y < k)
    BY <2>1 DEF OpToRel
  <2>3. k # 0
    <3> DEFINE f == [n \in 0 .. 0 |-> <<v>>]
    <3>1. f = Def(f, 0)
      OBVIOUS
    <3> QED
      BY <3>1
  <2>4. k - 1 \in 0 .. N /\ k - 1 \notin T
    <3>1. k \in 0 .. N
      OBVIOUS
    <3>2. k - 1 \in 0 .. N /\ k - 1 < k
      BY <1>1, <2>3, <3>1
    <3> HIDE DEF T
    <3> QED
      BY <2>2, <3>2
  <2>5. PICK g : g = Def(g, k - 1)
    BY <2>4
  <2> DEFINE f == [n \in 0 .. k |-> IF n = k THEN SelectPart(g[k - 1], path.parts[k]) ELSE g[n]]
  <2>6. ASSUME NEW n \in 0 .. k
        PROVE  f[n] = IF n = 0 THEN <<v>> ELSE SelectPart(f[n - 1], path.parts[n])
    <3>1. CASE n = k
      <4>1. n - 1 \in 0 .. k /\ n - 1 # k
        BY <2>3, <3>1
      <4> QED
        BY <2>3, <3>1, <4>1
    <3>2. CASE n # k
      <4>1. n \in 0 .. k - 1 /\ f[n] = g[n]
        BY <2>4, <3>2
      <4>2. g[n] = IF n = 0 THEN <<v>> ELSE SelectPart(g[n - 1], path.parts[n])
        BY <2>5, <4>1
      <4>3. n # 0 => n - 1 \in 0 .. k /\ n - 1 # k
        BY <4>1
      <4> QED
        BY <4>1, <4>2, <4>3
    <3> QED
      BY <3>1, <3>2
  <2>7. f = Def(f, k)
    BY <2>6, Zenon
  <2> QED
    BY <2>7
<1>3. \E f : f = Def(f, N)
  BY <1>1, <1>2
<1> DEFINE nodes == CHOOSE f : f = Def(f, N)
<1>4. nodes = Def(nodes, N)
  BY <1>3
<1>5. Selected(path, v) = nodes
  BY DEF Selected
<1> HIDE DEF nodes
<1>6. \A n \in 0 .. N : nodes[n] = IF n = 0 THEN <<v>>
                                    ELSE SelectPart(nodes[n - 1], path.parts[n])
  BY <1>4, Zenon
<1>7. nodes[0] = <<v>>
  BY <1>1, <1>6
<1>8. \A n \in 1 .. N : nodes[n] = SelectPart(nodes[n - 1], path.parts[n])
  BY <1>1, <1>6
<1> QED
  BY <1>5, <1>7, <1>8

\* A part with at most one subscript.
LEMMA AtMostOne ==
    ASSUME NEW S, NEW s \in Seq(S), Len(s) <= 1
    PROVE  s = <<>> \/ \E x \in S : s = <<x>>
<1> DEFINE n == Len(s)
<1>1. n \in Nat /\ n <= 1 /\ (n = 0 => s = <<>>)
  OBVIOUS
<1>2. n = 1 => s[1] \in S
  OBVIOUS
<1>3. n = 1 => s = <<s[1]>>
  OBVIOUS
<1> HIDE DEF n
<1>4. n = 0 \/ n = 1
  BY <1>1
<1> QED
  BY <1>1, <1>2, <1>3, <1>4

LEMMA PartSubs ==
    ASSUME NEW part \in Part, Len(part.subs) <= 1
    PROVE  \/ part.subs = <<>>
           \/ part.subs = <<All>>
           \/ \E k \in Int : part.subs = <<Nth(k)>>
<1>1. part.subs \in Seq({All} \cup [at : Int])
  BY DEF Part
<1>2. \A x \in [at : Int] : x.at \in Int /\ x = Nth(x.at)
  BY DEF Nth
<1> QED
  BY <1>1, <1>2, AtMostOne

LEMMA NthIsNotAll ==
    \A k : /\ Nth(k) # All /\ Nth(k).at = k
           /\ <<Nth(k)>> # <<>> /\ <<Nth(k)>> # <<All>>
           /\ <<Nth(k)>>[1] = Nth(k) /\ Len(<<Nth(k)>>) = 1
  BY DEF Nth, All

LEMMA SelectNone ==
    ASSUME NEW part \in Part, Len(part.subs) <= 1
    PROVE  SelectPart(<<>>, part) = <<>>
<1>1. SelectKey(<<>>, part.key) = <<>>
  BY FlattenNone DEF SelectKey
<1>2. \A sub : SelectSub(<<>>, sub) = <<>>
  BY FlattenNone DEF SelectSub
<1>3. part.subs = <<>> \/ \E x : part.subs = <<x>>
  BY PartSubs
<1>4. CASE part.subs = <<>>
  BY <1>1, <1>4, FoldNone DEF SelectPart
<1>5. ASSUME NEW x, part.subs = <<x>> PROVE SelectPart(<<>>, part) = <<>>
  <2>1. FoldLeft(SelectSub, <<>>, <<x>>) = <<>>
    BY <1>2, FoldOne, Zenon
  <2> QED
    BY <1>1, <1>5, <2>1, Zenon DEF SelectPart
<1> QED
  BY <1>3, <1>4, <1>5

LEMMA SelectOne ==
    ASSUME NEW part \in Part, NEW v
    PROVE  LET found == Entries(v, part.key)
               next == SelectPart(<<v>>, part)
           IN  /\ part.subs = <<>> => next = found
               /\ \A x : part.subs = <<x>> /\ found = <<>> => next = <<>>
               /\ \A w : found = <<w>> =>
                      /\ part.subs = <<All>> => next = Children(w)
                      /\ \A k : part.subs = <<Nth(k)>> => next = Items(w, k)
<1> DEFINE found == Entries(v, part.key)
           next == SelectPart(<<v>>, part)
<1>1. SelectKey(<<v>>, part.key) = found
  <2>1. [i \in DOMAIN <<v>> |-> Entries(<<v>>[i], part.key)] = <<found>>
    OBVIOUS
  <2> QED
    BY <2>1, FlattenOne, Zenon DEF SelectKey
<1> HIDE DEF found
<1>2. part.subs = <<>> => next = found
  BY <1>1, FoldNone DEF SelectPart
<1>3. ASSUME NEW x, part.subs = <<x>> PROVE next = SelectSub(found, x)
  <2>1. FoldLeft(SelectSub, found, <<x>>) = SelectSub(found, x)
    BY FoldOne, Zenon
  <2> QED
    BY <1>1, <1>3, <2>1, Zenon DEF SelectPart
<1>4. \A x : SelectSub(<<>>, x) = <<>>
  BY FlattenNone DEF SelectSub
<1>5. ASSUME NEW w, NEW x
      PROVE  SelectSub(<<w>>, x) = IF x = All THEN Children(w) ELSE Items(w, x.at)
  <2> DEFINE one == IF x = All THEN Children(w) ELSE Items(w, x.at)
  <2>1. [i \in DOMAIN <<w>> |->
            IF x = All THEN Children(<<w>>[i]) ELSE Items(<<w>>[i], x.at)] = <<one>>
    OBVIOUS
  <2> QED
    BY <2>1, FlattenOne, Zenon DEF SelectSub
<1> HIDE DEF next
<1>6. ASSUME NEW x, part.subs = <<x>>, found = <<>> PROVE next = <<>>
  BY <1>3, <1>4, <1>6, Zenon
<1>7. ASSUME NEW w, found = <<w>>, part.subs = <<All>> PROVE next = Children(w)
  BY <1>3, <1>5, <1>7, Zenon
<1>8. ASSUME NEW w, found = <<w>>, NEW k, part.subs = <<Nth(k)>> PROVE next = Items(w, k)
  <2>1. Nth(k) # All /\ Nth(k).at = k
    BY NthIsNotAll
  <2> QED
    BY <1>3, <1>5, <1>8, <2>1, Zenon
<1> QED
  BY <1>2, <1>6, <1>7, <1>8 DEF found, next

LEMMA ItemSelected ==
    ASSUME NEW w \in Values, NEW k \in Int
    PROVE  LET sel == Items(w, k)
           IN  sel = <<Item(w, k)>> \/ (sel = <<>> /\ Item(w, k) = Null)
<1>1. CASE w.kind # "list"
  BY <1>1 DEF Items, Item
<1>2. CASE w.kind = "list"
  <2>1. w.items \in Seq(Values)
    BY <1>2, RecordsAssumption DEF IsValue, Null, Number
  <2> DEFINE s == w.items
             n == Len(s)
             i == IF k < 0 THEN n + k + 1 ELSE k + 1
             items == IF k < 0 THEN Reverse(s) ELSE s
             j == IF k < 0 THEN -k ELSE k + 1
  <2>2. n \in Nat /\ i \in Int /\ j \in Nat \ {0} /\ DOMAIN s = 1 .. n
    BY <2>1
  <2>3. Item(w, k) = IF i \in 1 .. n THEN s[i] ELSE Null
    BY <1>2, <2>2 DEF Item
  <2>4. items \in Seq(Values) /\ Len(items) = n
    BY <2>1, <2>2 DEF Reverse
  <2>5. Items(w, k) = SubSeq(items, j, Min({j, n}))
    BY <1>2, <2>4 DEF Items
  <2>6. i \in 1 .. n <=> j <= n
    BY <2>2
  <2>7. CASE j <= n
    <3>1. Min({j, n}) = j
      BY <2>2, <2>7 DEF Min
    <3>2. items[j] = s[i]
      BY <2>1, <2>2, <2>7 DEF Reverse
    <3> HIDE DEF items, j, i
    <3>3. Len(SubSeq(items, j, j)) = 1 /\ SubSeq(items, j, j)[1] = items[j]
      BY <2>2, <2>4, <2>7
    <3>4. SubSeq(items, j, j) \in Seq(Values)
      BY <2>2, <2>4, <2>7
    <3>5. \A t \in Seq(Values) : Len(t) = 1 => t = <<t[1]>>
      OBVIOUS
    <3>6. SubSeq(items, j, j) = <<items[j]>>
      BY <3>3, <3>4, <3>5, Zenon
    <3> QED
      BY <2>3, <2>5, <2>6, <2>7, <3>1, <3>2, <3>6
  <2>8. CASE ~(j <= n)
    <3>1. Min({j, n}) = n
      BY <2>2, <2>8 DEF Min
    <3> HIDE DEF items, j, i
    <3>2. SubSeq(items, j, n) = <<>>
      BY <2>2, <2>4, <2>8
    <3> QED
      BY <2>3, <2>5, <2>6, <2>8, <3>1, <3>2
  <2> QED
    BY <2>7, <2>8
<1> QED
  BY <1>1, <1>2

-----------------------------------------------------------------------------
(* The inductive invariant.                                                *)

USE DEF Threshold

LEMMA InitInv == Init => RecordInv
<1> SUFFICES ASSUME Init PROVE RecordInv
  OBVIOUS
<1> USE RecordsAssumption DEF Init
<1>1. Null \in Field
  BY DEF Field
<1>2. Len(rules) \in Nat
  <2>1. CASE rules \in RuleSets
    BY <2>1
  <2>2. CASE \E n \in 1 .. MaxMatches : rules = [i \in 1 .. n |-> Selector]
    <3>1. PICK n \in 1 .. MaxMatches : rules = [i \in 1 .. n |-> Selector]
      BY <2>2
    <3>2. n \in Nat /\ rules \in Seq({Selector})
      BY <3>1
    <3> QED
      BY <3>2
  <2> QED
    BY <2>1, <2>2
<1>3. TypeOK
  BY <1>1, <1>2 DEF TypeOK
<1>4. LoopInv
  BY <1>2 DEF LoopInv
<1>5. CountInv
  <2>1. ContentsUpTo(0) = {}
    BY DEF ContentsUpTo
  <2> QED
    BY <2>1, FS_EmptySet DEF CountInv
<1>6. LostInv
  BY <1>2 DEF LostInv
<1>7. ASixthIsAccepted
  BY DEF ASixthIsAccepted
<1>8. OneOutInv
  BY DEF OneOutInv, ContentsUpTo
<1> QED
  BY <1>3, <1>4, <1>5, <1>6, <1>7, <1>8 DEF RecordInv

\* A field is added: all the parts that do not look into it.
LEMMA AddFieldInv ==
  ASSUME RecordInv, NEW v \in Field, AddField(v),
         pc \in {"extract", "resolve"}, Len(fields) < Len(rules),
         type = "json_path" /\ Lost(rules[Len(fields) + 1]) => v = Null,
         UNCHANGED <<input, weights, verdict>>, current' = current, rest' = rest
  PROVE  RecordInv'
<1> USE DEF RecordInv, AddField, input, weights
<1>1. /\ fields' \in Seq(Field)
      /\ Len(fields') = Len(fields) + 1
      /\ DOMAIN fields' = 1 .. Len(fields) + 1
      /\ \A i \in DOMAIN fields : fields'[i] = fields[i]
      /\ fields'[Len(fields) + 1] = v
      /\ Len(fields) \in Nat /\ DOMAIN fields = 1 .. Len(fields)
  BY DEF TypeOK
<1>2. rules # <<>> /\ Len(rules) \in Nat
  BY <1>1 DEF LoopInv
<1>z. total = 0 /\ filled = 0 /\ quality = 0
  <2>1. total = 0
    BY DEF LoopInv
  <2>2. filled \in 0 .. total /\ quality \in filled .. 100 * filled
    BY DEF TypeOK
  <2> QED
    BY <2>1, <2>2
<1>p. pc' \in {"weigh", "extract"}
  OBVIOUS
<1>3. TypeOK'
  BY <1>1, <1>2, <1>z, <1>p DEF TypeOK
<1>4. LoopInv'
  BY <1>1, <1>2 DEF LoopInv
<1>5. CountInv'
  <2>1. total = 0 /\ total' = 0 /\ filled' = filled
    BY DEF LoopInv
  <2>2. ContentsUpTo(0) = {} /\ ContentsUpTo(0)' = {}
    BY DEF ContentsUpTo
  <2> QED
    BY <2>1, <2>2 DEF CountInv
<1>6. LostInv'
  BY <1>1, <1>2 DEF LostInv, LoopInv
<1>7. ASixthIsAccepted'
  BY DEF ASixthIsAccepted, LoopInv
<1>8. OneOutInv'
  BY <1>z DEF OneOutInv, ContentsUpTo
<1> QED
  BY <1>3, <1>4, <1>5, <1>6, <1>7, <1>8

\* The value behind a key and its subscripts.
LEMMA BaseType ==
  ASSUME current \in Values, NEW part
  PROVE  /\ Base(part) \in Values
         /\ current = Null => Base(part) = Null
         /\ part.key = Garbled => Base(part) = Null
<1>1. Base(part) \in Values
  BY EntryType DEF Base
<1>2. current = Null => Base(part) = Null
  BY DEF Base, Entry, Null
<1>3. ASSUME part.key = Garbled PROVE Base(part) = Null
  <2>1. IsValue(current)
    BY RecordsAssumption
  <2>2. current.kind = "dict" => Garbled \notin DOMAIN current.at
    BY <2>1 DEF IsValue, Null, Number
  <2>3. Garbled # ""
    BY DEF Garbled
  <2> QED
    BY <1>3, <2>2, <2>3 DEF Base, Entry
<1> QED
  BY <1>1, <1>2, <1>3

\* One part of a path: the result is a field, a value if the path goes on, and
\* null stays null.
LEMMA PartType ==
  ASSUME current \in Values, NEW part,
         Key(part) \/ Wildcard(part) \/ Index(part) \/ Subscripts(part)
  PROVE  /\ current' \in Field
         /\ rest' # <<>> => current' \in Values
         /\ current = Null \/ part.key = Garbled => current' = Null
<1> DEFINE b == Base(part)
<1>1. /\ b \in Values /\ Null \in Values /\ Values \subseteq Field
      /\ current = Null \/ part.key = Garbled => b = Null
  BY BaseType, RecordsAssumption DEF Field
<1> HIDE DEF b
<1>2. CASE Key(part)
  BY <1>1, <1>2 DEF Key, GoOn, b
<1>3. CASE Wildcard(part)
  <2>1. List(<<b>>) \in Field
    BY <1>1 DEF Field
  <2>2. rest' = <<>> /\ current' = (IF b.kind \in {"list", "null"} THEN b ELSE List(<<b>>))
    BY <1>3 DEF Wildcard, Return, b
  <2>3. b = Null => b.kind = "null"
    BY DEF Null
  <2> QED
    BY <1>1, <2>1, <2>2, <2>3
<1>4. CASE Index(part)
  <2>1. current' = Item(b, part.subs[1].at)
    BY <1>4 DEF Index, GoOn, b
  <2>2. b = Null => Item(b, part.subs[1].at) = Null
    BY DEF Item, Null
  <2> QED
    BY <1>1, <2>1, <2>2, ItemType
<1>5. CASE Subscripts(part)
  BY <1>1, <1>5 DEF Subscripts, Return
<1> QED
  BY <1>2, <1>3, <1>4, <1>5

LEMMA ExtractNothingInv == RecordInv /\ ExtractNothing => RecordInv'
<1> SUFFICES ASSUME RecordInv, ExtractNothing PROVE RecordInv'
  OBVIOUS
<1> USE DEF RecordInv, ExtractNothing, input, weights
<1>1. Str(page.len) \in Field
  BY RecordsAssumption DEF TypeOK, Field, Str
<1>2. /\ fields' \in Seq(Field) /\ Len(fields') \in Nat
      /\ \/ rules = <<>> /\ Len(fields') = 1
         \/ rules # <<>> /\ fields' = fields
  <2>1. fields \in Seq(Field)
    BY DEF TypeOK
  <2>2. CASE rules = <<>> /\ fields' = <<Str(page.len)>>
    BY <1>1, <2>2
  <2>3. CASE rules # <<>> /\ fields' = fields
    BY <2>1, <2>3
  <2> QED
    BY <2>2, <2>3
<1>3. total = 0 /\ filled = 0 /\ quality = 0
  BY DEF TypeOK, LoopInv
<1>4. TypeOK'
  BY <1>2, <1>3 DEF TypeOK
<1>5. LoopInv'
  BY DEF LoopInv
<1>6. CountInv'
  <2>1. ContentsUpTo(0) = {} /\ ContentsUpTo(0)' = {}
    BY DEF ContentsUpTo
  <2> QED
    BY <1>3, <2>1 DEF CountInv
<1>7. LostInv'
  BY <1>2 DEF LostInv
<1>8. ASixthIsAccepted'
  BY DEF ASixthIsAccepted, LoopInv
<1>9. OneOutInv'
  BY <1>3 DEF OneOutInv, ContentsUpTo
<1> QED
  BY <1>4, <1>5, <1>6, <1>7, <1>8, <1>9

\* The parts of a path, and the other fields of its record.
LEMMA PathTypes ==
  ASSUME NEW path \in Path
  PROVE  /\ path \in [dollar : BOOLEAN, dot : BOOLEAN, parts : Seq(Part)]
         /\ path.parts \in Seq(Part)
<1>1. path \in [dollar : BOOLEAN, dot : BOOLEAN, parts : Seq(Part)]
  BY Zenon DEF Path
<1> QED
  BY <1>1

LEMMA NextRuleInv == RecordInv /\ NextRule => RecordInv'
<1> SUFFICES ASSUME RecordInv, NextRule PROVE RecordInv'
  OBVIOUS
<1> USE DEF RecordInv, NextRule, input, weights
<1> DEFINE path == rules[Len(fields) + 1]
<1>1. /\ path \in Path /\ Len(fields) \in Nat
      /\ page.json \in Values /\ Null \in Values /\ Values \subseteq Field
  BY RecordsAssumption DEF LoopInv, TypeOK, Field
<1>2. IF path.dollar THEN current' = page.json /\ rest' = PartsOf(path)
                     ELSE current' = Null /\ rest' = <<>>
  OBVIOUS
<1>3. TypeOK'
  BY <1>1, <1>2 DEF TypeOK
<1>4. LoopInv'
  BY <1>1, <1>2 DEF LoopInv
<1>5. CountInv' /\ OneOutInv'
  BY DEF CountInv, OneOutInv, ContentsUpTo
<1>6. Lost(path) => current' = Null \/ (rest' # <<>> /\ Head(rest').key = Garbled)
  <2>1. SUFFICES ASSUME path.dollar, ~path.dot, path.parts # <<>>, path.parts[1].key = ""
                 PROVE rest' # <<>> /\ Head(rest').key = Garbled
    BY <1>2 DEF Lost
  <2>2. path.parts \in Seq(Part) /\ 1 \in DOMAIN path.parts
    <3> HIDE DEF path
    <3>1. path.parts \in Seq(Part)
      BY <1>1, PathTypes, Zenon
    <3>2. \A parts \in Seq(Part) : parts # <<>> => 1 \in DOMAIN parts
      OBVIOUS
    <3> QED
      BY <2>1, <3>1, <3>2, Zenon
  <2>3. rest' = [path.parts EXCEPT ![1] = [key |-> Garbled, subs |-> Tail(path.parts[1].subs)]]
    BY <1>2, <2>1 DEF PartsOf, Beheaded
  <2>4. rest'[1].key = Garbled /\ 1 \in DOMAIN rest'
    BY <2>2, <2>3
  <2> QED
    BY <2>4
<1>7. LostInv'
  BY <1>6 DEF LostInv
<1>8. ASixthIsAccepted'
  BY DEF ASixthIsAccepted, LoopInv
<1> QED
  BY <1>3, <1>4, <1>5, <1>7, <1>8

LEMMA ResolvePartInv == RecordInv /\ ResolvePart => RecordInv'
<1> SUFFICES ASSUME RecordInv, ResolvePart PROVE RecordInv'
  OBVIOUS
<1> USE DEF RecordInv, input, weights
<1> DEFINE part == Head(rest)
<1>1. pc = "resolve" /\ rest # <<>> /\ UNCHANGED <<input, pc, fields, weights, verdict>>
  BY DEF ResolvePart
<1>2. Key(part) \/ Wildcard(part) \/ Index(part) \/ Subscripts(part)
  BY DEF ResolvePart
<1>3. current \in Values
  BY <1>1 DEF LoopInv
<1>4. /\ current' \in Field
      /\ rest' # <<>> => current' \in Values
      /\ current = Null \/ part.key = Garbled => current' = Null
  BY <1>2, <1>3, PartType
<1> HIDE DEF part
<1>5. TypeOK'
  BY <1>1, <1>4 DEF TypeOK
<1>6. LoopInv'
  BY <1>1, <1>4 DEF LoopInv
<1>7. CountInv' /\ OneOutInv'
  BY <1>1 DEF CountInv, OneOutInv, ContentsUpTo
<1>8. LostInv'
  BY <1>1, <1>4 DEF LostInv, part
<1>9. ASixthIsAccepted'
  BY <1>1 DEF ASixthIsAccepted, LoopInv
<1> QED
  BY <1>5, <1>6, <1>7, <1>8, <1>9

LEMMA FieldDoneInv == RecordInv /\ FieldDone => RecordInv'
<1> SUFFICES ASSUME RecordInv, FieldDone PROVE RecordInv'
  OBVIOUS
<1>1. Lost(rules[Len(fields) + 1]) => current = Null
  BY DEF RecordInv, FieldDone, LostInv, LoopInv, TypeOK
<1>2. current \in Field /\ Len(fields) < Len(rules)
  BY DEF RecordInv, FieldDone, LoopInv, TypeOK
<1> QED
  BY <1>1, <1>2, AddFieldInv DEF FieldDone

LEMMA MatchRuleInv == RecordInv /\ MatchRule => RecordInv'
<1> SUFFICES ASSUME RecordInv, MatchRule PROVE RecordInv'
  OBVIOUS
<1>1. PICK v \in {Null} \cup {Str(n) : n \in Lengths} : AddField(v)
  BY DEF MatchRule
<1>2. v \in Field
  BY RecordsAssumption DEF Field, Str
<1>3. type # "json_path"
  BY DEF MatchRule
<1> QED
  BY <1>1, <1>2, <1>3, AddFieldInv DEF MatchRule

LEMMA WeighFieldInv == RecordInv /\ WeighField => RecordInv'
<1> SUFFICES ASSUME RecordInv, WeighField PROVE RecordInv'
  OBVIOUS
<1> USE DEF RecordInv, WeighField, input
<1> DEFINE v == fields[total + 1]
<1>1. total \in Nat /\ filled \in Nat /\ quality \in Nat /\ v \in Field
  <2>1. fields \in Seq(Field) /\ Len(fields) \in Nat
    BY DEF TypeOK
  <2>2. total \in Nat /\ filled \in Nat /\ quality \in Nat
    BY <2>1 DEF TypeOK
  <2>3. total + 1 \in 1 .. Len(fields)
    BY <2>1, <2>2
  <2> QED
    BY <2>1, <2>2, <2>3
<1>2. /\ filled' = IF HasContent(v) THEN filled + 1 ELSE filled
      /\ quality' = IF HasContent(v) THEN quality + Quality(v) ELSE quality
      /\ HasContent(v) => Quality(v) \in 1 .. 100
  BY <1>1, FilledHasContent, QualityBounds
<1>3. TypeOK'
  <2>1. filled <= total /\ filled <= quality /\ quality <= 100 * filled
    BY <1>1 DEF TypeOK
  <2>2. fields \in Seq(Field) /\ Len(fields) \in Nat /\ total' \in 0 .. Len(fields)
    BY <1>1 DEF TypeOK
  <2>3. CASE HasContent(v)
    <3> DEFINE w == Quality(v)
    <3>1. w \in 1 .. 100 /\ filled' = filled + 1 /\ quality' = quality + w
      BY <1>2, <2>3
    <3> HIDE DEF w
    <3>2. filled' \in 0 .. total' /\ quality' \in filled' .. 100 * filled'
      BY <1>1, <2>1, <3>1
    <3> QED
      BY <2>2, <3>2 DEF TypeOK
  <2>4. CASE ~HasContent(v)
    <3>1. filled' = filled /\ quality' = quality
      BY <1>2, <2>4
    <3>2. filled' \in 0 .. total' /\ quality' \in filled' .. 100 * filled'
      BY <1>1, <2>1, <3>1
    <3> QED
      BY <2>2, <3>2 DEF TypeOK
  <2> QED
    BY <2>3, <2>4
<1>4. LoopInv'
  BY DEF LoopInv
<1>5. CountInv'
  <2>1. Cardinality(ContentsUpTo(total + 1)) =
            IF HasContent(v) THEN Cardinality(ContentsUpTo(total)) + 1
                             ELSE Cardinality(ContentsUpTo(total))
    BY <1>1, ContentsGrow
  <2>2. ContentsUpTo(total)' = ContentsUpTo(total + 1)
    BY DEF ContentsUpTo
  <2> QED
    BY <1>2, <2>1, <2>2 DEF CountInv
<1>6. LostInv'
  BY DEF LostInv
<1>7. ASixthIsAccepted'
  BY DEF ASixthIsAccepted, LoopInv
<1>8. OneOutInv'
  <2> SUFFICES ASSUME NEW i \in ContentsUpTo(total)'
               PROVE  quality' - Quality(fields[i]) \in filled' - 1 .. 100 * (filled' - 1)
    BY DEF OneOutInv
  <2> DEFINE w == Quality(v)
             x == Quality(fields[i])
  <2>1. i \in 1 .. total + 1 /\ HasContent(fields[i])
    BY DEF ContentsUpTo
  <2>2. CASE i = total + 1
    <3>1. w \in 1 .. 100 /\ filled' = filled + 1 /\ quality' = quality + w /\ x = w
      BY <1>2, <2>1, <2>2
    <3>2. filled <= quality /\ quality <= 100 * filled
      BY <1>1 DEF TypeOK
    <3> HIDE DEF w, x
    <3>3. quality' - x \in filled' - 1 .. 100 * (filled' - 1)
      BY <1>1, <3>1, <3>2
    <3> QED
      BY <3>3 DEF x
  <2>3. CASE i # total + 1
    <3>1. i \in ContentsUpTo(total)
      BY <1>1, <2>1, <2>3 DEF ContentsUpTo
    <3>2. quality - x \in filled - 1 .. 100 * (filled - 1)
      BY <3>1 DEF OneOutInv
    <3>3. CASE HasContent(v)
      <4>1. w \in 1 .. 100 /\ filled' = filled + 1 /\ quality' = quality + w
        BY <1>2, <3>3
      <4>2. fields \in Seq(Field) /\ fields[i] \in Field
        BY <1>1, <2>1, <2>3 DEF TypeOK
      <4>3. x \in 1 .. 100
        BY <2>1, <4>2, FilledHasContent, QualityBounds
      <4> HIDE DEF w, x
      <4>4. quality' - x \in filled' - 1 .. 100 * (filled' - 1)
        BY <1>1, <3>2, <4>1, <4>3
      <4> QED
        BY <4>4 DEF x
    <3>4. CASE ~HasContent(v)
      BY <1>2, <3>2, <3>4
    <3> QED
      BY <3>3, <3>4
  <2> QED
    BY <2>2, <2>3
<1> QED
  BY <1>3, <1>4, <1>5, <1>6, <1>7, <1>8

LEMMA JudgeInv == RecordInv /\ Judge => RecordInv'
<1> SUFFICES ASSUME RecordInv, Judge PROVE RecordInv'
  OBVIOUS
<1> USE DEF RecordInv, Judge, input, weights
<1>1. TypeOK'
  BY DEF TypeOK
<1>2. LoopInv'
  BY DEF LoopInv
<1>3. CountInv' /\ OneOutInv' /\ LostInv'
  BY DEF CountInv, OneOutInv, ContentsUpTo, LostInv
<1>4. Contents' = Contents /\ Contents = ContentsUpTo(total) /\ filled = Cardinality(Contents)
  BY DEF Contents, ContentsUpTo, CountInv
<1>5. /\ total \in Nat /\ filled \in Nat /\ quality \in Nat /\ total = Len(fields)
      /\ fields \in Seq(Field)
  BY ContentsGrow DEF TypeOK, CountInv
<1>6. ASSUME verdict' = "dead", fields # <<>> PROVE 6 * filled < Len(fields)
  <2>1. CASE ~IsValid
    <3>1. \A i \in 1 .. total : ~HasContent(fields[i])
      BY <1>5, <2>1 DEF IsValid, HasContent
    <3>2. Contents = {}
      BY <1>4, <3>1 DEF ContentsUpTo
    <3>3. filled = 0
      BY <1>4, <3>2, FS_EmptySet
    <3> QED
      BY <1>5, <1>6, <3>3
  <2>2. CASE ~(Score(total, filled, quality) >= Threshold)
    <3>1. ASSUME 6 * filled >= total PROVE FALSE
      <4>1. total > 0 /\ filled > 0
        BY <1>5, <1>6, <3>1
      <4> QED
        BY <1>5, <2>2, <3>1, <4>1, SixthScores
    <3> QED
      BY <1>5, <3>1
  <2> QED
    BY <1>6, <2>1, <2>2
<1>7. ASSUME verdict' = "accepted" PROVE Contents # {}
  <2>1. Score(total, filled, quality) >= Threshold
    BY <1>7
  <2>2. filled # 0
    BY <2>1 DEF Score
  <2> QED
    BY <1>4, <2>2, FS_EmptySet
<1>8. ASixthIsAccepted'
  BY <1>4, <1>6, <1>7 DEF ASixthIsAccepted
<1> QED
  BY <1>1, <1>2, <1>3, <1>8

-----------------------------------------------------------------------------
(* Documented paths.                                                       *)

\* Where a wildcard stands in a documented path: nowhere but at its end.
LEMMA DocumentedPart ==
    ASSUME NEW path \in Path, IsDocumented(path), NEW i \in 1 .. Len(path.parts)
    PROVE  LET part == path.parts[i]
           IN  /\ part \in Part
               /\ part.key # "" /\ Len(part.subs) <= 1
               /\ part.subs = <<All>> => i = Len(path.parts) /\ ~IsDefinite(path)
               /\ i = Len(path.parts) /\ part.subs # <<All>> => IsDefinite(path)
<1> DEFINE parts == path.parts
           n == Len(parts)
           IsSimple(part) == part.key # "" /\ Len(part.subs) <= 1 /\ part.subs # <<All>>
<1>1. parts \in Seq(Part) /\ n \in Nat /\ parts[i] \in Part /\ DOMAIN parts = 1 .. n
  BY PathTypes
<1>2. IsDefinite(path) <=> \A k \in 1 .. n : IsSimple(parts[k])
  BY <1>1 DEF IsDefinite
<1>3. IsListing(path) =>
          /\ n > 0 /\ parts[n].key # "" /\ parts[n].subs = <<All>>
          /\ \A k \in 1 .. n - 1 : IsSimple(parts[k])
  <2> SUFFICES ASSUME IsListing(path)
               PROVE  /\ n > 0 /\ parts[n].key # "" /\ parts[n].subs = <<All>>
                      /\ \A k \in 1 .. n - 1 : IsSimple(parts[k])
    OBVIOUS
  <2> DEFINE front == [path EXCEPT !.parts = Front(path.parts)]
  <2>1. n > 0
    <3>1. parts # <<>>
      BY Zenon DEF IsListing
    <3> QED
      BY <1>1, <3>1
  <2>2. front.parts = SubSeq(parts, 1, n - 1)
    BY PathTypes DEF Front
  <2>3. /\ DOMAIN front.parts = 1 .. n - 1
        /\ \A k \in 1 .. n - 1 : front.parts[k] = parts[k]
    BY <1>1, <2>1, <2>2
  <2>4. IsDefinite(front)
    BY DEF IsListing
  <2> HIDE DEF front
  <2>5. \A k \in 1 .. n - 1 : IsSimple(front.parts[k])
    BY <2>3, <2>4, Zenon DEF IsDefinite
  <2>6. \A k \in 1 .. n - 1 : IsSimple(parts[k])
    BY <2>3, <2>5, Zenon
  <2> QED
    BY <2>1, <2>6, Zenon DEF IsListing, Last
<1> HIDE DEF parts
<1>4. Len(<<All>>) = 1
  OBVIOUS
<1> HIDE DEF IsSimple, n
<1>5. \A part : IsSimple(part) => part.key # "" /\ Len(part.subs) <= 1 /\ part.subs # <<All>>
  BY Zenon DEF IsSimple
<1>6. i \in 1 .. n
  BY DEF n, parts
<1>7. CASE IsDefinite(path)
  <2>1. IsSimple(parts[i])
    BY <1>2, <1>6, <1>7
  <2> QED
    BY <1>1, <1>5, <1>7, <2>1, Zenon DEF parts
<1>8. CASE IsListing(path)
  <2>1. ~IsSimple(parts[n])
    BY <1>3, <1>5, <1>8, Zenon
  <2>2. ~IsDefinite(path)
    <3>1. n > 0
      BY <1>3, <1>8, Zenon
    <3>2. n \in 1 .. n
      BY <1>1, <3>1
    <3> QED
      BY <1>2, <2>1, <3>2, Zenon
  <2>3. CASE i = n
    <3>1. parts[i].subs = <<All>>
      BY <1>3, <1>8, <2>3, Zenon
    <3>2. Len(parts[i].subs) <= 1
      BY <1>4, <3>1
    <3> QED
      BY <1>1, <1>3, <1>8, <2>2, <2>3, <3>2, Zenon DEF n, parts
  <2>4. CASE i # n
    <3>1. i \in 1 .. n - 1
      BY <1>1, <1>6, <2>4
    <3>2. IsSimple(parts[i])
      BY <1>3, <1>8, <3>1, Zenon
    <3> QED
      BY <1>1, <1>5, <2>4, <3>2, Zenon DEF n, parts
  <2> QED
    BY <2>3, <2>4
<1> QED
  BY <1>7, <1>8 DEF IsDocumented

LEMMA NullFinds ==
    /\ \A k : Item(Null, k) = Null
    /\ \A key : Entry(Null, key) = Null /\ Entries(Null, key) = <<>>
  BY DEF Item, Entry, Entries, Null

LEMMA NullKind ==
    \A v \in Values : (v.kind = "null" <=> v = Null) /\ (v.kind = "list" => v = List(v.items))
<1> SUFFICES ASSUME NEW v \in Values
             PROVE  (v.kind = "null" <=> v = Null) /\ (v.kind = "list" => v = List(v.items))
  OBVIOUS
<1>1. IsValue(v)
  BY RecordsAssumption
<1> QED
  BY <1>1 DEF IsValue, Null, Number

\* What the key of a part finds in the node that is current.
LEMMA KeySelects ==
    ASSUME current \in Values, NEW part, part.key # ""
    PROVE  /\ Base(part) \in Values
           /\ Found(Base(part), Entries(current, part.key))
           /\ current = Null => Base(part) = Null
<1>1. Base(part) \in Values /\ Base(part) = Entry(current, part.key)
  BY BaseType DEF Base
<1>2. Found(Entry(current, part.key), Entries(current, part.key))
  BY DEF Found, Entry, Entries
<1> QED
  BY <1>1, <1>2, NullFinds

\* Which of its cases the loop takes for a part.
LEMMA PartCases ==
    ASSUME NEW part, Key(part) \/ Wildcard(part) \/ Index(part) \/ Subscripts(part)
    PROVE  /\ part.subs = <<>> => Key(part)
           /\ part.subs = <<All>> => Wildcard(part)
           /\ \A k : part.subs = <<Nth(k)>> => Index(part)
<1>1. <<>> # <<All>> /\ Len(<<>>) = 0 /\ Len(<<All>>) = 1 /\ <<All>>[1] = All /\ <<All>> # <<>>
  OBVIOUS
<1>2. part.subs = <<>> => ~Wildcard(part) /\ ~Index(part) /\ ~Subscripts(part)
  BY <1>1 DEF Wildcard, Index, Subscripts
<1>3. part.subs = <<All>> => ~Key(part) /\ ~Index(part) /\ ~Subscripts(part)
  BY <1>1 DEF Key, Index, Subscripts
<1>4. ASSUME NEW k, part.subs = <<Nth(k)>>
      PROVE  ~Key(part) /\ ~Wildcard(part) /\ ~Subscripts(part)
  BY <1>4, NthIsNotAll DEF Key, Wildcard, Subscripts
<1> QED
  BY <1>2, <1>3, <1>4, Zenon

\* What a part selects follows from what its key finds.
LEMMA SelectFound ==
    ASSUME NEW part \in Part, Len(part.subs) <= 1, NEW v, NEW nodes, Found(v, nodes),
           NEW b, Found(b, Entries(v, part.key)), v = Null => b = Null
    PROVE  LET next == SelectPart(nodes, part)
           IN  /\ part.subs = <<>> => Found(b, next)
               /\ part.subs = <<All>> => next = Children(b) \/ (next = <<>> /\ b = Null)
               /\ \A k : part.subs = <<Nth(k)>> =>
                      next = Items(b, k) \/ (next = <<>> /\ b = Null)
<1> DEFINE next == SelectPart(nodes, part)
           found == Entries(v, part.key)
<1>1. part.subs = <<>> \/ \E x : part.subs = <<x>>
  BY PartSubs
<1>2. CASE nodes = <<>> /\ v = Null
  <2>1. next = <<>> /\ b = Null
    BY <1>2, SelectNone
  <2> QED
    BY <2>1, Zenon DEF Found
<1>3. CASE nodes = <<v>> /\ found = <<>> /\ b = Null
  <2>1. next = <<>>
    BY <1>1, <1>3, SelectOne, Zenon
  <2> QED
    BY <1>3, <2>1, Zenon DEF Found
<1>4. CASE nodes = <<v>> /\ found = <<b>>
  <2>1. /\ part.subs = <<>> => next = <<b>>
        /\ part.subs = <<All>> => next = Children(b)
        /\ \A k : part.subs = <<Nth(k)>> => next = Items(b, k)
    BY <1>4, SelectOne, Zenon
  <2> QED
    BY <2>1, Zenon DEF Found
<1> QED
  BY <1>2, <1>3, <1>4, Zenon DEF Found

\* What a key, and then an index or a wildcard, make of the node that is current.
LEMMA PartSelects ==
    ASSUME NEW part \in Part, part.key # "", Len(part.subs) <= 1,
           current \in Values, NEW nodes, Found(current, nodes),
           Key(part) \/ Wildcard(part) \/ Index(part) \/ Subscripts(part)
    PROVE  LET next == SelectPart(nodes, part)
           IN  /\ part.subs = <<All>> =>
                      rest' = <<>> /\ (current' = List(next) \/ (current' = Null /\ next = <<>>))
               /\ part.subs # <<All>> =>
                      rest' = Tail(rest) /\ Found(current', next)
<1> DEFINE next == SelectPart(nodes, part)
           b == Base(part)
<1>1. b \in Values /\ Found(b, Entries(current, part.key)) /\ (current = Null => b = Null)
  BY KeySelects
<1>2. /\ part.subs = <<>> => Found(b, next)
      /\ part.subs = <<All>> => next = Children(b) \/ (next = <<>> /\ b = Null)
      /\ \A k : part.subs = <<Nth(k)>> => next = Items(b, k) \/ (next = <<>> /\ b = Null)
  BY <1>1, SelectFound
<1> HIDE DEF next
<1>3. CASE part.subs = <<>>
  <2>1. rest' = Tail(rest) /\ current' = b
    BY <1>3, PartCases DEF Key, GoOn
  <2>2. <<>> # <<All>>
    OBVIOUS
  <2> QED
    BY <1>2, <1>3, <2>1, <2>2, Zenon DEF next
<1>4. CASE part.subs = <<All>>
  <2> HIDE DEF b
  <2>1. rest' = <<>> /\ current' = (IF b.kind \in {"list", "null"} THEN b ELSE List(<<b>>))
    BY <1>4, PartCases DEF Wildcard, Return, b
  <2>2. current' = List(Children(b)) \/ (current' = Null /\ Children(b) = <<>>)
    BY <1>1, <2>1, NullKind DEF Children
  <2>3. b = Null => current' = Null
    BY <1>1, <2>1, NullKind
  <2> QED
    BY <1>2, <1>4, <2>1, <2>2, <2>3, Zenon DEF next
<1>5. ASSUME NEW k \in Int, part.subs = <<Nth(k)>>
      PROVE  part.subs # <<All>> /\ rest' = Tail(rest) /\ Found(current', next)
  <2>1. rest' = Tail(rest) /\ current' = Item(b, k)
    <3>1. Index(part) /\ part.subs[1].at = k
      BY <1>5, PartCases, NthIsNotAll, Zenon
    <3> QED
      BY <3>1, Zenon DEF Index, GoOn
  <2> HIDE DEF b
  <2>2. Found(Item(b, k), Items(b, k))
    BY <1>1, ItemSelected, Zenon DEF Found
  <2>3. b = Null => Item(b, k) = Null
    BY NullFinds, Zenon
  <2>4. Found(Null, <<>>)
    BY Zenon DEF Found
  <2> QED
    BY <1>2, <1>5, <2>1, <2>2, <2>3, <2>4, NthIsNotAll, Zenon
<1> QED
  BY <1>3, <1>4, <1>5, PartSubs, Zenon DEF next

LEMMA FoundHolds ==
    ASSUME NEW path, IsDefinite(path), NEW v,
           Found(v, Selected(path, page.json)[Len(path.parts)])
    PROVE  Holds(v, path)
  BY DEF Holds, Found

LEMMA NextRuleResolves == RecordInv /\ NextRule => ResolveInv'
<1> SUFFICES ASSUME RecordInv, NextRule, IsDocumented(rules[Len(fields) + 1])
             PROVE  ResolveInv'
  BY DEF NextRule, ResolveInv, input
<1> DEFINE path == rules[Len(fields) + 1]
           parts == path.parts
           n == Len(parts)
           nodes == Selected(path, page.json)
<1>1. parts \in Seq(Part)
  <2>1. rules \in Seq(Path) /\ Len(fields) + 1 \in 1 .. Len(rules)
    BY DEF NextRule, RecordInv, TypeOK, LoopInv
  <2>2. path \in Path
    BY <2>1
  <2> QED
    BY <2>2, PathTypes
<1>2. rest' = parts /\ current' = page.json
  BY DEF NextRule, IsDocumented, PartsOf
<1>3. nodes[0] = <<page.json>>
  BY <1>1, SelectedDef
<1>4. UNCHANGED <<page, rules, fields>>
  BY DEF NextRule, input
<1> HIDE DEF parts, nodes
<1>5. n \in Nat /\ n - n \in Nat /\ n - n = 0 /\ parts = SubSeq(parts, 0 + 1, n) /\ DOMAIN parts = 1 .. n
  BY <1>1
<1>6. ASSUME parts = <<>> PROVE Holds(page.json, path)
  <2>1. n = 0
    BY <1>6
  <2>2. IsDefinite(path)
    <3>1. DOMAIN parts = {}
      BY <1>5, <2>1
    <3> QED
      BY <3>1, Zenon DEF IsDefinite, parts
  <2>3. Found(page.json, nodes[n])
    BY <1>3, <2>1, Zenon DEF Found
  <2> HIDE DEF path
  <2> QED
    BY <2>2, <2>3, FoundHolds DEF n, parts, nodes
<1>7. Found(page.json, nodes[n - n])
  BY <1>3, <1>5, Zenon DEF Found
<1> HIDE DEF n
<1>8. /\ Holds(current, path)' <=> Holds(page.json, path)
      /\ Selected(path, page.json)' = nodes
      /\ path' = path
  BY <1>2, <1>4 DEF Holds, nodes, path
<1> QED
  BY <1>2, <1>4, <1>5, <1>6, <1>7, Zenon DEF ResolveInv, Holds, nodes, n, parts

\* A sequence loses its head.
LEMMA SuffixStep ==
    ASSUME NEW S, NEW s \in Seq(S), NEW r, r # <<>>,
           LET n == Len(s) - Len(r) IN n \in Nat /\ r = SubSeq(s, n + 1, Len(s))
    PROVE  LET n == Len(s) - Len(r)
           IN  /\ n \in Nat /\ n + 1 \in 1 .. Len(s)
               /\ Head(r) = s[n + 1]
               /\ Tail(r) = SubSeq(s, (n + 1) + 1, Len(s))
               /\ Len(s) - Len(Tail(r)) = n + 1
               /\ Tail(r) = <<>> => n + 1 = Len(s)
<1> DEFINE n == Len(s) - Len(r)
           l == Len(s)
<1>1. l \in Nat /\ n \in Nat /\ r = SubSeq(s, n + 1, l)
  OBVIOUS
<1> HIDE DEF n, l
<1>2. r \in Seq(S) /\ Len(r) \in Nat \ {0} /\ Len(Tail(r)) = Len(r) - 1
  BY <1>1 DEF l
<1>3. n + 1 \in 1 .. l /\ Len(r) = l - n
  BY <1>1, <1>2 DEF l, n
<1>4. Head(r) = s[n + 1] /\ Tail(r) = SubSeq(s, (n + 1) + 1, l)
  BY <1>1, <1>3, HeadTailOfSubSeq DEF l
<1>5. l - Len(Tail(r)) = n + 1
  BY <1>1, <1>2, <1>3
<1>6. Tail(r) = <<>> => n + 1 = l
  <2>1. Len(<<>>) = 0 /\ l - 0 = l
    BY <1>1
  <2> QED
    BY <1>5, <2>1, Zenon
<1> QED
  BY <1>1, <1>3, <1>4, <1>5, <1>6, Zenon DEF n, l

LEMMA ResolvePartResolves == RecordInv /\ ResolveInv /\ ResolvePart => ResolveInv'
<1> SUFFICES ASSUME RecordInv, ResolveInv, ResolvePart, IsDocumented(rules[Len(fields) + 1])
             PROVE  ResolveInv'
  BY DEF ResolvePart, ResolveInv, input
<1> DEFINE path == rules[Len(fields) + 1]
           parts == path.parts
           len == Len(parts)
           n == len - Len(rest)
           part == Head(rest)
           nodes == Selected(path, page.json)
<1>1. current \in Values /\ pc = "resolve" /\ rest # <<>> /\ UNCHANGED <<page, rules, fields, pc>>
  BY DEF ResolvePart, RecordInv, LoopInv, input
<1>2. path \in Path /\ parts \in Seq(Part)
  <2>1. rules \in Seq(Path) /\ Len(fields) + 1 \in 1 .. Len(rules)
    BY <1>1 DEF RecordInv, TypeOK, LoopInv
  <2>2. path \in Path
    BY <2>1
  <2> QED
    BY <2>2, PathTypes
<1>3. n \in Nat /\ rest = SubSeq(parts, n + 1, len) /\ Found(current, nodes[n])
  BY <1>1 DEF ResolveInv
<1> HIDE DEF parts, nodes, path
<1>4. /\ n + 1 \in 1 .. len /\ n \in Nat /\ part = parts[n + 1]
      /\ Tail(rest) = SubSeq(parts, (n + 1) + 1, len) /\ len - Len(Tail(rest)) = n + 1
      /\ Tail(rest) = <<>> => n + 1 = len
  BY <1>1, <1>2, <1>3, SuffixStep
<1>5. /\ part \in Part /\ part.key # "" /\ Len(part.subs) <= 1
      /\ part.subs = <<All>> => n + 1 = len /\ ~IsDefinite(path)
      /\ n + 1 = len /\ part.subs # <<All>> => IsDefinite(path)
  BY <1>2, <1>4, DocumentedPart DEF path, parts
<1>6. nodes[n + 1] = SelectPart(nodes[n], part)
  <2>1. \A k \in 1 .. len : nodes[k] = SelectPart(nodes[k - 1], parts[k])
    BY <1>2, SelectedDef DEF nodes, parts, len
  <2>2. n + 1 - 1 = n
    BY <1>4
  <2> QED
    BY <1>4, <2>1, <2>2
<1>7. Key(part) \/ Wildcard(part) \/ Index(part) \/ Subscripts(part)
  BY DEF ResolvePart
<1> HIDE DEF part, n, len
<1>8. /\ part.subs = <<All>> =>
             /\ rest' = <<>>
             /\ current' = List(nodes[n + 1]) \/ (current' = Null /\ nodes[n + 1] = <<>>)
      /\ part.subs # <<All>> => rest' = Tail(rest) /\ Found(current', nodes[n + 1])
  BY <1>1, <1>3, <1>5, <1>6, <1>7, PartSelects
<1>9. ResolveInv' <=>
          /\ rest' = <<>> => Holds(current', path)
          /\ rest' # <<>> => /\ len - Len(rest') \in Nat
                             /\ rest' = SubSeq(parts, len - Len(rest') + 1, len)
                             /\ Found(current', nodes[len - Len(rest')])
  <2>1. IsDocumented(path)' /\ path' = path /\ pc' = "resolve" /\ nodes' = nodes
    BY <1>1 DEF path, nodes
  <2>2. Holds(current, path)' <=> Holds(current', path)
    BY <1>1, <2>1 DEF Holds
  <2> QED
    BY <1>1, <2>1, <2>2, Zenon DEF ResolveInv, Found, path, nodes, parts, len
<1>10. CASE part.subs = <<All>>
  <2>1. Holds(current', path)
    BY <1>5, <1>8, <1>10, Zenon DEF Holds, nodes, len, parts
  <2> QED
    BY <1>8, <1>9, <1>10, <2>1, Zenon
<1>11. CASE part.subs # <<All>>
  <2>1. ASSUME rest' = <<>> PROVE Holds(current', path)
    <3>1. IsDefinite(path) /\ n + 1 = len
      BY <1>4, <1>5, <1>8, <1>11, <2>1, Zenon
    <3>2. Found(current', nodes[len])
      BY <1>8, <1>11, <3>1, Zenon
    <3> QED
      BY <3>1, <3>2, FoundHolds DEF nodes, len, parts
  <2>2. n + 1 \in Nat
    BY <1>4
  <2> QED
    BY <1>4, <1>8, <1>9, <1>11, <2>1, <2>2, Zenon
<1> QED
  BY <1>10, <1>11

\* A field that is added holds what it should.
LEMMA FieldsResolve ==
    ASSUME RecordInv, DocumentedPathsResolve, NEW v, AddField(v), UNCHANGED input,
           type = "json_path" /\ IsDocumented(rules[Len(fields) + 1])
               => Holds(v, rules[Len(fields) + 1])
    PROVE  ResolveInv' /\ DocumentedPathsResolve'
<1>1. ResolveInv'
  BY DEF AddField, ResolveInv
<1>2. fields \in Seq(Field) /\ fields' = Append(fields, v) /\ UNCHANGED <<page, type, rules>>
  BY DEF RecordInv, TypeOK, AddField, input
<1> SUFFICES ASSUME NEW i \in DOMAIN fields' \cap DOMAIN rules, type = "json_path",
                    IsDocumented(rules[i])
             PROVE  Holds(fields'[i], rules[i])
  BY <1>1, <1>2 DEF DocumentedPathsResolve, Holds
<1>3. CASE i = Len(fields) + 1
  BY <1>2, <1>3
<1>4. CASE i # Len(fields) + 1
  <2>1. i \in DOMAIN fields /\ fields'[i] = fields[i]
    BY <1>2, <1>4
  <2> QED
    BY <2>1 DEF DocumentedPathsResolve
<1> QED
  BY <1>3, <1>4

LEMMA PathStep == IndInv /\ [Next]_vars => ResolveInv' /\ DocumentedPathsResolve'
<1> SUFFICES ASSUME IndInv, [Next]_vars PROVE ResolveInv' /\ DocumentedPathsResolve'
  OBVIOUS
<1> USE DEF IndInv
<1>1. ASSUME UNCHANGED <<page, type, rules, fields>>, pc' # "resolve" \/ UNCHANGED <<pc, rest, current>>
      PROVE  ResolveInv' /\ DocumentedPathsResolve'
  BY <1>1 DEF ResolveInv, DocumentedPathsResolve, Holds
<1>2. ASSUME UNCHANGED <<page, type, rules, fields>> PROVE DocumentedPathsResolve'
  BY <1>2 DEF DocumentedPathsResolve, Holds
<1>3. CASE ExtractNothing
  <2>1. CASE rules = <<>>
    BY <1>3, <2>1 DEF ExtractNothing, input, ResolveInv, DocumentedPathsResolve
  <2>2. CASE rules # <<>>
    BY <1>1, <1>3, <2>2 DEF ExtractNothing, input
  <2> QED
    BY <2>1, <2>2
<1>4. CASE NextRule
  BY <1>2, <1>4, NextRuleResolves DEF NextRule, input
<1>5. CASE ResolvePart
  BY <1>2, <1>5, ResolvePartResolves DEF ResolvePart, input
<1>6. CASE FieldDone
  <2>1. IsDocumented(rules[Len(fields) + 1]) => Holds(current, rules[Len(fields) + 1])
    BY <1>6 DEF FieldDone, ResolveInv
  <2> QED
    BY <1>6, <2>1, FieldsResolve DEF FieldDone
<1>7. CASE MatchRule
  <2>1. PICK v : AddField(v)
    BY <1>7 DEF MatchRule
  <2> QED
    BY <1>7, <2>1, FieldsResolve DEF MatchRule
<1>8. CASE WeighField \/ Judge
  <2>1. CASE WeighField
    BY <1>1, <2>1 DEF WeighField, input, RecordInv
  <2>2. CASE Judge
    BY <1>1, <2>2 DEF Judge, input
  <2> QED
    BY <1>8, <2>1, <2>2
<1>9. CASE UNCHANGED vars
  BY <1>1, <1>9 DEF vars, input
<1> QED
  BY <1>3, <1>4, <1>5, <1>6, <1>7, <1>8, <1>9 DEF Next

\* The invariant is inductive.
THEOREM Invariance == Spec => []IndInv
<1>1. Init => IndInv
  <2>1. Init => ResolveInv /\ DocumentedPathsResolve
    BY DEF Init, ResolveInv, DocumentedPathsResolve
  <2> QED
    BY <2>1, InitInv DEF IndInv
<1>2. ASSUME RecordInv, UNCHANGED vars PROVE RecordInv'
  BY <1>2 DEF vars, input, weights, RecordInv, TypeOK, LoopInv, CountInv, OneOutInv, LostInv,
              ASixthIsAccepted, Contents, ContentsUpTo
<1>3. IndInv /\ [Next]_vars => IndInv'
  BY <1>2, ExtractNothingInv, NextRuleInv, ResolvePartInv, FieldDoneInv, MatchRuleInv,
     WeighFieldInv, JudgeInv, PathStep DEF IndInv, Next
<1> QED
  BY <1>1, <1>3, PTL DEF Spec

-----------------------------------------------------------------------------
(* What follows.                                                           *)

\* The counters of the validator stay within what it has looked at: filled is at
\* most total, and the quality of each filled field between 0.01 and 1.
THEOREM TypeCorrect == Spec => []TypeOK
<1>1. IndInv => TypeOK
  BY DEF IndInv, RecordInv
<1> QED
  BY Invariance, <1>1, PTL

\* A record is dead-lettered only when fewer than a sixth of its fields hold
\* something, and accepted only when one does, for any page, rules and texts.
THEOREM SixthAccepted == Spec => []ASixthIsAccepted
<1>1. IndInv => ASixthIsAccepted
  BY DEF IndInv, RecordInv
<1> QED
  BY Invariance, <1>1, PTL

\* No page is accepted by rules that all subscript "$" itself.
THEOREM RootLost == Spec => []RootSubscriptsAreLost
<1>1. IndInv => RootSubscriptsAreLost
  <2> SUFFICES ASSUME IndInv, verdict = "accepted", type = "json_path", rules # <<>>,
                      \A i \in DOMAIN rules : Lost(rules[i])
               PROVE FALSE
    BY DEF RootSubscriptsAreLost
  <2>1. PICK i \in 1 .. Len(fields) : HasContent(fields[i])
    BY DEF IndInv, RecordInv, ASixthIsAccepted, Contents, ContentsUpTo
  <2>2. i \in DOMAIN fields /\ i \in DOMAIN rules
    BY DEF IndInv, RecordInv, LostInv, LoopInv, TypeOK
  <2>3. fields[i] = Null
    BY <2>2 DEF IndInv, RecordInv, LostInv
  <2> QED
    BY <2>1, <2>3 DEF HasContent
<1> QED
  BY Invariance, <1>1, PTL

\* A field that holds something costs a record less than 0.198 - 0.6 / fields of
\* its confidence, and nothing at all up to three fields.
THEOREM OneMoreField == Spec => []OneMoreFieldCostsLittle
<1>1. IndInv => OneMoreFieldCostsLittle
  <2> SUFFICES ASSUME IndInv, pc = "done", NEW i \in Contents
               PROVE  LET without == Score(total, filled - 1, quality - Quality(fields[i]))
                          drop == without - Score(total, filled, quality)
                      IN  total * (drop - 1) <= 1980 * total - 6000
    BY DEF OneMoreFieldCostsLittle
  <2> DEFINE x == Quality(fields[i])
             q == quality - x
  <2>1. total = Len(fields) /\ fields \in Seq(Field) /\ i \in 1 .. total
        /\ HasContent(fields[i]) /\ i \in ContentsUpTo(total)
    BY DEF IndInv, RecordInv, TypeOK, LoopInv, Contents, ContentsUpTo
  <2>2. total \in Nat \ {0} /\ fields[i] \in Field
    BY <2>1
  <2>3. x \in 1 .. 100
    BY <2>1, <2>2, FilledHasContent, QualityBounds
  <2>4. filled \in Nat /\ quality \in Nat
    BY <2>2 DEF IndInv, RecordInv, TypeOK
  <2>5. q \in filled - 1 .. 100 * (filled - 1)
    BY <2>1 DEF IndInv, RecordInv, OneOutInv
  <2> HIDE DEF x
  <2>6. filled >= 1 /\ q \in Nat /\ quality = q + x
    BY <2>3, <2>4, <2>5
  <2> HIDE DEF q
  <2>7. total * (Score(total, filled - 1, q) - Score(total, filled, q + x) - 1)
            <= 1980 * total - 6000
    <3>1. filled \in Nat \ {0} /\ q <= 100 * (filled - 1)
      BY <2>4, <2>5, <2>6
    <3>2. total \in Nat \ {0} /\ filled \in Nat \ {0} /\ q \in Nat /\ x \in 1 .. 100
      BY <2>2, <2>3, <2>6, <3>1
    <3> DEFINE Bound(t, f, p, y) ==
                   t * (Score(t, f - 1, p) - Score(t, f, p + y) - 1) <= 1980 * t - 6000
    <3>3. \A t \in Nat \ {0}, f \in Nat \ {0}, p \in Nat, y \in 1 .. 100 :
              p <= 100 * (f - 1) => Bound(t, f, p, y)
      BY DropBound, Zenon
    <3> HIDE DEF Bound
    <3>4. Bound(total, filled, q, x)
      BY <3>1, <3>2, <3>3
    <3> QED
      BY <3>4 DEF Bound
  <2> QED
    BY <2>6, <2>7 DEF q, x
<1> QED
  BY Invariance, <1>1, PTL

\* The documented paths find what JSONPath says they select, in any page, with keys and
\* indices in any number and order.
THEOREM PathsResolve == Spec => []DocumentedPathsResolve
<1>1. IndInv => DocumentedPathsResolve
  BY DEF IndInv
<1> QED
  BY Invariance, <1>1, PTL

=============================================================================
