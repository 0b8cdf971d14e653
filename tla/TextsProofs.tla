------------------------------- MODULE TextsProofs -------------------------------
(****************************************************************************)
(* Proofs about the algorithms on texts, for texts and contents of any      *)
(* length, words of any width and any units.                                *)
(****************************************************************************)
EXTENDS Texts, SequenceTheorems, FiniteSetTheorems, WellFoundedInduction, TLAPS

(* Induction over the numbers up to n, for the members of a set.            *)
LEMMA Induction ==
    ASSUME NEW n \in Nat, NEW P,
           0 \in P, \A k \in 0..n - 1 : k \in P => k + 1 \in P
    PROVE  \A k \in 0..n : k \in P
<1> DEFINE T == {k \in 0..n : k \notin P}
<1> SUFFICES ASSUME T # {} PROVE FALSE
  OBVIOUS
<1>1. T \subseteq Nat
  OBVIOUS
<1>2. PICK x \in T : \A y \in T : ~(<<y, x>> \in OpToRel(<, Nat))
  BY <1>1, NatLessThanWellFounded, WFMin
<1>3. x \in 1..n /\ x - 1 \in 0..n - 1
  OBVIOUS
<1>4. x - 1 \notin P
  BY <1>3
<1>5. x - 1 \in T /\ x - 1 < x /\ x \in Nat /\ x - 1 \in Nat
  BY <1>3, <1>4
<1>6. <<x - 1, x>> \in OpToRel(<, Nat)
  BY <1>5 DEF OpToRel
<1> QED BY <1>2, <1>5, <1>6

LEMMA Division ==
    ASSUME NEW v \in Nat, NEW m \in Nat \ {0}
    PROVE  /\ v \div m \in Nat /\ v % m \in Nat /\ v % m \in 0..m - 1
           /\ v = (v \div m) * m + (v % m)
OBVIOUS

LEMMA Remainder ==
    ASSUME NEW m \in Nat \ {0}, NEW q \in Nat, NEW r \in 0..m - 1
    PROVE  (q * m + r) % m = r
OBVIOUS

(* A remainder can be taken of a remainder, when the sizes divide.          *)
LEMMA RemainderTwice ==
    ASSUME NEW v \in Nat, NEW m \in Nat \ {0}, NEW k \in Nat \ {0}
    PROVE  (v % (k * m)) % m = v % m
<1> DEFINE h == k * m
           a == v \div h
           b == v % h
           q == b \div m
           r == b % m
<1>1. h \in Nat \ {0}
  OBVIOUS
<1>2. a \in Nat /\ b \in Nat /\ v = a * h + b
  <2> HIDE DEF h
  <2> QED BY <1>1, Division
<1>3. q \in Nat /\ r \in 0..m - 1 /\ b = q * m + r
  <2> HIDE DEF b
  <2> QED BY <1>2, Division
<1> HIDE DEF a, b, q, r
<1>4. a * h + (q * m + r) = (a * k + q) * m + r
  BY <1>2, <1>3
<1>5. a * k + q \in Nat
  BY <1>2, <1>3
<1>6. ((a * k + q) * m + r) % m = r
  <2> DEFINE x == a * k + q
  <2> HIDE DEF x
  <2>1. x \in Nat
    BY <1>5 DEF x
  <2>2. (x * m + r) % m = r
    BY <1>3, <2>1, Remainder
  <2> QED BY <2>2 DEF x
<1>7. v % m = r
  BY <1>2, <1>3, <1>4, <1>6
<1> QED BY <1>7 DEF r, b

--------------------------------------------------------------------------------
(* Sums over a text *)

Units == {"s", "m", "h", "d", "w"}

Text == Seq([number: Nat, unit: Units])

USE IntervalAssumption

LEMMA SizeType == DOMAIN Size = Units /\ \A u \in Units : Size[u] \in Nat \ {0}
<1>1. Day \in Nat \ {0} /\ Week \in Nat \ {0}
  BY DEF Day, Week
<1>2. DOMAIN Size = Units
  BY DEF Size, Units
<1>3. Size.s = 1 /\ Size.m = Minute /\ Size.h = Hour /\ Size.d = Day /\ Size.w = Week
  BY DEF Size
<1> QED BY <1>1, <1>2, <1>3 DEF Units

LEMMA ValueType ==
    ASSUME NEW t \in Text, NEW n \in 1..Len(t)
    PROVE  t[n].unit \in Units /\ t[n].number \in Nat /\ Value(t[n]) \in Nat
<1>1. t[n] \in [number: Nat, unit: Units]
  BY ElementOfSeq DEF Text
<1>2. Size[t[n].unit] \in Nat
  BY <1>1, SizeType
<1> QED BY <1>1, <1>2 DEF Value

(* The recursion has a solution.                                            *)
LEMMA SumsExist ==
    ASSUME NEW t \in Text
    PROVE  \E f \in [0..Len(t) -> Nat] :
              f[0] = 0 /\ \A n \in 1..Len(t) : f[n] = f[n - 1] + Value(t[n])
<1> DEFINE Solves(f, k) == /\ f \in [0..k -> Nat] /\ f[0] = 0
                           /\ \A n \in 1..k : f[n] = f[n - 1] + Value(t[n])
           P == {k \in 0..Len(t) : \E f : Solves(f, k)}
<1>0. Len(t) \in Nat
  BY DEF Text
<1>1. 0 \in P
  <2> DEFINE f == [n \in 0..0 |-> 0]
  <2>1. f \in [0..0 -> Nat] /\ f[0] = 0 /\ 1..0 = {}
    OBVIOUS
  <2>2. Solves(f, 0)
    <3> HIDE DEF f
    <3> QED BY <2>1
  <2> HIDE DEF Solves
  <2> QED BY <1>0, <2>2
<1>2. ASSUME NEW k \in 0..Len(t) - 1, k \in P PROVE k + 1 \in P
  <2>1. PICK f : Solves(f, k)
    BY <1>2
  <2>2. Value(t[k + 1]) \in Nat /\ f[k] \in Nat
    BY <1>0, <2>1, ValueType
  <2> DEFINE v == f[k] + Value(t[k + 1])
             g == [n \in 0..k + 1 |-> IF n = k + 1 THEN v ELSE f[n]]
  <2>3. v \in Nat
    BY <2>2
  <2>4. \A n \in 0..k : g[n] = f[n] /\ f[n] \in Nat
    BY <2>1
  <2>5. g[k + 1] = v
    OBVIOUS
  <2>6. g \in [0..k + 1 -> Nat] /\ g[0] = 0
    BY <2>1, <2>3
  <2>7. ASSUME NEW n \in 1..k + 1 PROVE g[n] = g[n - 1] + Value(t[n])
    <3> HIDE DEF g
    <3>1. CASE n = k + 1
      BY <3>1, <2>4, <2>5
    <3>2. CASE n \in 1..k
      <4>1. n - 1 \in 0..k /\ n \in 0..k
        BY <3>2
      <4> QED BY <4>1, <3>2, <2>1, <2>4
    <3> QED BY <3>1, <3>2
  <2>8. Solves(g, k + 1)
    <3> HIDE DEF g
    <3> QED BY <2>6, <2>7
  <2> HIDE DEF Solves
  <2> QED BY <1>0, <2>8
<1> HIDE DEF P
<1>3. \A k \in 0..Len(t) : k \in P
  BY <1>0, <1>1, <1>2, Induction
<1>4. Len(t) \in P
  BY <1>0, <1>3
<1> QED BY <1>4 DEF P

LEMMA SumsStep ==
    ASSUME NEW t \in Text
    PROVE  /\ Sums(t)[0] = 0
           /\ \A n \in 1..Len(t) : Sums(t)[n] = Sums(t)[n - 1] + Value(t[n])
<1> DEFINE Solves(f) == f = [n \in 0..Len(t) |-> IF n = 0 THEN 0 ELSE f[n - 1] + Value(t[n])]
<1>0. Len(t) \in Nat
  BY DEF Text
<1>1. PICK f \in [0..Len(t) -> Nat] :
        f[0] = 0 /\ \A n \in 1..Len(t) : f[n] = f[n - 1] + Value(t[n])
  BY SumsExist
<1>2. Solves(f)
  <2> DEFINE g == [n \in 0..Len(t) |-> IF n = 0 THEN 0 ELSE f[n - 1] + Value(t[n])]
  <2>1. \A n \in 0..Len(t) : n = 0 \/ n \in 1..Len(t)
    BY <1>0
  <2>2. ASSUME NEW n \in 0..Len(t)
        PROVE  f[n] = IF n = 0 THEN 0 ELSE f[n - 1] + Value(t[n])
    BY <1>1, <2>1
  <2>3. \A n \in 0..Len(t) : f[n] = g[n]
    BY <2>2, Zenon
  <2>4. f = [n \in 0..Len(t) |-> f[n]]
    BY <1>1, Zenon
  <2>5. f = g
    BY <2>3, <2>4, Zenon
  <2> QED BY <2>5, Zenon
<1>3. Sums(t) = CHOOSE g : Solves(g)
  BY DEF Sums
<1>4. Solves(Sums(t))
  <2> HIDE DEF Solves
  <2> QED BY <1>2, <1>3
<1> HIDE DEF Sums
<1>5. \A n \in 0..Len(t) : Sums(t)[n] = IF n = 0 THEN 0 ELSE Sums(t)[n - 1] + Value(t[n])
  BY <1>4
<1> QED BY <1>0, <1>5

LEMMA SumsBounds ==
    ASSUME NEW t \in Text
    PROVE  \A n \in 0..Len(t) : Sums(t)[n] \in Nat /\ Sums(t)[n] <= Sums(t)[Len(t)]
<1> DEFINE P == {n \in 0..Len(t) : Sums(t)[n] \in Nat}
           Q == {n \in 0..Len(t) : Sums(t)[Len(t) - n] <= Sums(t)[Len(t)]}
<1>0. Len(t) \in Nat
  BY DEF Text
<1>1. \A n \in 0..Len(t) : Sums(t)[n] \in Nat
  <2>1. 0 \in P
    BY <1>0, SumsStep
  <2>2. ASSUME NEW n \in 0..Len(t) - 1, n \in P PROVE n + 1 \in P
    <3>1. n + 1 \in 1..Len(t) /\ (n + 1) - 1 = n /\ Value(t[n + 1]) \in Nat
      BY <1>0, ValueType
    <3> QED BY <2>2, <3>1, SumsStep
  <2>3. \A n \in 0..Len(t) : n \in P
    <3> HIDE DEF P
    <3> QED BY <1>0, <2>1, <2>2, Induction
  <2> QED BY <2>3
<1>2. \A n \in 0..Len(t) : n \in Q
  <2>1. 0 \in Q
    BY <1>0, <1>1
  <2>2. ASSUME NEW n \in 0..Len(t) - 1, n \in Q PROVE n + 1 \in Q
    <3> DEFINE k == Len(t) - n
    <3>1. k \in 1..Len(t) /\ k - 1 \in 0..Len(t) /\ k - 1 = Len(t) - (n + 1)
      BY <1>0
    <3>2. Sums(t)[k] = Sums(t)[k - 1] + Value(t[k]) /\ Value(t[k]) \in Nat
      BY <3>1, SumsStep, ValueType
    <3>3. Sums(t)[k - 1] \in Nat /\ Sums(t)[k] \in Nat /\ Sums(t)[Len(t)] \in Nat
      BY <1>0, <1>1, <3>1
    <3>4. Sums(t)[k] <= Sums(t)[Len(t)]
      BY <2>2
    <3>5. Sums(t)[k - 1] <= Sums(t)[Len(t)]
      <4> HIDE DEF k
      <4> QED BY <3>2, <3>3, <3>4
    <3>6. Sums(t)[Len(t) - (n + 1)] = Sums(t)[k - 1] /\ n + 1 \in 0..Len(t)
      <4> HIDE DEF k
      <4> QED BY <1>0, <3>1
    <3> QED BY <3>5, <3>6
  <2> HIDE DEF Q
  <2> QED BY <1>0, <2>1, <2>2, Induction
<1>3. ASSUME NEW n \in 0..Len(t) PROVE Sums(t)[n] <= Sums(t)[Len(t)]
  <2>1. Len(t) - n \in Q
    BY <1>0, <1>2
  <2> QED BY <1>0, <2>1
<1> QED BY <1>1, <1>3

--------------------------------------------------------------------------------
(* Reading an interval *)

(* A number below the half of the words is its own word.                    *)
LEMMA WrapOfWord ==
    /\ MaxDuration \in Nat
    /\ \A n \in 0..MaxDuration : Wrap(n) = n
<1>1. MaxDuration \in Nat /\ 2^Bits \in Nat \ {0} /\ MaxDuration < 2^Bits
  BY WordAssumption DEF MaxDuration
<1>2. ASSUME NEW n \in 0..MaxDuration PROVE Wrap(n) = n
  <2>1. n % 2^Bits = n
    BY <1>1
  <2> QED BY <1>1, <2>1 DEF Wrap
<1> QED BY <1>1, <1>2

(* What is read before the multiplication, times the factor, is the value.  *)
LEMMA ReadFactor ==
    ASSUME NEW t \in Text, NEW n \in 1..Len(t)
    PROVE  LET c == t[n]
               factor == IF c.unit \in {"d", "w"} THEN Size[c.unit] \div Hour ELSE 1
               parsed == c.number * (Size[c.unit] \div factor) IN
             /\ factor \in Nat \ {0} /\ parsed \in Nat
             /\ parsed * factor = Value(c)
<1> DEFINE c == t[n]
           factor == IF c.unit \in {"d", "w"} THEN Size[c.unit] \div Hour ELSE 1
<1>1. c.unit \in Units /\ c.number \in Nat
  BY ValueType
<1>2. factor \in Nat \ {0} /\ Size[c.unit] = (Size[c.unit] \div factor) * factor
      /\ Size[c.unit] \div factor \in Nat
  <2>1. CASE c.unit = "d"
    <3>1. Size[c.unit] = DayHours * Hour
      BY <2>1 DEF Size, Day
    <3>2. (DayHours * Hour) \div Hour = DayHours /\ (DayHours * Hour) \div DayHours = Hour
          /\ DayHours * Hour = Hour * DayHours
      OBVIOUS
    <3> QED BY <2>1, <3>1, <3>2
  <2>2. CASE c.unit = "w"
    <3>1. Size[c.unit] = WeekHours * Hour
      BY <2>2 DEF Size, Week
    <3>2. (WeekHours * Hour) \div Hour = WeekHours /\ (WeekHours * Hour) \div WeekHours = Hour
          /\ WeekHours * Hour = Hour * WeekHours
      OBVIOUS
    <3> QED BY <2>2, <3>1, <3>2
  <2>3. CASE c.unit \notin {"d", "w"}
    <3>1. Size[c.unit] \in Nat
      BY <1>1, SizeType
    <3> QED BY <2>3, <3>1
  <2> QED BY <2>1, <2>2, <2>3
<1> HIDE DEF factor
<1>3. c.number * (Size[c.unit] \div factor) \in Nat
  BY <1>1, <1>2
<1>4. Size[c.unit] \div factor \in Nat /\ factor \in Nat
  BY <1>2
<1>5. (c.number * (Size[c.unit] \div factor)) * factor = c.number * ((Size[c.unit] \div factor) * factor)
  <2>1. \A x, y, z \in Nat : (x * y) * z = x * (y * z)
    OBVIOUS
  <2> QED BY <1>1, <1>4, <2>1
<1>6. (c.number * (Size[c.unit] \div factor)) * factor = Value(c)
  BY <1>2, <1>5 DEF Value
<1> QED BY <1>2, <1>3, <1>6 DEF factor

(* The test before the multiplication is exact.                             *)
LEMMA FitsExactly ==
    ASSUME NEW parsed \in Nat, NEW factor \in Nat \ {0}
    PROVE  Fits(parsed, factor) <=> parsed * factor <= MaxDuration
<1>1. \A m \in Nat : (parsed <= m \div factor) <=> (parsed * factor <= m)
  OBVIOUS
<1> QED BY <1>1, WrapOfWord DEF Fits

(* What a reader knows of the text it has read, and of its answer.          *)
ReadOk ==
    /\ text \in Text /\ position \in 0..Len(text)
    /\ total = Sums(text)[position] /\ total \in 0..MaxDuration
    /\ result = Invalid => Meaning \notin 1..MaxDuration
    /\ result \notin {Running, Invalid} => result = Meaning /\ result \in 1..MaxDuration

LEMMA ReadOkStep == ReadOk /\ [IntervalNext]_intervalVars => ReadOk'
<1> SUFFICES ASSUME ReadOk, [IntervalNext]_intervalVars PROVE ReadOk'
  OBVIOUS
<1>0. MaxDuration \in Nat /\ Len(text) \in Nat /\ total \in Nat /\ position \in Nat
  BY WrapOfWord DEF ReadOk, Text
<1>1. CASE Read
  <2> DEFINE c == text[position + 1]
             long == c.unit \in {"d", "w"}
             factor == IF long THEN Size[c.unit] \div Hour ELSE 1
             parsed == c.number * (Size[c.unit] \div factor)
             component == Wrap(parsed * factor)
             fits == parsed <= MaxDuration /\ (long => Fits(parsed, factor))
                     /\ HasRoom(component)
  <2>1. position + 1 \in 1..Len(text) /\ result = Running
    BY <1>0, <1>1 DEF Read
  <2>2. /\ factor \in Nat \ {0} /\ parsed \in Nat /\ parsed * factor = Value(c)
        /\ Value(c) \in Nat /\ (long \/ factor = 1)
    BY <2>1, ReadFactor, ValueType DEF ReadOk
  <2>3. /\ Sums(text)[position + 1] = total + Value(c)
        /\ Sums(text)[position + 1] <= Meaning /\ Meaning \in Nat
    <3>1. (position + 1) - 1 = position
      BY <1>0
    <3> QED BY <1>0, <2>1, <3>1, SumsStep, SumsBounds DEF ReadOk, Meaning
  <2>4. /\ fits => /\ total' = Wrap(total + component) /\ position' = position + 1
                   /\ result' = result
        /\ ~fits => result' = Invalid /\ total' = total /\ position' = position
        /\ text' = text
    BY <1>1 DEF Read
  <2> HIDE DEF c, long, factor, parsed, fits
  <2>5. parsed <= parsed * factor
    BY <2>2
  <2>6. fits <=> total + Value(c) <= MaxDuration
    <3>1. CASE Value(c) <= MaxDuration
      <4>1. component = Value(c)
        BY <1>0, <2>2, <3>1, WrapOfWord
      <4>2. parsed <= MaxDuration /\ (long => Fits(parsed, factor))
        BY <1>0, <2>2, <2>5, <3>1, FitsExactly
      <4>3. HasRoom(component) <=> total + Value(c) <= MaxDuration
        <5> HIDE DEF component
        <5> QED BY <1>0, <2>2, <4>1 DEF HasRoom
      <4> QED BY <4>2, <4>3 DEF fits
    <3>2. CASE Value(c) > MaxDuration
      <4>1. ~(parsed <= MaxDuration /\ (long => Fits(parsed, factor)))
        <5>1. CASE long
          BY <1>0, <2>2, <3>2, <5>1, FitsExactly
        <5>2. CASE ~long
          BY <1>0, <2>2, <3>2, <5>2
        <5> QED BY <5>1, <5>2
      <4> QED BY <1>0, <2>2, <3>2, <4>1 DEF fits
    <3> QED BY <1>0, <2>2, <3>1, <3>2
  <2>7. CASE fits
    <3>1. component = Value(c) /\ total + Value(c) \in 0..MaxDuration
      BY <1>0, <2>2, <2>6, <2>7, WrapOfWord
    <3>2. total' = total + Value(c)
      BY <2>4, <2>7, <3>1, WrapOfWord
    <3> QED BY <2>1, <2>3, <2>4, <2>7, <3>1, <3>2 DEF ReadOk, Running, Invalid, Meaning
  <2>8. CASE ~fits
    BY <1>0, <2>2, <2>3, <2>4, <2>6, <2>8 DEF ReadOk, Running, Invalid, Meaning
  <2> QED BY <2>7, <2>8
<1>2. CASE Return
  BY <1>0, <1>2 DEF Return, ReadOk, Running, Invalid, Meaning
<1>3. CASE UNCHANGED intervalVars
  BY <1>3 DEF intervalVars, ReadOk, Meaning
<1> QED BY <1>1, <1>2, <1>3 DEF IntervalNext

--------------------------------------------------------------------------------
(* Writing an interval *)

Total(t) == Sums(t)[Len(t)]

LEMMA TotalOfConcat ==
    ASSUME NEW s \in Text, NEW t \in Text
    PROVE  s \o t \in Text /\ Total(s \o t) = Total(s) + Total(t)
<1> DEFINE u == s \o t
           P == {n \in 0..Len(s) : Sums(u)[n] = Sums(s)[n]}
           Q == {n \in 0..Len(t) : Sums(u)[Len(s) + n] = Sums(s)[Len(s)] + Sums(t)[n]}
<1>1. u \in Text /\ Len(s) \in Nat /\ Len(t) \in Nat /\ Len(u) = Len(s) + Len(t)
  BY ConcatProperties DEF Text
<1>2. \A n \in 1..Len(s) : u[n] = s[n]
  BY <1>1, ConcatProperties DEF Text
<1>3. \A n \in 1..Len(t) : u[Len(s) + n] = t[n]
  <2> TAKE n \in 1..Len(t)
  <2>1. Len(s) + n \in 1..Len(s) + Len(t) /\ ~(Len(s) + n <= Len(s)) /\ Len(s) + n - Len(s) = n
    BY <1>1
  <2> QED BY <2>1, ConcatProperties DEF Text
<1> HIDE DEF u
<1>4. \A n \in 0..Len(s) : n \in P
  <2>1. 0 \in P
    BY <1>1, SumsStep
  <2>2. ASSUME NEW n \in 0..Len(s) - 1, n \in P PROVE n + 1 \in P
    <3>1. n + 1 \in 1..Len(s) /\ n + 1 \in 1..Len(u) /\ (n + 1) - 1 = n
      BY <1>1
    <3>2. Sums(u)[n + 1] = Sums(u)[n] + Value(u[n + 1])
      BY <1>1, <3>1, SumsStep
    <3>3. Sums(s)[n + 1] = Sums(s)[n] + Value(s[n + 1])
      BY <1>1, <3>1, SumsStep
    <3>4. u[n + 1] = s[n + 1] /\ Sums(u)[n] = Sums(s)[n] /\ n + 1 \in 0..Len(s)
      BY <1>1, <1>2, <2>2, <3>1
    <3> QED BY <3>2, <3>3, <3>4
  <2> HIDE DEF P
  <2> QED BY <1>1, <2>1, <2>2, Induction
<1>5. \A n \in 0..Len(t) : n \in Q
  <2>1. 0 \in Q
    <3>1. Len(s) \in P /\ Len(s) + 0 = Len(s) /\ Sums(s)[Len(s)] \in Nat /\ Sums(t)[0] = 0
      BY <1>1, <1>4, SumsStep, SumsBounds
    <3> QED BY <1>1, <3>1
  <2>2. ASSUME NEW n \in 0..Len(t) - 1, n \in Q PROVE n + 1 \in Q
    <3> DEFINE k == Len(s) + (n + 1)
    <3>1. n + 1 \in 1..Len(t) /\ k \in 1..Len(u) /\ k - 1 = Len(s) + n /\ (n + 1) - 1 = n
          /\ n \in 0..Len(t)
      BY <1>1
    <3>2. u[k] = t[n + 1]
      BY <1>3, <3>1
    <3>3. Value(t[n + 1]) \in Nat /\ Sums(s)[Len(s)] \in Nat /\ Sums(t)[n] \in Nat
      BY <1>1, <3>1, ValueType, SumsBounds
    <3> HIDE DEF k
    <3>4. Sums(u)[k] = Sums(u)[k - 1] + Value(u[k])
      BY <1>1, <3>1, SumsStep
    <3>5. Sums(t)[n + 1] = Sums(t)[n] + Value(t[n + 1])
      BY <3>1, SumsStep
    <3>6. Sums(u)[k - 1] = Sums(s)[Len(s)] + Sums(t)[n]
      BY <2>2, <3>1
    <3>7. Sums(u)[k] = Sums(s)[Len(s)] + Sums(t)[n + 1]
      BY <3>2, <3>3, <3>4, <3>5, <3>6
    <3> QED BY <3>1, <3>7 DEF k
  <2> HIDE DEF Q
  <2> QED BY <1>1, <2>1, <2>2, Induction
<1>6. Len(t) \in Q
  BY <1>1, <1>5
<1>7. Total(u) = Total(s) + Total(t)
  BY <1>1, <1>6 DEF Total
<1> QED BY <1>1, <1>7 DEF u

LEMMA TotalOfPart ==
    ASSUME NEW n \in Nat, NEW u \in Units
    PROVE  Part(n, u) \in Text /\ Total(Part(n, u)) = n * Size[u]
<1>0. Size[u] \in Nat
  BY SizeType
<1>1. CASE n > 0
  <2> DEFINE c == [number |-> n, unit |-> u]
             t == <<c>>
  <2>1. t \in Text /\ Len(t) = 1 /\ t[1] = c /\ Part(n, u) = t
    BY <1>1 DEF Text, Part
  <2>2. Value(c) = n * Size[u]
    BY DEF Value
  <2> HIDE DEF t, c
  <2>3. Sums(t)[0] = 0 /\ Sums(t)[1] = Sums(t)[1 - 1] + Value(t[1])
    BY <2>1, SumsStep
  <2>4. Value(c) \in Nat
    BY <1>0, <2>2
  <2>5. Sums(t)[1] = Value(c)
    BY <2>1, <2>3, <2>4
  <2>6. Total(t) = Value(c)
    BY <2>1, <2>5 DEF Total
  <2> QED BY <2>1, <2>2, <2>6
<1>2. CASE n = 0
  <2>1. Part(n, u) = << >> /\ << >> \in Text /\ Len(<< >>) = 0
    BY <1>2 DEF Part, Text
  <2>2. Sums(<< >>)[0] = 0
    BY <2>1, SumsStep
  <2>3. Total(Part(n, u)) = 0
    BY <2>1, <2>2 DEF Total
  <2>4. n * Size[u] = 0
    BY <1>0, <1>2
  <2> QED BY <2>1, <2>3, <2>4
<1> QED BY <1>1, <1>2

LEMMA TotalOfSubday ==
    ASSUME NEW v \in Nat
    PROVE  Subday(v) \in Text /\ Total(Subday(v)) = v
<1> DEFINE b == v % Hour
<1>0. Hour \in Nat \ {0} /\ Minute \in Nat \ {0} /\ Hour \in Nat
  OBVIOUS
<1>1. v \div Hour \in Nat /\ b \in Nat /\ v = (v \div Hour) * Hour + b
  BY <1>0, Division, Zenon
<1>2. b % Minute = v % Minute
  <2> DEFINE k == Hour \div Minute
  <2>1. k \in Nat /\ Hour = k * Minute + (Hour % Minute) /\ Hour % Minute = 0
    BY <1>0, Division, Zenon
  <2> HIDE DEF k
  <2>2. k \in Nat \ {0} /\ Hour = k * Minute
    BY <1>0, <2>1
  <2>3. (v % (k * Minute)) % Minute = v % Minute
    BY <1>0, <2>2, RemainderTwice
  <2> QED BY <2>2, <2>3
<1> HIDE DEF b
<1>3. b \div Minute \in Nat /\ b % Minute \in Nat /\ b = (b \div Minute) * Minute + (b % Minute)
  BY <1>0, <1>1, Division, Zenon
<1>4. {"h", "m", "s"} \subseteq Units /\ Size.h = Hour /\ Size.m = Minute /\ Size.s = 1
  BY DEF Units, Size
<1> DEFINE H == Part(v \div Hour, "h")
           M == Part(b \div Minute, "m")
           S == Part(b % Minute, "s")
<1>5. H \in Text /\ Total(H) = (v \div Hour) * Hour
  BY <1>1, <1>4, TotalOfPart
<1>6. M \in Text /\ Total(M) = (b \div Minute) * Minute
  BY <1>3, <1>4, TotalOfPart
<1>7. S \in Text /\ Total(S) = b % Minute
  BY <1>3, <1>4, TotalOfPart
<1>8. Subday(v) = H \o M \o S
  BY <1>2 DEF Subday, b
<1> HIDE DEF H, M, S
<1>9. H \o M \o S \in Text /\ Total(H \o M \o S) = (Total(H) + Total(M)) + Total(S)
  BY <1>5, <1>6, <1>7, TotalOfConcat
<1>10. (v \div Hour) * Hour + (b \div Minute) * Minute + (b % Minute) = v
  BY <1>1, <1>3
<1> QED BY <1>5, <1>6, <1>7, <1>8, <1>9, <1>10

LEMMA TotalOfCompact ==
    ASSUME NEW v \in Nat
    PROVE  Compact(v) \in Text /\ Total(Compact(v)) = v
<1>0. {"h", "m", "d", "w"} \subseteq Units /\ Size.h = Hour /\ Size.m = Minute
      /\ Size.d = Day /\ Size.w = Week
  BY DEF Units, Size
<1>1. CASE v > Day
  <2>1. Day \in Nat \ {0} /\ Week \in Nat \ {0} /\ DayHours \in Nat \ {0} /\ WeekHours \in Nat
    BY <1>0, SizeType DEF Units
  <2> DEFINE b == v % Week
  <2>2. v \div Week \in Nat /\ b \in Nat /\ v = (v \div Week) * Week + b
    BY <2>1, Division, Zenon
  <2>3. b % Day = v % Day
    <3> DEFINE k == WeekHours \div DayHours
    <3>0. k \in Nat /\ WeekHours = k * DayHours + (WeekHours % DayHours)
      BY <2>1, Division, Zenon
    <3>1. k \in Nat \ {0} /\ WeekHours = k * DayHours
      <4> HIDE DEF k
      <4> QED BY <2>1, <3>0
    <3>2. Week = k * Day
      <4> HIDE DEF k
      <4>1. \A x, y, z \in Nat : (x * y) * z = x * (y * z)
        OBVIOUS
      <4> QED BY <3>1, <4>1 DEF Week, Day
    <3> HIDE DEF k
    <3> QED BY <2>1, <3>1, <3>2, RemainderTwice
  <2> HIDE DEF b
  <2>4. b \div Day \in Nat /\ b % Day \in Nat /\ b = (b \div Day) * Day + (b % Day)
    BY <2>1, <2>2, Division, Zenon
  <2> DEFINE W == Part(v \div Week, "w")
             D == Part(b \div Day, "d")
             S == Subday(b % Day)
  <2>5. W \in Text /\ Total(W) = (v \div Week) * Week
    BY <1>0, <2>2, TotalOfPart
  <2>6. D \in Text /\ Total(D) = (b \div Day) * Day
    BY <1>0, <2>4, TotalOfPart
  <2>7. S \in Text /\ Total(S) = b % Day
    BY <2>4, TotalOfSubday
  <2>8. Compact(v) = W \o D \o S
    BY <1>1, <2>3 DEF Compact, b
  <2> HIDE DEF W, D, S
  <2>9. W \o D \o S \in Text /\ Total(W \o D \o S) = (Total(W) + Total(D)) + Total(S)
    BY <2>5, <2>6, <2>7, TotalOfConcat
  <2>10. (v \div Week) * Week + (b \div Day) * Day + (b % Day) = v
    BY <2>1, <2>2, <2>4
  <2> QED BY <2>5, <2>6, <2>7, <2>8, <2>9, <2>10
<1>2. CASE ~(v > Day) /\ v % Hour = 0
  <2> DEFINE q == v \div Hour
  <2>0. Hour \in Nat \ {0}
    OBVIOUS
  <2>1. q \in Nat /\ v = q * Hour + (v % Hour)
    BY <2>0, Division, Zenon
  <2> HIDE DEF q
  <2>2. v = q * Hour
    BY <1>2, <2>1
  <2>3. Compact(v) = Part(q, "h")
    BY <1>2 DEF Compact, q
  <2> QED BY <1>0, <2>1, <2>2, <2>3, TotalOfPart
<1>3. CASE ~(v > Day) /\ v % Hour # 0 /\ v % Minute = 0
  <2> DEFINE q == v \div Minute
  <2>0. Minute \in Nat \ {0}
    OBVIOUS
  <2>1. q \in Nat /\ v = q * Minute + (v % Minute)
    BY <2>0, Division, Zenon
  <2> HIDE DEF q
  <2>2. v = q * Minute
    BY <1>3, <2>1
  <2>3. Compact(v) = Part(q, "m")
    BY <1>3 DEF Compact, q
  <2> QED BY <1>0, <2>1, <2>2, <2>3, TotalOfPart
<1>4. CASE ~(v > Day) /\ v % Hour # 0 /\ v % Minute # 0
  BY <1>4, TotalOfSubday DEF Compact
<1> QED BY <1>1, <1>2, <1>3, <1>4

(* A text written from an interval stands for it.                           *)
WrittenOk == written > 0 => written \in 1..MaxDuration /\ text = Compact(written)

LEMMA WrittenMeans ==
    ASSUME WrittenOk, written > 0
    PROVE  Meaning = written /\ written \in 1..MaxDuration
<1>1. written \in 1..MaxDuration /\ text = Compact(written) /\ written \in Nat
  BY WrapOfWord DEF WrittenOk
<1> QED BY <1>1, TotalOfCompact DEF Meaning, Total

--------------------------------------------------------------------------------
(* The interval in the behaviours of Texts *)

IntervalOk == ReadOk /\ WrittenOk

LEMMA IntervalOkInit == TextsInit => IntervalOk
<1> SUFFICES ASSUME TextsInit PROVE IntervalOk
  OBVIOUS
<1>1. position = 0 /\ total = 0 /\ result = Running
  BY DEF TextsInit, IntervalInit
<1>2. WrittenOk
  BY DEF TextsInit, IntervalInit, WrittenOk
<1>3. text \in Text
  <2>1. CASE text = << >>
    BY <2>1 DEF Text
  <2>2. CASE written \in 1..MaxDuration /\ text = Compact(written)
    BY <2>2, WrapOfWord, TotalOfCompact
  <2>3. CASE text \in UNION {[1..n -> Component] : n \in 0..MaxLength}
    <3>1. PICK n \in 0..MaxLength : text \in [1..n -> Component]
      BY <2>3
    <3>2. Component \subseteq [number: Nat, unit: Units]
      BY SizeType DEF Component
    <3>3. n \in Nat /\ text \in [1..n -> [number: Nat, unit: Units]]
      BY <3>1, <3>2
    <3>4. text \in UNION {[1..i -> [number: Nat, unit: Units]] : i \in Nat}
      BY <3>3
    <3> QED BY <3>4, SeqDef DEF Text
  <2> QED BY <2>1, <2>2, <2>3 DEF TextsInit, IntervalInit
<1>4. Sums(text)[0] = 0 /\ Len(text) \in Nat
  <2>1. Sums(text)[0] = 0
    BY <1>3, SumsStep
  <2>2. Len(text) \in Nat
    BY <1>3 DEF Text
  <2> QED BY <2>1, <2>2
<1> QED BY <1>1, <1>2, <1>3, <1>4, WrapOfWord DEF IntervalOk, ReadOk, Running, Invalid

LEMMA IntervalOkStep == IntervalOk /\ [TextsNext]_textVars => IntervalOk'
<1> SUFFICES ASSUME IntervalOk, [TextsNext]_textVars PROVE IntervalOk'
  OBVIOUS
<1>1. [IntervalNext]_intervalVars
  BY DEF TextsNext, textVars
<1>2. text' = text /\ written' = written
  BY <1>1 DEF IntervalNext, Read, Return, intervalVars
<1>3. ReadOk'
  BY <1>1, ReadOkStep DEF IntervalOk
<1> QED BY <1>2, <1>3 DEF IntervalOk, WrittenOk

(* What parseInterval has read is the sum of the components so far, and a   *)
(* text that compactDuration wrote stands for the interval it was given.    *)
THEOREM IntervalInvariant == TextsSpec => []IntervalOk
BY IntervalOkInit, IntervalOkStep, PTL DEF TextsSpec

(* parseInterval returns what a text stands for when that is a duration and *)
(* refuses it otherwise: its tests before a product and before a sum leave  *)
(* no overflow unseen and refuse nothing that fits.                         *)
THEOREM IntervalsAreReadExactly == TextsSpec => []ReadExactly
<1>1. IntervalOk => ReadExactly
  BY DEF IntervalOk, ReadOk, ReadExactly
<1> QED BY <1>1, IntervalInvariant, PTL

(* parseInterval reads back what compactDuration has written.               *)
THEOREM IntervalsRoundTrip == TextsSpec => []RoundTrip
<1>1. IntervalOk => RoundTrip
  <2> SUFFICES ASSUME IntervalOk, written > 0, result # Running PROVE result = written
    BY DEF RoundTrip
  <2>1. Meaning = written /\ written \in 1..MaxDuration
    BY WrittenMeans DEF IntervalOk
  <2> QED BY <2>1 DEF IntervalOk, ReadOk
<1> QED BY <1>1, IntervalInvariant, PTL

--------------------------------------------------------------------------------
(* The one hunk of a diff *)

HIDE IntervalAssumption

LEMMA CommonShape ==
    ASSUME NEW S, NEW a \in Seq(S), NEW b \in Seq(S)
    PROVE  /\ Common(a, b) \in Seq(S)
           /\ Len(Common(a, b)) <= Len(a) /\ Len(Common(a, b)) <= Len(b)
           /\ \A i \in 1..Len(Common(a, b)) : Common(a, b)[i] = a[i] /\ a[i] = b[i]
<1> DEFINE C == CommonPrefixes({a, b})
           T == {Len(a) - Len(c) : c \in C}
<1>0. Len(a) \in Nat /\ Len(b) \in Nat
  BY LenProperties
<1>1. ASSUME NEW c \in C
      PROVE  /\ c \in Seq(S) /\ Len(c) \in Nat /\ Len(c) <= Len(a) /\ Len(c) <= Len(b)
             /\ \A i \in 1..Len(c) : c[i] = a[i] /\ a[i] = b[i]
  <2>1. IsPrefix(c, a) /\ IsPrefix(c, b)
    BY DEF CommonPrefixes
  <2>u. PICK u \in {a, b} : c \in Prefixes(u)
    BY DEF CommonPrefixes
  <2>2. PICK l \in 0..Len(u) : c = SubSeq(u, 1, l)
    BY <2>u DEF Prefixes
  <2>3. u \in Seq(S) /\ l \in Int /\ l <= Len(u) /\ Len(u) \in Nat
    BY <1>0, <2>2
  <2>4. \A i \in 1..l : u[i] \in S
    BY <2>3, ElementOfSeq
  <2>5. c \in Seq(S)
    BY <2>2, <2>3, <2>4, SubSeqProperties
  <2>6. Len(c) \in Nat /\ Len(c) <= Len(a) /\ Len(c) <= Len(b)
    BY <2>1, <2>5, LenProperties DEF IsPrefix
  <2>7. c = SubSeq(a, 1, Len(c)) /\ c = SubSeq(b, 1, Len(c))
    BY <2>1, <2>5, SubSeqFull DEF IsPrefix
  <2>8. \A i \in 1..Len(c) : a[i] \in S /\ b[i] \in S
    BY <1>0, <2>6, ElementOfSeq
  <2>9. ASSUME NEW i \in 1..Len(c) PROVE c[i] = a[i] /\ c[i] = b[i]
    <3>1. i \in 1..Len(c) - 1 + 1 /\ 1 + i - 1 = i /\ Len(c) \in Int /\ 1 \in Int
      BY <2>6
    <3>2. SubSeq(a, 1, Len(c))[i] = a[i]
      BY <2>8, <3>1, SubSeqProperties
    <3>3. SubSeq(b, 1, Len(c))[i] = b[i]
      BY <2>8, <3>1, SubSeqProperties
    <3> QED BY <2>7, <3>2, <3>3
  <2> QED BY <2>5, <2>6, <2>9
<1>2. << >> \in C
  <2>1. << >> = SubSeq(a, 1, 0) /\ << >> = SubSeq(b, 1, 0) /\ << >> = SubSeq(<< >>, 1, 0)
    BY SubSeqEmpty
  <2>2. Len(<< >>) = 0
    OBVIOUS
  <2>3. << >> \in Prefixes(a)
    BY <1>0, <2>1 DEF Prefixes
  <2>4. IsPrefix(<< >>, a) /\ IsPrefix(<< >>, b)
    BY <1>0, <2>1, <2>2 DEF IsPrefix
  <2> QED BY <2>3, <2>4 DEF CommonPrefixes
<1> HIDE DEF C
<1>3. PICK long \in C : \A other \in C : Len(other) <= Len(long)
  <2>1. T \subseteq Nat /\ T # {}
    BY <1>0, <1>1, <1>2
  <2> HIDE DEF T
  <2>2. PICK x \in T : \A y \in T : ~(<<y, x>> \in OpToRel(<, Nat))
    BY <2>1, NatLessThanWellFounded, WFMin
  <2>3. \A y \in T : x <= y
    <3> TAKE y \in T
    <3>1. x \in Nat /\ y \in Nat /\ ~(y < x)
      BY <2>1, <2>2 DEF OpToRel
    <3> QED BY <3>1
  <2>4. PICK long \in C : x = Len(a) - Len(long)
    BY DEF T
  <2>5. \A other \in C : Len(a) - Len(long) <= Len(a) - Len(other)
    BY <2>3, <2>4 DEF T
  <2>6. \A other \in C : Len(other) <= Len(long)
    BY <1>0, <1>1, <2>5
  <2> QED BY <2>6
<1>4. Common(a, b) \in C
  BY <1>3 DEF Common, LongestCommonPrefix, C
<1> QED BY <1>1, <1>4

LEMMA MaxOfTwo ==
    ASSUME NEW a \in Int, NEW b \in Int
    PROVE  Max({a, b}) \in {a, b} /\ Max({a, b}) >= a /\ Max({a, b}) >= b
<1>1. \E x \in {a, b} : \A y \in {a, b} : x >= y
  <2>1. CASE a >= b
    BY <2>1
  <2>2. CASE b >= a
    BY <2>2
  <2> QED BY <2>1, <2>2
<1>2. Max({a, b}) \in {a, b} /\ \A y \in {a, b} : Max({a, b}) >= y
  BY <1>1 DEF Max
<1> QED BY <1>2

LEMMA MinOfTwo ==
    ASSUME NEW a \in Int, NEW b \in Int
    PROVE  Min({a, b}) \in {a, b} /\ Min({a, b}) <= a /\ Min({a, b}) <= b
<1>1. \E x \in {a, b} : \A y \in {a, b} : x <= y
  <2>1. CASE a <= b
    BY <2>1
  <2>2. CASE b <= a
    BY <2>2
  <2> QED BY <2>1, <2>2
<1>2. Min({a, b}) \in {a, b} /\ \A y \in {a, b} : Min({a, b}) <= y
  BY <1>1 DEF Min
<1> QED BY <1>2

LEMMA ReverseShape ==
    ASSUME NEW S, NEW s \in Seq(S)
    PROVE  /\ Reverse(s) \in Seq(S) /\ Len(Reverse(s)) = Len(s)
           /\ \A i \in 1..Len(s) : Reverse(s)[i] = s[Len(s) - i + 1]
<1>1. Len(s) \in Nat
  BY LenProperties
<1>2. ASSUME NEW i \in 1..Len(s) PROVE s[(Len(s) - i) + 1] \in S
  <2>1. (Len(s) - i) + 1 \in 1..Len(s)
    BY <1>1
  <2> QED BY <2>1, ElementOfSeq
<1>3. Reverse(s) \in [1..Len(s) -> S]
  BY <1>2 DEF Reverse
<1>4. Reverse(s) \in Seq(S)
  BY <1>1, <1>3, SeqDef
<1>5. Len(Reverse(s)) = Len(s)
  BY <1>1, <1>3, <1>4, LenProperties
<1>6. \A i \in 1..Len(s) : Reverse(s)[i] = s[(Len(s) - i) + 1]
  BY DEF Reverse
<1> QED BY <1>4, <1>5, <1>6

(* A part of a sequence, by its first and its last place.                   *)
LEMMA PartShape ==
    ASSUME NEW S, NEW s \in Seq(S), NEW m \in Nat \ {0}, NEW n \in 0..Len(s), m <= n + 1
    PROVE  /\ SubSeq(s, m, n) \in Seq(S) /\ Len(SubSeq(s, m, n)) = n - m + 1
           /\ \A i \in 1..n - m + 1 : SubSeq(s, m, n)[i] = s[m + i - 1]
<1>1. Len(s) \in Nat /\ n \in Int /\ m \in Int
  BY LenProperties
<1>2. \A i \in m..n : s[i] \in S
  BY <1>1, ElementOfSeq
<1>3. /\ SubSeq(s, m, n) \in Seq(S)
      /\ Len(SubSeq(s, m, n)) = IF m <= n THEN n - m + 1 ELSE 0
      /\ \A i \in 1..n - m + 1 : SubSeq(s, m, n)[i] = s[m + i - 1]
  BY <1>1, <1>2, SubSeqProperties
<1> QED BY <1>1, <1>3

LEMMA MarkedShape ==
    ASSUME NEW S, NEW s \in Seq(S), NEW G, NEW g \in G
    PROVE  /\ Marked(g, s) \in Seq([sign: G, line: S]) /\ Len(Marked(g, s)) = Len(s)
           /\ \A i \in 1..Len(s) : Marked(g, s)[i] = [sign |-> g, line |-> s[i]]
<1>1. Len(s) \in Nat /\ DOMAIN s = 1..Len(s) /\ \A i \in 1..Len(s) : s[i] \in S
  BY LenProperties, ElementOfSeq
<1>2. Marked(g, s) \in [1..Len(s) -> [sign: G, line: S]]
  BY <1>1 DEF Marked
<1>3. Marked(g, s) \in Seq([sign: G, line: S])
  <2> DEFINE R == [sign: G, line: S]
  <2> HIDE DEF R
  <2>1. Marked(g, s) \in [1..Len(s) -> R]
    BY <1>2 DEF R
  <2>2. Marked(g, s) \in Seq(R)
    BY <1>1, <2>1, SeqDef
  <2> QED BY <2>2 DEF R
<1>4. Len(Marked(g, s)) = Len(s)
  BY <1>1, <1>2, <1>3, LenProperties
<1> QED BY <1>1, <1>3, <1>4 DEF Marked

(* A sequence that is four others, one after the other.                     *)
Joined(S, a, b, c, d, h) ==
    /\ h \in Seq(S)
    /\ Len(h) = Len(a) + Len(b) + Len(c) + Len(d)
    /\ \A i \in 1..Len(a) : h[i] = a[i]
    /\ \A i \in 1..Len(b) : h[Len(a) + i] = b[i]
    /\ \A i \in 1..Len(c) : h[Len(a) + Len(b) + i] = c[i]
    /\ \A i \in 1..Len(d) : h[Len(a) + Len(b) + Len(c) + i] = d[i]

LEMMA FourParts ==
    ASSUME NEW S, NEW a \in Seq(S), NEW b \in Seq(S), NEW c \in Seq(S), NEW d \in Seq(S)
    PROVE  Joined(S, a, b, c, d, a \o b \o c \o d)
<1> DEFINE ab == a \o b
           abc == ab \o c
           all == abc \o d
<1>0. Len(a) \in Nat /\ Len(b) \in Nat /\ Len(c) \in Nat /\ Len(d) \in Nat
  BY LenProperties
<1>1. /\ ab \in Seq(S) /\ Len(ab) = Len(a) + Len(b)
      /\ \A i \in 1..Len(a) + Len(b) : ab[i] = IF i <= Len(a) THEN a[i] ELSE b[i - Len(a)]
  BY ConcatProperties
<1>a. ab \in Seq(S)
  BY <1>1
<1> HIDE DEF ab
<1>2. /\ abc \in Seq(S) /\ Len(abc) = Len(ab) + Len(c)
      /\ \A i \in 1..Len(ab) + Len(c) : abc[i] = IF i <= Len(ab) THEN ab[i] ELSE c[i - Len(ab)]
  BY <1>a, ConcatProperties, Zenon
<1>b. abc \in Seq(S)
  BY <1>2
<1> HIDE DEF abc
<1>3. /\ all \in Seq(S) /\ Len(all) = Len(abc) + Len(d)
      /\ \A i \in 1..Len(abc) + Len(d) : all[i] = IF i <= Len(abc) THEN abc[i] ELSE d[i - Len(abc)]
  BY <1>b, ConcatProperties, Zenon
<1> HIDE DEF all
<1>4. \A i \in 1..Len(a) : all[i] = a[i]
  BY <1>0, <1>1, <1>2, <1>3
<1>5. ASSUME NEW i \in 1..Len(b) PROVE all[Len(a) + i] = b[i]
  <2> DEFINE j == Len(a) + i
  <2>1. j \in 1..Len(a) + Len(b) /\ ~(j <= Len(a)) /\ j - Len(a) = i
    BY <1>0
  <2> HIDE DEF j
  <2> SUFFICES all[j] = b[i]
    BY DEF j
  <2> QED BY <1>0, <1>1, <1>2, <1>3, <2>1
<1>6. ASSUME NEW i \in 1..Len(c) PROVE all[Len(a) + Len(b) + i] = c[i]
  <2> DEFINE j == Len(a) + Len(b) + i
  <2>1. j \in 1..Len(ab) + Len(c) /\ ~(j <= Len(ab)) /\ j - Len(ab) = i
    BY <1>0, <1>1
  <2> HIDE DEF j
  <2> SUFFICES all[j] = c[i]
    BY DEF j
  <2> QED BY <1>0, <1>1, <1>2, <1>3, <2>1
<1>7. ASSUME NEW i \in 1..Len(d) PROVE all[Len(a) + Len(b) + Len(c) + i] = d[i]
  <2> DEFINE j == Len(a) + Len(b) + Len(c) + i
  <2>1. j \in 1..Len(abc) + Len(d) /\ ~(j <= Len(abc)) /\ j - Len(abc) = i
    BY <1>0, <1>1, <1>2
  <2> HIDE DEF j
  <2> SUFFICES all[j] = d[i]
    BY DEF j
  <2> QED BY <1>0, <1>1, <1>2, <1>3, <2>1
<1>8. Len(all) = Len(a) + Len(b) + Len(c) + Len(d)
  BY <1>0, <1>1, <1>2, <1>3
<1>9. Joined(S, a, b, c, d, all)
  BY <1>3, <1>4, <1>5, <1>6, <1>7, <1>8 DEF Joined
<1> QED BY <1>9 DEF all, abc, ab

(* The outline of a hunk: the lines both texts begin with, the removed and  *)
(* the added ones, the lines both end with, where the hunk begins and how   *)
(* much it shows after the change.                                          *)
Outlines == [before: Nat, removed: Nat, added: Nat, after: Nat, first: Nat \ {0}, shown: Nat]

Lead(q) == q.before - q.first + 1

Outlined(q, a, b, h) ==
    /\ Len(a) = q.before + q.removed + q.after
    /\ Len(b) = q.before + q.added + q.after
    /\ q.removed + q.added > 0
    /\ \A i \in 1..q.before : a[i] = b[i]
    /\ \A i \in 1..q.after : a[q.before + q.removed + i] = b[q.before + q.added + i]
    /\ q.first <= q.before + 1 /\ q.shown <= q.after
    /\ h.start = q.first
    /\ Len(h.lines) = Lead(q) + q.removed + q.added + q.shown
    /\ \A i \in 1..Lead(q) : h.lines[i] = [sign |-> " ", line |-> a[q.first + i - 1]]
    /\ \A i \in 1..q.removed :
          h.lines[Lead(q) + i] = [sign |-> "-", line |-> a[q.before + i]]
    /\ \A i \in 1..q.added :
          h.lines[Lead(q) + q.removed + i] = [sign |-> "+", line |-> b[q.before + i]]
    /\ \A i \in 1..q.shown :
          h.lines[Lead(q) + q.removed + q.added + i]
            = [sign |-> " ", line |-> a[q.before + q.removed + i]]

LEMMA SumOfParts ==
    ASSUME NEW n \in Int, NEW x \in Int, NEW y \in Int, NEW r, NEW m, r = n - x, m = r - y
    PROVE  n = x + m + y
OBVIOUS

LEMMA HunkShape ==
    ASSUME NEW S, NEW a \in Seq(S), NEW b \in Seq(S), a # b
    PROVE  /\ \E q \in Outlines : Outlined(q, a, b, Hunk(a, b))
           /\ Hunk(a, b).lines \in Seq([sign: {" ", "-", "+"}, line: S])
<1> DEFINE prefix == Common(a, b)
           x == Len(prefix)
           ra == SubSeq(a, x + 1, Len(a))
           rb == SubSeq(b, x + 1, Len(b))
           back == Common(Reverse(ra), Reverse(rb))
           suffix == Reverse(back)
           y == Len(suffix)
           ma == SubSeq(ra, 1, Len(ra) - y)
           mb == SubSeq(rb, 1, Len(rb) - y)
           first == Max({1, x - Context + 1})
           last == Min({y, Context})
           lead == SubSeq(prefix, first, x)
           tail == SubSeq(suffix, 1, last)
           R == [sign: {" ", "-", "+"}, line: S]
<1>0. Len(a) \in Nat /\ Len(b) \in Nat /\ Context \in Nat \ {0}
  BY LenProperties, ReportAssumption
<1>1. Hunk(a, b) = [start |-> first,
                    lines |-> Marked(" ", lead) \o Marked("-", ma) \o Marked("+", mb)
                              \o Marked(" ", tail)]
  BY DEF Hunk
<1>2. /\ prefix \in Seq(S) /\ x \in Nat /\ x <= Len(a) /\ x <= Len(b)
      /\ \A i \in 1..x : prefix[i] = a[i] /\ a[i] = b[i]
  BY CommonShape, LenProperties
<1> HIDE DEF prefix
<1> HIDE DEF x
<1>3. /\ ra \in Seq(S) /\ Len(ra) = Len(a) - x /\ \A i \in 1..Len(a) - x : ra[i] = a[x + i]
      /\ rb \in Seq(S) /\ Len(rb) = Len(b) - x /\ \A i \in 1..Len(b) - x : rb[i] = b[x + i]
  <2> DEFINE k == x + 1
  <2>r. ra = SubSeq(a, k, Len(a)) /\ rb = SubSeq(b, k, Len(b))
    OBVIOUS
  <2>1. /\ k \in Nat \ {0}
        /\ Len(a) \in 0..Len(a) /\ k <= Len(a) + 1 /\ Len(a) - k + 1 = Len(a) - x
        /\ Len(b) \in 0..Len(b) /\ k <= Len(b) + 1 /\ Len(b) - k + 1 = Len(b) - x
        /\ \A i \in Nat : k + i - 1 = x + i
    BY <1>0, <1>2
  <2> HIDE DEF k, ra, rb
  <2>2. /\ ra \in Seq(S) /\ Len(ra) = Len(a) - k + 1
        /\ \A i \in 1..Len(a) - k + 1 : ra[i] = a[k + i - 1]
    <3>1. /\ SubSeq(a, k, Len(a)) \in Seq(S) /\ Len(SubSeq(a, k, Len(a))) = Len(a) - k + 1
          /\ \A i \in 1..Len(a) - k + 1 : SubSeq(a, k, Len(a))[i] = a[k + i - 1]
      BY <2>1, PartShape
    <3> QED BY <2>r, <3>1
  <2>3. /\ rb \in Seq(S) /\ Len(rb) = Len(b) - k + 1
        /\ \A i \in 1..Len(b) - k + 1 : rb[i] = b[k + i - 1]
    <3>1. /\ SubSeq(b, k, Len(b)) \in Seq(S) /\ Len(SubSeq(b, k, Len(b))) = Len(b) - k + 1
          /\ \A i \in 1..Len(b) - k + 1 : SubSeq(b, k, Len(b))[i] = b[k + i - 1]
      BY <2>1, PartShape
    <3> QED BY <2>r, <3>1
  <2>4. ASSUME NEW i \in 1..Len(a) - x PROVE ra[i] = a[x + i]
    <3>1. i \in 1..Len(a) - k + 1 /\ k + i - 1 = x + i
      BY <2>1
    <3> QED BY <2>2, <3>1
  <2>5. ASSUME NEW i \in 1..Len(b) - x PROVE rb[i] = b[x + i]
    <3>1. i \in 1..Len(b) - k + 1 /\ k + i - 1 = x + i
      BY <2>1
    <3> QED BY <2>3, <3>1
  <2> QED BY <2>1, <2>2, <2>3, <2>4, <2>5
<1> HIDE DEF ra, rb
<1>4. /\ Reverse(ra) \in Seq(S) /\ Len(Reverse(ra)) = Len(ra)
      /\ \A i \in 1..Len(ra) : Reverse(ra)[i] = ra[Len(ra) - i + 1]
      /\ Reverse(rb) \in Seq(S) /\ Len(Reverse(rb)) = Len(rb)
      /\ \A i \in 1..Len(rb) : Reverse(rb)[i] = rb[Len(rb) - i + 1]
  BY <1>3, ReverseShape
<1>5. /\ back \in Seq(S) /\ Len(back) \in Nat /\ Len(back) <= Len(ra) /\ Len(back) <= Len(rb)
      /\ \A i \in 1..Len(back) : back[i] = Reverse(ra)[i] /\ Reverse(ra)[i] = Reverse(rb)[i]
  BY <1>4, CommonShape, LenProperties
<1> HIDE DEF back
<1>6. suffix \in Seq(S) /\ y = Len(back) /\ \A i \in 1..y : suffix[i] = back[y - i + 1]
  BY <1>5, ReverseShape
<1> HIDE DEF suffix
<1> HIDE DEF y
<1>7. ASSUME NEW i \in 1..y
      PROVE  /\ suffix[i] = ra[Len(ra) - y + i] /\ suffix[i] = rb[Len(rb) - y + i]
  <2> DEFINE j == y - i + 1
  <2>1. /\ j \in 1..Len(back) /\ j \in 1..Len(ra) /\ j \in 1..Len(rb)
        /\ Len(ra) - j + 1 = Len(ra) - y + i /\ Len(rb) - j + 1 = Len(rb) - y + i
    BY <1>0, <1>2, <1>3, <1>5, <1>6
  <2>2. suffix[i] = back[j]
    BY <1>6
  <2> HIDE DEF j
  <2>3. back[j] = ra[Len(ra) - j + 1] /\ back[j] = rb[Len(rb) - j + 1]
    BY <1>4, <1>5, <2>1
  <2> QED BY <2>1, <2>2, <2>3
<1>8. /\ ma \in Seq(S) /\ Len(ma) = Len(ra) - y /\ \A i \in 1..Len(ra) - y : ma[i] = ra[i]
      /\ mb \in Seq(S) /\ Len(mb) = Len(rb) - y /\ \A i \in 1..Len(rb) - y : mb[i] = rb[i]
  <2>1. /\ Len(ra) - y \in 0..Len(ra) /\ 1 <= Len(ra) - y + 1 /\ (Len(ra) - y) - 1 + 1 = Len(ra) - y
        /\ Len(rb) - y \in 0..Len(rb) /\ 1 <= Len(rb) - y + 1 /\ (Len(rb) - y) - 1 + 1 = Len(rb) - y
        /\ 1 \in Nat \ {0} /\ \A i \in Int : 1 + i - 1 = i
    BY <1>0, <1>2, <1>3, <1>5, <1>6
  <2>2. /\ ma \in Seq(S) /\ Len(ma) = (Len(ra) - y) - 1 + 1
        /\ \A i \in 1..(Len(ra) - y) - 1 + 1 : ma[i] = ra[1 + i - 1]
    BY <1>3, <2>1, PartShape
  <2>3. /\ mb \in Seq(S) /\ Len(mb) = (Len(rb) - y) - 1 + 1
        /\ \A i \in 1..(Len(rb) - y) - 1 + 1 : mb[i] = rb[1 + i - 1]
    BY <1>3, <2>1, PartShape
  <2> QED BY <2>1, <2>2, <2>3
<1> HIDE DEF ma, mb
<1>9. first \in Nat \ {0} /\ first <= x + 1 /\ last \in Nat /\ last <= y /\ y \in Nat
  <2>1. x - Context + 1 \in Int /\ y \in Int /\ y \in Nat
    BY <1>0, <1>2, <1>5, <1>6
  <2>a. 1 \in Int /\ Context \in Int
    BY <1>0
  <2>2. first \in {1, x - Context + 1} /\ first >= 1
    BY <2>1, <2>a, MaxOfTwo, Zenon
  <2>3. last \in {y, Context} /\ last <= y
    BY <2>1, <2>a, MinOfTwo, Zenon
  <2> HIDE DEF first, last
  <2> QED BY <1>0, <1>2, <2>1, <2>2, <2>3
<1> HIDE DEF first, last
<1>10. /\ lead \in Seq(S) /\ Len(lead) = x - first + 1
       /\ \A i \in 1..x - first + 1 : lead[i] = prefix[first + i - 1]
  <2>1. Len(prefix) = x /\ x \in 0..Len(prefix)
    BY <1>2 DEF x
  <2> QED BY <1>2, <1>9, <2>1, PartShape
<1>11. /\ tail \in Seq(S) /\ Len(tail) = last /\ \A i \in 1..last : tail[i] = suffix[i]
  <2>1. last \in 0..Len(suffix) /\ 1 <= last + 1 /\ last - 1 + 1 = last
        /\ 1 \in Nat \ {0} /\ \A i \in Int : 1 + i - 1 = i
    BY <1>9 DEF y
  <2>2. /\ tail \in Seq(S) /\ Len(tail) = last - 1 + 1
        /\ \A i \in 1..last - 1 + 1 : tail[i] = suffix[1 + i - 1]
    BY <1>6, <2>1, PartShape
  <2> QED BY <2>1, <2>2
<1> HIDE DEF lead, tail
<1> DEFINE A == Marked(" ", lead)
           B == Marked("-", ma)
           C == Marked("+", mb)
           D == Marked(" ", tail)
<1>12. /\ A \in Seq(R) /\ Len(A) = Len(lead)
       /\ \A i \in 1..Len(lead) : A[i] = [sign |-> " ", line |-> lead[i]]
       /\ B \in Seq(R) /\ Len(B) = Len(ma)
       /\ \A i \in 1..Len(ma) : B[i] = [sign |-> "-", line |-> ma[i]]
       /\ C \in Seq(R) /\ Len(C) = Len(mb)
       /\ \A i \in 1..Len(mb) : C[i] = [sign |-> "+", line |-> mb[i]]
       /\ D \in Seq(R) /\ Len(D) = Len(tail)
       /\ \A i \in 1..Len(tail) : D[i] = [sign |-> " ", line |-> tail[i]]
  <2> DEFINE G == {" ", "-", "+"}
  <2>1. " " \in G /\ "-" \in G /\ "+" \in G
    OBVIOUS
  <2> HIDE DEF G
  <2>2. /\ A \in Seq([sign: G, line: S]) /\ Len(A) = Len(lead)
        /\ \A i \in 1..Len(lead) : A[i] = [sign |-> " ", line |-> lead[i]]
    BY <1>10, <2>1, MarkedShape
  <2>3. /\ B \in Seq([sign: G, line: S]) /\ Len(B) = Len(ma)
        /\ \A i \in 1..Len(ma) : B[i] = [sign |-> "-", line |-> ma[i]]
    BY <1>8, <2>1, MarkedShape
  <2>4. /\ C \in Seq([sign: G, line: S]) /\ Len(C) = Len(mb)
        /\ \A i \in 1..Len(mb) : C[i] = [sign |-> "+", line |-> mb[i]]
    BY <1>8, <2>1, MarkedShape
  <2>5. /\ D \in Seq([sign: G, line: S]) /\ Len(D) = Len(tail)
        /\ \A i \in 1..Len(tail) : D[i] = [sign |-> " ", line |-> tail[i]]
    BY <1>11, <2>1, MarkedShape
  <2> QED BY <2>2, <2>3, <2>4, <2>5 DEF G
<1> HIDE DEF A, B, C, D, R
<1> DEFINE H == A \o B \o C \o D
<1>13. /\ H \in Seq(R)
       /\ Len(H) = Len(A) + Len(B) + Len(C) + Len(D)
       /\ \A i \in 1..Len(A) : H[i] = A[i]
       /\ \A i \in 1..Len(B) : H[Len(A) + i] = B[i]
       /\ \A i \in 1..Len(C) : H[Len(A) + Len(B) + i] = C[i]
       /\ \A i \in 1..Len(D) : H[Len(A) + Len(B) + Len(C) + i] = D[i]
  <2>1. A \in Seq(R) /\ B \in Seq(R) /\ C \in Seq(R) /\ D \in Seq(R)
    BY <1>12
  <2>2. Joined(R, A, B, C, D, H)
    BY <2>1, FourParts, Zenon
  <2> QED BY <2>2, Zenon DEF Joined
<1>14. Hunk(a, b).start = first /\ Hunk(a, b).lines = H
  <2>1. Hunk(a, b) = [start |-> first, lines |-> H]
    BY <1>1, Zenon DEF A, B, C, D
  <2> HIDE DEF H
  <2> QED BY <2>1
<1> HIDE DEF H
<1>c. /\ x \in Nat /\ y \in Nat /\ first \in Nat \ {0} /\ last \in Nat
      /\ first <= x + 1 /\ last <= y
      /\ Len(ra) = Len(a) - x /\ Len(rb) = Len(b) - x
      /\ Len(ma) = Len(ra) - y /\ Len(mb) = Len(rb) - y
      /\ Len(lead) = x - first + 1 /\ Len(tail) = last
      /\ Len(A) = Len(lead) /\ Len(B) = Len(ma) /\ Len(C) = Len(mb) /\ Len(D) = Len(tail)
  BY <1>2, <1>3, <1>8, <1>9, <1>10, <1>11, <1>12
<1> DEFINE q == [before |-> x, removed |-> Len(ma), added |-> Len(mb), after |-> y,
                 first |-> first, shown |-> last]
<1>15. q \in Outlines
  <2>1. Len(ma) \in Nat /\ Len(mb) \in Nat
    BY <1>8, LenProperties
  <2> QED BY <1>2, <1>9, <2>1 DEF Outlines
<1>16. Len(ma) + Len(mb) > 0
  <2> SUFFICES ASSUME Len(ma) = 0, Len(mb) = 0 PROVE a = b
    BY <1>15 DEF Outlines
  <2>1. Len(ra) = y /\ Len(rb) = y /\ Len(a) = x + y /\ Len(b) = x + y
    BY <1>0, <1>c
  <2>2. ASSUME NEW i \in 1..Len(a) PROVE a[i] = b[i]
    <3>1. CASE i \in 1..x
      BY <1>2, <3>1
    <3>2. CASE i \in x + 1..x + y
      <4> DEFINE j == i - x
      <4>1. j \in 1..y /\ i = x + j /\ j \in 1..Len(a) - x /\ j \in 1..Len(b) - x
            /\ y - y + j = j
        BY <1>2, <1>9, <2>1, <3>2
      <4> HIDE DEF j
      <4>2. ra[j] = rb[j]
        BY <1>7, <2>1, <4>1
      <4>3. ra[j] = a[x + j] /\ rb[j] = b[x + j]
        BY <1>3, <4>1
      <4> QED BY <4>1, <4>2, <4>3
    <3> QED BY <1>2, <1>9, <2>1, <3>1, <3>2
  <2> QED BY <2>1, <2>2, SeqEqual
<1>17. Outlined(q, a, b, Hunk(a, b))
  <2>1. Len(a) = x + Len(ma) + y /\ Len(b) = x + Len(mb) + y
    <3>1. Len(a) \in Int /\ Len(b) \in Int /\ x \in Int /\ y \in Int
      BY <1>0, <1>2, <1>9
    <3>2. /\ Len(ra) = Len(a) - x /\ Len(ma) = Len(ra) - y
          /\ Len(rb) = Len(b) - x /\ Len(mb) = Len(rb) - y
      BY <1>c, Zenon
    <3> HIDE DEF q
    <3>3. Len(a) = x + Len(ma) + y
      BY <3>1, <3>2, SumOfParts
    <3>4. Len(b) = x + Len(mb) + y
      BY <3>1, <3>2, SumOfParts
    <3> QED BY <3>3, <3>4, Zenon
  <2>2. ASSUME NEW i \in 1..y
        PROVE  a[x + Len(ma) + i] = b[x + Len(mb) + i] /\ suffix[i] = a[x + Len(ma) + i]
    <3> DEFINE j == Len(ma) + i
               k == Len(mb) + i
    <3>1. /\ j \in 1..Len(a) - x /\ j = Len(ra) - y + i
          /\ k \in 1..Len(b) - x /\ k = Len(rb) - y + i
          /\ x + j = x + Len(ma) + i /\ x + k = x + Len(mb) + i
      BY <1>2, <1>3, <1>8, <1>9, <1>15, <2>1 DEF Outlines
    <3> HIDE DEF j, k
    <3>2. suffix[i] = ra[j] /\ suffix[i] = rb[k]
      BY <1>7, <3>1
    <3>3. ra[j] = a[x + j] /\ rb[k] = b[x + k]
      BY <1>3, <3>1
    <3> QED BY <3>1, <3>2, <3>3
  <2>3. \A i \in 1..x - first + 1 : H[i] = [sign |-> " ", line |-> a[first + i - 1]]
    <3> TAKE i \in 1..x - first + 1
    <3>1. i \in 1..Len(A) /\ first + i - 1 \in 1..x
      BY <1>c
    <3>2. H[i] = [sign |-> " ", line |-> lead[i]]
      BY <1>10, <1>12, <1>13, <3>1
    <3> QED BY <1>2, <1>10, <3>1, <3>2
  <2>4. \A i \in 1..Len(ma) : H[Len(A) + i] = [sign |-> "-", line |-> a[x + i]]
    <3> TAKE i \in 1..Len(ma)
    <3>1. i \in 1..Len(B) /\ i \in 1..Len(ra) - y /\ i \in 1..Len(a) - x
      BY <1>0, <1>c
    <3>2. ma[i] = a[x + i]
      BY <1>3, <1>8, <3>1
    <3> QED BY <1>12, <1>13, <3>1, <3>2
  <2>5. \A i \in 1..Len(mb) : H[Len(A) + Len(B) + i] = [sign |-> "+", line |-> b[x + i]]
    <3> TAKE i \in 1..Len(mb)
    <3>1. i \in 1..Len(C) /\ i \in 1..Len(rb) - y /\ i \in 1..Len(b) - x
      BY <1>0, <1>c
    <3>2. mb[i] = b[x + i]
      BY <1>3, <1>8, <3>1
    <3> QED BY <1>12, <1>13, <3>1, <3>2
  <2>6. \A i \in 1..last :
          H[Len(A) + Len(B) + Len(C) + i] = [sign |-> " ", line |-> a[x + Len(ma) + i]]
    <3> TAKE i \in 1..last
    <3>1. i \in 1..Len(D) /\ i \in 1..y
      BY <1>c
    <3>2. tail[i] = a[x + Len(ma) + i]
      BY <1>11, <2>2, <3>1
    <3> QED BY <1>11, <1>12, <1>13, <3>1, <3>2
  <2>7. Len(A) = x - first + 1 /\ Len(B) = Len(ma) /\ Len(C) = Len(mb) /\ Len(D) = last
    BY <1>10, <1>11, <1>12
  <2>8. Lead(q) = x - first + 1
    BY DEF Lead
  <2>9. \A i \in 1..q.before : a[i] = b[i]
    BY <1>2
  <2>10. \A i \in 1..q.after : a[q.before + q.removed + i] = b[q.before + q.added + i]
    BY <2>2
  <2>11. Len(H) = Lead(q) + q.removed + q.added + q.shown
    BY <1>13, <2>7, <2>8
  <2>12. \A i \in 1..Lead(q) : H[i] = [sign |-> " ", line |-> a[q.first + i - 1]]
    BY <2>3, <2>8
  <2>13. \A i \in 1..q.removed : H[Lead(q) + i] = [sign |-> "-", line |-> a[q.before + i]]
    BY <2>4, <2>7, <2>8
  <2>14. \A i \in 1..q.added :
           H[Lead(q) + q.removed + i] = [sign |-> "+", line |-> b[q.before + i]]
    BY <2>5, <2>7, <2>8
  <2>15. \A i \in 1..q.shown :
           H[Lead(q) + q.removed + q.added + i] = [sign |-> " ", line |-> a[q.before + q.removed + i]]
    BY <2>6, <2>7, <2>8
  <2>16. /\ Len(a) = q.before + q.removed + q.after /\ Len(b) = q.before + q.added + q.after
         /\ q.removed + q.added > 0 /\ q.first <= q.before + 1 /\ q.shown <= q.after
         /\ Hunk(a, b).start = q.first /\ Hunk(a, b).lines = H
    BY <1>9, <1>14, <1>16, <2>1
  <2> HIDE DEF q
  <2> QED BY <2>9, <2>10, <2>11, <2>12, <2>13, <2>14, <2>15, <2>16 DEF Outlined
<1> QED BY <1>13, <1>14, <1>15, <1>17 DEF R

--------------------------------------------------------------------------------
(* Line numbers along a hunk *)

(* The numbers of the next old and of the next new line after k lines.      *)
OldAt(q, k) ==
    IF k <= Lead(q) + q.removed THEN q.first + k
    ELSE IF k <= Lead(q) + q.removed + q.added THEN q.before + q.removed + 1
    ELSE q.first + k - q.added

NewAt(q, k) ==
    IF k <= Lead(q) THEN q.first + k
    ELSE IF k <= Lead(q) + q.removed THEN q.before + 1
    ELSE q.first + k - q.removed

(* The last lines that the hunk shows.                                      *)
OldEnd(q) == q.before + q.removed + q.shown
NewEnd(q) == q.before + q.added + q.shown

LEMMA OutlineType ==
    ASSUME NEW q \in Outlines, NEW a, NEW b, NEW h, Outlined(q, a, b, h)
    PROVE  /\ q.before \in Nat /\ q.removed \in Nat /\ q.added \in Nat /\ q.after \in Nat
           /\ q.first \in Nat \ {0} /\ q.shown \in Nat /\ q.shown <= q.after
           /\ q.first + Lead(q) = q.before + 1 /\ Lead(q) \in Nat
           /\ Len(h.lines) = Lead(q) + q.removed + q.added + q.shown
           /\ Len(a) = q.before + q.removed + q.after
           /\ Len(b) = q.before + q.added + q.after
           /\ q.removed + q.added > 0
<1>1. /\ q.before \in Nat /\ q.removed \in Nat /\ q.added \in Nat /\ q.after \in Nat
      /\ q.first \in Nat \ {0} /\ q.shown \in Nat
  BY DEF Outlines
<1>2. q.first <= q.before + 1 /\ q.shown <= q.after
  BY DEF Outlined
<1>3. q.first + Lead(q) = q.before + 1 /\ Lead(q) \in Nat
  BY <1>1, <1>2 DEF Lead
<1>4. /\ Len(h.lines) = Lead(q) + q.removed + q.added + q.shown
      /\ Len(a) = q.before + q.removed + q.after
      /\ Len(b) = q.before + q.added + q.after
      /\ q.removed + q.added > 0
  BY DEF Outlined
<1> QED BY <1>1, <1>2, <1>3, <1>4

(* A line that is not added is the old line of the number it gets, one that *)
(* is not removed the new line, and the numbers move on accordingly.        *)
LineOk(q, a, b, l, i) ==
    /\ l.sign \in {" ", "-", "+"}
    /\ OldAt(q, i) = IF l.sign = "+" THEN OldAt(q, i - 1) ELSE OldAt(q, i - 1) + 1
    /\ NewAt(q, i) = IF l.sign = "-" THEN NewAt(q, i - 1) ELSE NewAt(q, i - 1) + 1
    /\ l.sign # "+" => OldAt(q, i - 1) \in q.first..OldEnd(q) /\ l.line = a[OldAt(q, i - 1)]
    /\ l.sign # "-" => NewAt(q, i - 1) \in q.first..NewEnd(q) /\ l.line = b[NewAt(q, i - 1)]

LEMMA Located ==
    ASSUME NEW q \in Outlines, NEW a, NEW b, NEW h, Outlined(q, a, b, h),
           NEW i \in 1..Len(h.lines)
    PROVE  LineOk(q, a, b, h.lines[i], i)
<1> DEFINE p == q.before
           m == q.removed
           n == q.added
           s == q.after
           f == q.first
           z == q.shown
           e == Lead(q)
           N == Len(h.lines)
           l == h.lines[i]
           Old(k) == OldAt(q, k)
           New(k) == NewAt(q, k)
<1>0. /\ p \in Nat /\ m \in Nat /\ n \in Nat /\ s \in Nat /\ f \in Nat \ {0} /\ z \in Nat
      /\ z <= s /\ f + e = p + 1 /\ e \in Nat /\ N = e + m + n + z /\ i \in 1..N
  BY OutlineType
<1>1. \A k \in Int :
         /\ Old(k) = IF k <= e + m THEN f + k ELSE IF k <= e + m + n THEN p + m + 1 ELSE f + k - n
         /\ New(k) = IF k <= e THEN f + k ELSE IF k <= e + m THEN p + 1 ELSE f + k - m
  BY DEF OldAt, NewAt
<1>2. /\ \A k \in 1..p : a[k] = b[k]
      /\ \A k \in 1..s : a[p + m + k] = b[p + n + k]
      /\ \A k \in 1..e : h.lines[k] = [sign |-> " ", line |-> a[f + k - 1]]
      /\ \A k \in 1..m : h.lines[e + k] = [sign |-> "-", line |-> a[p + k]]
      /\ \A k \in 1..n : h.lines[e + m + k] = [sign |-> "+", line |-> b[p + k]]
      /\ \A k \in 1..z : h.lines[e + m + n + k] = [sign |-> " ", line |-> a[p + m + k]]
  BY Zenon DEF Outlined
<1>3. OldEnd(q) = p + m + z /\ NewEnd(q) = p + n + z
  BY DEF OldEnd, NewEnd
<1> SUFFICES /\ l.sign \in {" ", "-", "+"}
             /\ Old(i) = IF l.sign = "+" THEN Old(i - 1) ELSE Old(i - 1) + 1
             /\ New(i) = IF l.sign = "-" THEN New(i - 1) ELSE New(i - 1) + 1
             /\ l.sign # "+" => Old(i - 1) \in f..p + m + z /\ l.line = a[Old(i - 1)]
             /\ l.sign # "-" => New(i - 1) \in f..p + n + z /\ l.line = b[New(i - 1)]
  BY <1>3, Zenon DEF LineOk
<1> HIDE DEF p, m, n, s, f, z, e, N, Old, New
<1>9. i \in Int /\ i - 1 \in Int
  BY <1>0
<1>10. /\ Old(i) = IF i <= e + m THEN f + i ELSE IF i <= e + m + n THEN p + m + 1 ELSE f + i - n
       /\ New(i) = IF i <= e THEN f + i ELSE IF i <= e + m THEN p + 1 ELSE f + i - m
  BY <1>1, <1>9, Zenon
<1>11. /\ Old(i - 1) = IF i - 1 <= e + m THEN f + (i - 1)
                       ELSE IF i - 1 <= e + m + n THEN p + m + 1 ELSE f + (i - 1) - n
       /\ New(i - 1) = IF i - 1 <= e THEN f + (i - 1)
                       ELSE IF i - 1 <= e + m THEN p + 1 ELSE f + (i - 1) - m
  BY <1>1, <1>9, Zenon
<1> HIDE DEF l
<1>4. CASE i \in 1..e
  <2>1. l = [sign |-> " ", line |-> a[f + i - 1]]
    BY <1>2, <1>4 DEF l
  <2>2. /\ Old(i) = f + i /\ Old(i - 1) = f + i - 1
        /\ New(i) = f + i /\ New(i - 1) = f + i - 1
    BY <1>0, <1>10, <1>11, <1>4
  <2>3. f + i - 1 \in 1..p /\ f + i - 1 \in f..p + m + z /\ f + i - 1 \in f..p + n + z
    BY <1>0, <1>4
  <2>4. a[f + i - 1] = b[f + i - 1]
    BY <1>2, <2>3
  <2>5. Old(i) = Old(i - 1) + 1 /\ New(i) = New(i - 1) + 1
    BY <1>0, <2>2
  <2>6. l.sign = " " /\ l.line = a[f + i - 1]
    BY <2>1
  <2> QED BY <2>2, <2>3, <2>4, <2>5, <2>6
<1>5. CASE i \in e + 1..e + m
  <2> DEFINE j == i - e
  <2>1. j \in 1..m /\ i = e + j
    BY <1>0, <1>5
  <2> HIDE DEF j
  <2>2. l = [sign |-> "-", line |-> a[p + j]]
    BY <1>2, <2>1 DEF l
  <2>3. Old(i) = p + j + 1 /\ Old(i - 1) = p + j /\ New(i) = p + 1 /\ New(i - 1) = p + 1
    BY <1>0, <1>10, <1>11, <2>1
  <2>4. p + j \in f..p + m + z
    BY <1>0, <2>1
  <2> QED BY <1>0, <2>2, <2>3, <2>4
<1>6. CASE i \in e + m + 1..e + m + n
  <2> DEFINE j == i - e - m
  <2>1. j \in 1..n /\ i = e + m + j
    BY <1>0, <1>6
  <2> HIDE DEF j
  <2>2. l = [sign |-> "+", line |-> b[p + j]]
    BY <1>2, <2>1 DEF l
  <2>3. /\ New(i) = p + j + 1 /\ New(i - 1) = p + j
        /\ Old(i) = p + m + 1 /\ Old(i - 1) = p + m + 1
    BY <1>0, <1>10, <1>11, <2>1
  <2>4. p + j \in f..p + n + z
    BY <1>0, <2>1
  <2> QED BY <1>0, <2>2, <2>3, <2>4
<1>7. CASE i \in e + m + n + 1..N
  <2> DEFINE j == i - e - m - n
  <2>1. j \in 1..z /\ i = e + m + n + j /\ j \in 1..s
    BY <1>0, <1>7
  <2> HIDE DEF j
  <2>2. l = [sign |-> " ", line |-> a[p + m + j]]
    BY <1>2, <2>1 DEF l
  <2>3. /\ Old(i) = p + m + j + 1 /\ Old(i - 1) = p + m + j
        /\ New(i) = p + n + j + 1 /\ New(i - 1) = p + n + j
    BY <1>0, <1>10, <1>11, <2>1
  <2>4. a[p + m + j] = b[p + n + j]
    BY <1>2, <2>1
  <2>5. p + m + j \in f..p + m + z /\ p + n + j \in f..p + n + z
    BY <1>0, <2>1
  <2> QED BY <1>0, <2>2, <2>3, <2>4, <2>5
<1>8. i \in 1..e \/ i \in e + 1..e + m \/ i \in e + m + 1..e + m + n \/ i \in e + m + n + 1..N
  BY <1>0
<1> QED BY <1>4, <1>5, <1>6, <1>7, <1>8

(* Every line between the first and the last of a hunk is shown.            *)
LEMMA NumbersCovered ==
    ASSUME NEW q \in Outlines, NEW a, NEW b, NEW h, Outlined(q, a, b, h)
    PROVE  /\ \A x \in q.first..OldEnd(q) :
                 \E i \in 1..Len(h.lines) : h.lines[i].sign # "+" /\ OldAt(q, i - 1) = x
           /\ \A x \in q.first..NewEnd(q) :
                 \E i \in 1..Len(h.lines) : h.lines[i].sign # "-" /\ NewAt(q, i - 1) = x
<1> DEFINE p == q.before
           m == q.removed
           n == q.added
           s == q.after
           f == q.first
           z == q.shown
           e == Lead(q)
           N == Len(h.lines)
           Old(k) == OldAt(q, k)
           New(k) == NewAt(q, k)
           Sign(k) == h.lines[k].sign
<1>0. /\ p \in Nat /\ m \in Nat /\ n \in Nat /\ s \in Nat /\ f \in Nat \ {0} /\ z \in Nat
      /\ z <= s /\ f + e = p + 1 /\ e \in Nat /\ N = e + m + n + z
  BY OutlineType
<1>1. \A k \in Int :
         /\ Old(k) = IF k <= e + m THEN f + k ELSE IF k <= e + m + n THEN p + m + 1 ELSE f + k - n
         /\ New(k) = IF k <= e THEN f + k ELSE IF k <= e + m THEN p + 1 ELSE f + k - m
  BY DEF OldAt, NewAt
<1>2. /\ \A k \in 1..e : Sign(k) = " "
      /\ \A k \in 1..m : Sign(e + k) = "-"
      /\ \A k \in 1..n : Sign(e + m + k) = "+"
      /\ \A k \in 1..z : Sign(e + m + n + k) = " "
  <2>1. /\ \A k \in 1..e : h.lines[k] = [sign |-> " ", line |-> a[f + k - 1]]
        /\ \A k \in 1..m : h.lines[e + k] = [sign |-> "-", line |-> a[p + k]]
        /\ \A k \in 1..n : h.lines[e + m + k] = [sign |-> "+", line |-> b[p + k]]
        /\ \A k \in 1..z : h.lines[e + m + n + k] = [sign |-> " ", line |-> a[p + m + k]]
    BY Zenon DEF Outlined
  <2> HIDE DEF p, m, n, s, f, z, e
  <2>2. ASSUME NEW k \in 1..e PROVE Sign(k) = " "
    <3> DEFINE l == h.lines[k]
    <3>1. l = [sign |-> " ", line |-> a[f + k - 1]]
      BY <2>1
    <3> HIDE DEF l
    <3>2. l.sign = " "
      BY <3>1
    <3> QED BY <3>2 DEF l
  <2>3. ASSUME NEW k \in 1..m PROVE Sign(e + k) = "-"
    <3> DEFINE l == h.lines[e + k]
    <3>1. l = [sign |-> "-", line |-> a[p + k]]
      BY <2>1
    <3> HIDE DEF l
    <3>2. l.sign = "-"
      BY <3>1
    <3> QED BY <3>2 DEF l
  <2>4. ASSUME NEW k \in 1..n PROVE Sign(e + m + k) = "+"
    <3> DEFINE l == h.lines[e + m + k]
    <3>1. l = [sign |-> "+", line |-> b[p + k]]
      BY <2>1
    <3> HIDE DEF l
    <3>2. l.sign = "+"
      BY <3>1
    <3> QED BY <3>2 DEF l
  <2>5. ASSUME NEW k \in 1..z PROVE Sign(e + m + n + k) = " "
    <3> DEFINE l == h.lines[e + m + n + k]
    <3>1. l = [sign |-> " ", line |-> a[p + m + k]]
      BY <2>1
    <3> HIDE DEF l
    <3>2. l.sign = " "
      BY <3>1
    <3> QED BY <3>2 DEF l
  <2> HIDE DEF Sign
  <2> QED BY <2>2, <2>3, <2>4, <2>5
<1>3. OldEnd(q) = p + m + z /\ NewEnd(q) = p + n + z
  BY DEF OldEnd, NewEnd
<1> SUFFICES /\ \A x \in f..p + m + z : \E i \in 1..N : Sign(i) # "+" /\ Old(i - 1) = x
             /\ \A x \in f..p + n + z : \E i \in 1..N : Sign(i) # "-" /\ New(i - 1) = x
  BY <1>3
<1> HIDE DEF p, m, n, s, f, z, e, N, Old, New, Sign
<1>4. ASSUME NEW x \in f..p + m + z
      PROVE  \E i \in 1..N : Sign(i) # "+" /\ Old(i - 1) = x
  <2>1. CASE x \in f..p
    <3> DEFINE i == x - f + 1
    <3>1. i \in 1..e /\ i \in 1..N /\ i - 1 \in Int /\ f + (i - 1) = x /\ i - 1 <= e + m
      BY <1>0, <2>1
    <3> HIDE DEF i
    <3> QED BY <1>1, <1>2, <3>1
  <2>2. CASE x \in p + 1..p + m
    <3> DEFINE j == x - p
               i == e + j
    <3>1. j \in 1..m /\ i \in 1..N /\ i - 1 \in Int /\ f + (i - 1) = x /\ i - 1 <= e + m
      BY <1>0, <2>2
    <3> HIDE DEF j
    <3>2. Sign(i) = "-"
      BY <1>2, <3>1
    <3> HIDE DEF i
    <3> QED BY <1>1, <3>1, <3>2
  <2>3. CASE x \in p + m + 1..p + m + z
    <3> DEFINE j == x - p - m
               i == e + m + n + j
    <3>1. j \in 1..z /\ i \in 1..N /\ i - 1 \in Int
      BY <1>0, <2>3
    <3>2. Old(i - 1) = x
      BY <1>0, <1>1, <2>3
    <3> HIDE DEF j
    <3>3. Sign(i) = " "
      BY <1>2, <3>1
    <3> HIDE DEF i
    <3> QED BY <3>1, <3>2, <3>3
  <2> QED BY <1>0, <2>1, <2>2, <2>3
<1>5. ASSUME NEW x \in f..p + n + z
      PROVE  \E i \in 1..N : Sign(i) # "-" /\ New(i - 1) = x
  <2>1. CASE x \in f..p
    <3> DEFINE i == x - f + 1
    <3>1. i \in 1..e /\ i \in 1..N /\ i - 1 \in Int /\ f + (i - 1) = x /\ i - 1 <= e
      BY <1>0, <2>1
    <3> HIDE DEF i
    <3> QED BY <1>1, <1>2, <3>1
  <2>2. CASE x \in p + 1..p + n
    <3> DEFINE j == x - p
               i == e + m + j
    <3>1. j \in 1..n /\ i \in 1..N /\ i - 1 \in Int
      BY <1>0, <2>2
    <3>2. New(i - 1) = x
      BY <1>0, <1>1, <2>2
    <3> HIDE DEF j
    <3>3. Sign(i) = "+"
      BY <1>2, <3>1
    <3> HIDE DEF i
    <3> QED BY <3>1, <3>2, <3>3
  <2>3. CASE x \in p + n + 1..p + n + z
    <3> DEFINE j == x - p - n
               i == e + m + n + j
    <3>1. j \in 1..z /\ i \in 1..N /\ i - 1 \in Int
      BY <1>0, <2>3
    <3>2. New(i - 1) = x
      BY <1>0, <1>1, <2>3
    <3> HIDE DEF j
    <3>3. Sign(i) = " "
      BY <1>2, <3>1
    <3> HIDE DEF i
    <3> QED BY <3>1, <3>2, <3>3
  <2> QED BY <1>0, <2>1, <2>2, <2>3
<1> QED BY <1>4, <1>5

--------------------------------------------------------------------------------
(* What a report does not show *)

LEMMA TwoIntervals ==
    ASSUME NEW u \in Nat, NEW v \in Nat, NEW w \in Nat, u <= v
    PROVE  Cardinality((1..u) \cup (v + 1..v + w)) = u + w
<1>1. IsFiniteSet(1..u) /\ Cardinality(1..u) = u
  BY FS_Interval
<1>2. IsFiniteSet(v + 1..v + w) /\ Cardinality(v + 1..v + w) = w
  <2> DEFINE x == v + 1
             y == v + w
  <2>1. x \in Int /\ y \in Int /\ (IF x > y THEN 0 ELSE y - x + 1) = w
    OBVIOUS
  <2> HIDE DEF x, y
  <2>2. IsFiniteSet(x..y) /\ Cardinality(x..y) = w
    BY <2>1, FS_Interval
  <2> QED BY <2>2 DEF x, y
<1>3. (1..u) \cap (v + 1..v + w) = {}
  OBVIOUS
<1>4. Cardinality((1..u) \cap (v + 1..v + w)) = 0
  BY <1>3, FS_EmptySet
<1> DEFINE I == 1..u
           J == v + 1..v + w
<1> HIDE DEF I, J
<1>5. IsFiniteSet(I) /\ IsFiniteSet(J) /\ Cardinality(I) = u /\ Cardinality(J) = w
      /\ Cardinality(I \cap J) = 0
  BY <1>1, <1>2, <1>4 DEF I, J
<1>6. Cardinality(I \cup J) = u + w - 0
  BY <1>5, FS_Union
<1>7. Cardinality(I \cup J) = u + w
  BY <1>6
<1> QED BY <1>7 DEF I, J

(* The place in a text of the k-th line of two runs of lines.               *)
Place(u, v, k) == IF k <= u THEN k ELSE v + (k - u)

Runs(t, u, v, w) == [k \in 1..u + w |-> t[Place(u, v, k)]]

(* The places of a text that are not shown.                                 *)
Hidden(t, shown) == {i \in DOMAIN t : i \notin shown}

LEMMA UnshownShape ==
    ASSUME NEW t, NEW shown, NEW u \in Nat, NEW v \in Nat, NEW w \in Nat, u <= v,
           Hidden(t, shown) = (1..u) \cup (v + 1..v + w)
    PROVE  Unshown(t, shown) = Runs(t, u, v, w)
<1> USE DEF Hidden
<1> DEFINE hidden == {i \in DOMAIN t : i \notin shown}
           Rank(i) == Cardinality({j \in hidden : j < i})
<1>1. Cardinality(hidden) = u + w
  BY TwoIntervals
<1>2. ASSUME NEW i \in 1..u PROVE Rank(i) = i - 1
  <2> DEFINE x == i - 1
  <2>1. x \in Nat /\ x <= v
    OBVIOUS
  <2>2. {j \in hidden : j < i} = (1..x) \cup (v + 1..v + 0)
    OBVIOUS
  <2>3. Cardinality((1..x) \cup (v + 1..v + 0)) = x + 0
    <3> HIDE DEF x
    <3> QED BY <2>1, TwoIntervals
  <2>4. x + 0 = i - 1
    OBVIOUS
  <2> QED BY <2>2, <2>3, <2>4
<1>3. ASSUME NEW k \in 1..w PROVE Rank(v + k) = u + k - 1
  <2> DEFINE x == k - 1
  <2>1. x \in Nat /\ u + x = u + k - 1
    OBVIOUS
  <2>2. {j \in hidden : j < v + k} = (1..u) \cup (v + 1..v + x)
    OBVIOUS
  <2>3. Cardinality((1..u) \cup (v + 1..v + x)) = u + x
    <3> HIDE DEF x
    <3> QED BY <2>1, TwoIntervals
  <2> QED BY <2>1, <2>2, <2>3
<1> HIDE DEF Rank
<1>4. ASSUME NEW k \in 1..u + w
      PROVE  (CHOOSE i \in hidden : Rank(i) = k - 1) = Place(u, v, k)
  <2>1. Place(u, v, k) \in hidden /\ Rank(Place(u, v, k)) = k - 1
    <3>1. CASE k <= u
      BY <1>2, <3>1 DEF Place
    <3>2. CASE k > u
      <4> DEFINE x == k - u
      <4>1. x \in 1..w /\ k = u + x
        BY <3>2
      <4>2. Place(u, v, k) = v + x
        BY <3>2 DEF Place
      <4> HIDE DEF x
      <4> QED BY <1>3, <4>1, <4>2
    <3> QED BY <3>1, <3>2
  <2>2. ASSUME NEW i \in hidden, Rank(i) = k - 1 PROVE i = Place(u, v, k)
    <3>1. CASE i \in 1..u
      BY <1>2, <2>2, <3>1 DEF Place
    <3>2. CASE i \in v + 1..v + w
      <4> DEFINE x == i - v
      <4>1. x \in 1..w /\ i = v + x
        BY <3>2
      <4> HIDE DEF x
      <4>2. u + x - 1 = k - 1
        BY <1>3, <2>2, <4>1
      <4> QED BY <4>1, <4>2 DEF Place
    <3> QED BY <3>1, <3>2
  <2> HIDE DEF hidden
  <2> QED BY <2>1, <2>2
<1>5. Unshown(t, shown)
        = [k \in 1..Cardinality(hidden) |-> t[CHOOSE i \in hidden : Rank(i) = k - 1]]
  BY DEF Unshown, Rank
<1> HIDE DEF hidden
<1> QED BY <1>1, <1>4, <1>5 DEF Runs

--------------------------------------------------------------------------------
(* The report along its diff, when no line looks like a header              *)

NoHeaders == Dashes = {} /\ Pluses = {}

AnyLine == Lines \cup {Blank}

Signed == [sign: {" ", "-", "+"}, line: AnyLine]

Change == UnifiedDiff(OldText, NewText)

(* The i-th row, made of the i-th line of the hunk.                         *)
RowAt(q, l, i) ==
    [old |-> IF l.sign = "+" THEN 0 ELSE OldAt(q, i - 1),
     new |-> IF l.sign = "-" THEN 0 ELSE NewAt(q, i - 1),
     sign |-> l.sign, code |-> l.line]

Numbering(q, h, n) ==
    /\ Outlined(q, OldText, NewText, h)
    /\ oldLine = OldAt(q, n) /\ newLine = NewAt(q, n)
    /\ \A i \in 1..n : rows[i] = RowAt(q, h.lines[i], i)

(* What the reader of a diff knows: the rows are the lines read so far, and *)
(* the numbers are those of the next ones.                                  *)
ReportOk ==
    /\ OldText \in Seq(AnyLine) /\ NewText \in Seq(AnyLine)
    /\ Change.lines \in Seq(Signed) /\ counts = Counts(Change.lines)
    /\ rows \in Seq([old: Int, new: Int, sign: {" ", "-", "+"}, code: AnyLine])
    /\ Len(rows) <= Len(Change.lines)
    /\ diff = SubSeq(Change.lines, Len(rows) + 1, Len(Change.lines))
    /\ OldText # NewText => \E q \in Outlines : Numbering(q, Change, Len(rows))
    /\ outcome \in {"rendered", "failed"} => diff = << >>
    /\ outcome = "failed" => rows = << >>

LEMMA OldAtType ==
    ASSUME NEW q \in Outlines, NEW k \in Int
    PROVE  OldAt(q, k) \in Int /\ NewAt(q, k) \in Int
<1>1. /\ q.before \in Int /\ q.removed \in Int /\ q.added \in Int
      /\ q.first \in Int /\ q.shown \in Int
  BY DEF Outlines
<1> QED BY <1>1 DEF OldAt, NewAt

LEMMA TextTypes ==
    ASSUME NEW c \in Content
    PROVE  /\ c.lines \in Seq(Lines) /\ Beautify(c) \in Seq(Lines)
           /\ Split(c.lines) \in Seq(AnyLine) /\ Split(Beautify(c)) \in Seq(AnyLine)
<1>1. c.lines \in UNION {[1..n -> Lines] : n \in 0..MaxLines}
  BY DEF Content
<1>2. PICK n \in 0..MaxLines : c.lines \in [1..n -> Lines]
  BY <1>1
<1>3. n \in Nat
  BY ReportAssumption
<1>4. Beautify(c) \in [1..n -> Lines]
  BY <1>2, ReportAssumption DEF Beautify
<1>5. c.lines \in Seq(Lines) /\ Beautify(c) \in Seq(Lines)
  BY <1>2, <1>3, <1>4, SeqDef
<1>6. Lines \subseteq AnyLine /\ Blank \in AnyLine
  BY DEF AnyLine
<1>7. c.lines \in Seq(AnyLine) /\ Beautify(c) \in Seq(AnyLine)
  BY <1>5, <1>6, SeqMonotonic
<1> QED BY <1>5, <1>6, <1>7, AppendProperties DEF Split

LEMMA SplitInjective ==
    ASSUME NEW s \in Seq(AnyLine), NEW t \in Seq(AnyLine), Split(s) = Split(t)
    PROVE  s = t
<1>1. Blank \in AnyLine
  BY DEF AnyLine
<1> QED BY <1>1, AppendInjective DEF Split

(* Whatever is compared, the texts are equal only when the lines are.       *)
LEMMA EqualTexts ==
    ASSUME old \in Content, new \in Content, OldText = NewText
    PROVE  old.lines = new.lines
<1>0. /\ old.lines \in Seq(Lines) /\ Beautify(old) \in Seq(Lines)
      /\ new.lines \in Seq(Lines) /\ Beautify(new) \in Seq(Lines)
  BY TextTypes
<1>1. Lines \subseteq AnyLine /\ Blank \in AnyLine
  BY DEF AnyLine
<1>2. /\ old.lines \in Seq(AnyLine) /\ Beautify(old) \in Seq(AnyLine)
      /\ new.lines \in Seq(AnyLine) /\ Beautify(new) \in Seq(AnyLine)
  BY <1>0, <1>1, SeqMonotonic
<1>3. CASE old # new /\ Beautify(old) = Beautify(new)
  <2>1. Split(old.lines) = Split(new.lines)
    BY <1>3 DEF OldText, NewText, Compared, Raw
  <2> QED BY <1>2, <2>1, SplitInjective, Zenon
<1>4. CASE ~(old # new /\ Beautify(old) = Beautify(new))
  <2>1. Split(Beautify(old)) = Split(Beautify(new))
    BY <1>4 DEF OldText, NewText, Compared
  <2>2. Beautify(old) = Beautify(new)
    BY <1>2, <2>1, SplitInjective, Zenon
  <2> QED BY <1>4, <2>2
<1> QED BY <1>3, <1>4

LEMMA ReportOkInit == ReportInit => ReportOk
<1> SUFFICES ASSUME ReportInit PROVE ReportOk
  OBVIOUS
<1>0. /\ old \in Content /\ new \in Content /\ rows = << >> /\ outcome = "reading"
      /\ diff = Change.lines /\ counts = Counts(Change.lines)
      /\ oldLine = Change.start /\ newLine = Change.start
  BY DEF ReportInit, Change
<1>1. OldText \in Seq(AnyLine) /\ NewText \in Seq(AnyLine)
  BY <1>0, TextTypes DEF OldText, NewText, Compared, Raw
<1>2. rows \in Seq([old: Int, new: Int, sign: {" ", "-", "+"}, code: AnyLine]) /\ Len(rows) = 0
  BY <1>0
<1>3. CASE OldText = NewText
  <2>1. Change.lines = << >>
    BY <1>3 DEF Change, UnifiedDiff
  <2>2. Change.lines \in Seq(Signed) /\ Len(Change.lines) = 0
    BY <2>1
  <2>3. diff = SubSeq(Change.lines, 0 + 1, 0)
    BY <1>0, <2>1, SubSeqEmpty
  <2> QED BY <1>0, <1>1, <1>2, <1>3, <2>2, <2>3 DEF ReportOk
<1>4. CASE OldText # NewText
  <2>1. Change = Hunk(OldText, NewText)
    BY <1>4 DEF Change, UnifiedDiff
  <2>2. Change.lines \in Seq(Signed)
    BY <1>1, <1>4, <2>1, HunkShape DEF Signed
  <2>3. PICK q \in Outlines : Outlined(q, OldText, NewText, Change)
    BY <1>1, <1>4, <2>1, HunkShape
  <2>4. Len(Change.lines) \in Nat
    BY <2>2, LenProperties
  <2>5. diff = SubSeq(Change.lines, 0 + 1, Len(Change.lines))
    BY <1>0, <2>2, SubSeqFull
  <2>6. OldAt(q, 0) = q.first /\ NewAt(q, 0) = q.first
    BY <2>3, OutlineType DEF OldAt, NewAt
  <2>7. Numbering(q, Change, 0)
    <3>1. Change.start = q.first
      BY <2>3 DEF Outlined
    <3>2. \A i \in 1..0 : rows[i] = RowAt(q, Change.lines[i], i)
      OBVIOUS
    <3> QED BY <1>0, <2>3, <2>6, <3>1, <3>2 DEF Numbering
  <2> QED BY <1>0, <1>1, <1>2, <2>2, <2>4, <2>5, <2>7 DEF ReportOk
<1> QED BY <1>3, <1>4

LEMMA ReportOkStep ==
    ASSUME NoHeaders
    PROVE  ReportOk /\ [ReportNext]_reportVars => ReportOk'
<1> SUFFICES ASSUME ReportOk, [ReportNext]_reportVars PROVE ReportOk'
  OBVIOUS
<1> DEFINE h == Change
           N == Len(h.lines)
           n == Len(rows)
           Rows == [old: Int, new: Int, sign: {" ", "-", "+"}, code: AnyLine]
<1>0. old' = old /\ new' = new /\ counts' = counts
  BY DEF ReportNext, ReadLine, Render, reportVars
<1>1. OldText' = OldText /\ NewText' = NewText /\ Change' = Change
  BY <1>0 DEF OldText, NewText, Change
<1>r. rows \in Seq(Rows) /\ h.lines \in Seq(Signed)
  BY DEF ReportOk
<1>2. N \in Nat /\ n \in Nat /\ n <= N
  <2> HIDE DEF Rows
  <2>1. N \in Nat /\ n \in Nat
    BY <1>r, LenProperties
  <2> QED BY <2>1 DEF ReportOk
<1>3. CASE UNCHANGED <<diff, oldLine, newLine, rows, outcome>>
  <2>1. \A q : Numbering(q, Change, Len(rows)) => Numbering(q, Change, Len(rows))'
    BY <1>1, <1>3 DEF Numbering
  <2> QED BY <1>0, <1>1, <1>3, <2>1 DEF ReportOk
<1>4. CASE Render
  <2>1. UNCHANGED <<diff, oldLine, newLine, rows>> /\ diff = << >>
        /\ outcome' = IF rows = << >> THEN "failed" ELSE "rendered"
    BY <1>4 DEF Render
  <2>2. \A q : Numbering(q, Change, Len(rows)) => Numbering(q, Change, Len(rows))'
    BY <1>1, <2>1 DEF Numbering
  <2> QED BY <1>0, <1>1, <2>1, <2>2 DEF ReportOk
<1>5. CASE ReadLine
  <2> DEFINE l == h.lines[n + 1]
  <2>1. outcome = "reading" /\ outcome' = outcome /\ diff # << >> /\ diff' = Tail(diff)
    BY <1>5 DEF ReadLine
  <2>2. diff = SubSeq(h.lines, n + 1, N)
    BY DEF ReportOk
  <2>3. n + 1 <= N /\ n + 1 \in 1..N /\ N \in n + 1..N
    <3>1. n + 1 > N => diff = << >>
      <4> DEFINE x == n + 1
                 y == N
      <4>1. x \in Int /\ y \in Int
        <5> HIDE DEF n, N
        <5> QED BY <1>2
      <4> HIDE DEF x, y
      <4>2. x > y => SubSeq(h.lines, x, y) = << >>
        BY <4>1, SubSeqEmpty
      <4> QED BY <2>2, <4>2 DEF x, y
    <3> HIDE DEF n, N
    <3> QED BY <1>2, <2>1, <3>1
  <2>4. Head(diff) = l /\ Tail(diff) = SubSeq(h.lines, n + 1 + 1, N)
    BY <1>r, <2>2, <2>3, HeadTailOfSubSeq
  <2>5. ~LooksLikeHeader(l)
    BY NoHeaders DEF NoHeaders, LooksLikeHeader
  <2>6. /\ rows' = Append(rows, Row(l))
        /\ oldLine' = IF l.sign = "+" THEN oldLine ELSE oldLine + 1
        /\ newLine' = IF l.sign = "-" THEN newLine ELSE newLine + 1
    BY <1>5, <2>4, <2>5 DEF ReadLine
  <2>7. OldText # NewText
    <3>1. OldText = NewText => Change.lines = << >>
      BY DEF Change, UnifiedDiff
    <3>2. Change.lines = << >> => N = 0
      OBVIOUS
    <3> QED BY <1>2, <2>3, <3>1, <3>2
  <2>8. PICK q \in Outlines : Numbering(q, h, n)
    BY <2>7 DEF ReportOk
  <2>9. l \in Signed /\ l.sign \in {" ", "-", "+"} /\ l.line \in AnyLine
    <3>1. l \in Signed
      BY <1>r, <2>3, ElementOfSeq
    <3> QED BY <3>1 DEF Signed
  <2>10. /\ Outlined(q, OldText, NewText, h)
         /\ oldLine = OldAt(q, n) /\ newLine = NewAt(q, n)
         /\ \A i \in 1..n : rows[i] = RowAt(q, h.lines[i], i)
         /\ (n + 1) - 1 = n
    <3>1. n \in Int /\ (n + 1) - 1 = n
      <4> HIDE DEF n
      <4> QED BY <1>2
    <3> QED BY <2>8, <3>1 DEF Numbering
  <2>11. oldLine \in Int /\ newLine \in Int
    <3>1. n \in Int
      BY <1>2
    <3> QED BY <2>10, <3>1, OldAtType
  <2>12. Row(l) = RowAt(q, l, n + 1) /\ Row(l) \in Rows
    <3>1. Row(l) = RowAt(q, l, n + 1)
      BY <2>10 DEF Row, RowAt
    <3>2. Row(l) \in Rows
      <4> HIDE DEF l
      <4>1. /\ (IF l.sign = "+" THEN 0 ELSE oldLine) \in Int
            /\ (IF l.sign = "-" THEN 0 ELSE newLine) \in Int
        BY <2>11
      <4> QED BY <2>9, <4>1, Zenon DEF Row
    <3> QED BY <3>1, <3>2
  <2> HIDE DEF l, Rows
  <2>13. /\ rows' \in Seq(Rows) /\ Len(rows') = n + 1
         /\ \A i \in 1..n : rows'[i] = rows[i]
         /\ rows'[n + 1] = Row(l)
    BY <1>r, <2>6, <2>12, AppendProperties
  <2>14. oldLine' = OldAt(q, n + 1) /\ newLine' = NewAt(q, n + 1)
    <3>1. /\ OldAt(q, n + 1) = IF l.sign = "+" THEN OldAt(q, n + 1 - 1) ELSE OldAt(q, n + 1 - 1) + 1
          /\ NewAt(q, n + 1) = IF l.sign = "-" THEN NewAt(q, n + 1 - 1) ELSE NewAt(q, n + 1 - 1) + 1
      <4>1. Outlined(q, OldText, NewText, h) /\ n + 1 \in 1..Len(h.lines)
        BY <2>3, <2>10
      <4> DEFINE x == n + 1
      <4> HIDE DEF h, x
      <4>2. x \in 1..Len(h.lines)
        BY <4>1 DEF x
      <4>3. /\ OldAt(q, x) = IF h.lines[x].sign = "+" THEN OldAt(q, x - 1) ELSE OldAt(q, x - 1) + 1
            /\ NewAt(q, x) = IF h.lines[x].sign = "-" THEN NewAt(q, x - 1) ELSE NewAt(q, x - 1) + 1
        BY <4>1, <4>2, Located, Zenon DEF LineOk
      <4> QED BY <4>3 DEF x, l
    <3> QED BY <2>6, <2>10, <3>1
  <2>15. \A i \in 1..n + 1 : rows'[i] = RowAt(q, h.lines[i], i)
    <3> TAKE i \in 1..n + 1
    <3>1. CASE i \in 1..n
      BY <2>10, <2>13, <3>1
    <3>2. CASE i = n + 1
      BY <2>12, <2>13, <3>2 DEF l
    <3> QED BY <1>2, <3>1, <3>2
  <2> HIDE DEF h, n, N
  <2>16. Numbering(q, Change, Len(rows))'
    BY <1>1, <2>10, <2>13, <2>14, <2>15 DEF Numbering, h
  <2>17. diff' = SubSeq(h.lines, Len(rows') + 1, N)
    BY <2>1, <2>4, <2>13
  <2>18. Len(rows') <= N
    BY <2>3, <2>13
  <2> QED BY <1>0, <1>1, <2>1, <2>13, <2>16, <2>17, <2>18 DEF ReportOk, h, N, Rows
<1> QED BY <1>3, <1>4, <1>5 DEF ReportNext, reportVars

(* When the diff is read, there is a row for each of its lines.             *)
LEMMA RowsOfDiff ==
    ASSUME ReportOk, diff = << >>
    PROVE  /\ DOMAIN rows = 1..Len(Change.lines) /\ DOMAIN Change.lines = 1..Len(Change.lines)
           /\ Len(rows) = Len(Change.lines) /\ Len(rows) \in Nat
<1>1. /\ Len(rows) \in Nat /\ DOMAIN rows = 1..Len(rows)
      /\ Len(Change.lines) \in Nat /\ DOMAIN Change.lines = 1..Len(Change.lines)
  <2> DEFINE Rows == [old: Int, new: Int, sign: {" ", "-", "+"}, code: AnyLine]
  <2>1. rows \in Seq(Rows) /\ Change.lines \in Seq(Signed)
    BY DEF ReportOk
  <2> HIDE DEF Rows
  <2> QED BY <2>1, LenProperties
<1> DEFINE n == Len(rows)
           N == Len(Change.lines)
<1>2. n <= N /\ SubSeq(Change.lines, n + 1, N) = << >>
  BY DEF ReportOk
<1>3. n = N
  <2> SUFFICES ASSUME n < N PROVE FALSE
    <3> HIDE DEF n, N
    <3> QED BY <1>1, <1>2 DEF n, N
  <2>1. Change.lines \in Seq(Signed) /\ n + 1 \in Nat \ {0} /\ N \in 0..Len(Change.lines)
        /\ n + 1 <= N + 1 /\ N - (n + 1) + 1 > 0
    <3>1. Change.lines \in Seq(Signed)
      BY DEF ReportOk
    <3> HIDE DEF n
    <3> QED BY <1>1, <3>1 DEF n
  <2>2. Len(SubSeq(Change.lines, n + 1, N)) = N - (n + 1) + 1
    <3> DEFINE x == n + 1
    <3> HIDE DEF x, n, N
    <3> QED BY <2>1, PartShape DEF x
  <2>3. Len(<< >>) = 0
    OBVIOUS
  <2>4. Len(SubSeq(Change.lines, n + 1, N)) = 0
    BY <1>2, <2>3
  <2> HIDE DEF n, N
  <2> QED BY <2>1, <2>2, <2>4
<1> QED BY <1>1, <1>3

LEMMA ShownNumbers ==
    ASSUME NEW q \in Outlines, Numbering(q, Change, Len(Change.lines)),
           DOMAIN rows = 1..Len(Change.lines)
    PROVE  /\ NumbersOf("old") \ {0} = q.first..OldEnd(q)
           /\ NumbersOf("new") \ {0} = q.first..NewEnd(q)
<1> DEFINE h == Change
           N == Len(h.lines)
           Old(i) == OldAt(q, i - 1)
           New(i) == NewAt(q, i - 1)
           Sign(i) == h.lines[i].sign
           f == q.first
<1>0. Outlined(q, OldText, NewText, h) /\ \A i \in 1..N : rows[i] = RowAt(q, h.lines[i], i)
  BY DEF Numbering
<1>1. /\ \A i \in 1..N : rows[i]["old"] = IF Sign(i) = "+" THEN 0 ELSE Old(i)
      /\ \A i \in 1..N : rows[i]["new"] = IF Sign(i) = "-" THEN 0 ELSE New(i)
  <2>1. ASSUME NEW i \in 1..N
        PROVE  /\ rows[i]["old"] = IF Sign(i) = "+" THEN 0 ELSE Old(i)
               /\ rows[i]["new"] = IF Sign(i) = "-" THEN 0 ELSE New(i)
    <3> DEFINE r == rows[i]
               l == h.lines[i]
    <3>1. r = RowAt(q, l, i)
      BY <1>0
    <3> HIDE DEF r, l
    <3>2. r.old = (IF l.sign = "+" THEN 0 ELSE OldAt(q, i - 1))
      BY <3>1 DEF RowAt
    <3>3. r.new = (IF l.sign = "-" THEN 0 ELSE NewAt(q, i - 1))
      BY <3>1 DEF RowAt
    <3> QED BY <3>2, <3>3 DEF r, l
  <2> HIDE DEF N, Old, New, Sign
  <2> QED BY <2>1
<1>2. /\ NumbersOf("old") = {rows[i]["old"] : i \in 1..N}
      /\ NumbersOf("new") = {rows[i]["new"] : i \in 1..N}
  BY DEF NumbersOf
<1>3. /\ \A i \in 1..N : Sign(i) # "+" => Old(i) \in f..OldEnd(q)
      /\ \A i \in 1..N : Sign(i) # "-" => New(i) \in f..NewEnd(q)
  BY <1>0, Located, Zenon DEF LineOk
<1>4. /\ \A x \in f..OldEnd(q) : \E i \in 1..N : Sign(i) # "+" /\ Old(i) = x
      /\ \A x \in f..NewEnd(q) : \E i \in 1..N : Sign(i) # "-" /\ New(i) = x
  BY <1>0, NumbersCovered
<1>5. f \in Nat \ {0}
  BY <1>0, OutlineType
<1> DEFINE E == OldEnd(q)
           F == NewEnd(q)
<1>6. 0 \notin f..E /\ 0 \notin f..F
  BY <1>5
<1> HIDE DEF h, N, Old, New, Sign, E, F, f
<1>7. NumbersOf("old") \ {0} = f..E
  BY <1>1, <1>2, <1>3, <1>4, <1>6 DEF E
<1>8. NumbersOf("new") \ {0} = f..F
  BY <1>1, <1>2, <1>3, <1>4, <1>6 DEF F
<1> QED BY <1>7, <1>8 DEF E, F, f

LEMMA UnshownSame ==
    ASSUME ReportOk, NEW q \in Outlines, Numbering(q, Change, Len(Change.lines)),
           DOMAIN rows = 1..Len(Change.lines)
    PROVE  Unshown(OldText, NumbersOf("old")) = Unshown(NewText, NumbersOf("new"))
<1> DEFINE p == q.before
           m == q.removed
           n == q.added
           s == q.after
           f == q.first
           z == q.shown
           e == Lead(q)
           u == f - 1
           v == p + m + z
           x == p + n + z
           w == s - z
           a == OldText
           b == NewText
<1>0. Outlined(q, a, b, Change)
  BY DEF Numbering
<1>1. /\ p \in Nat /\ m \in Nat /\ n \in Nat /\ s \in Nat /\ f \in Nat \ {0} /\ z \in Nat
      /\ z <= s /\ f + e = p + 1 /\ e \in Nat /\ Len(a) = p + m + s /\ Len(b) = p + n + s
  BY <1>0, OutlineType
<1>2. /\ \A k \in 1..p : a[k] = b[k]
      /\ \A k \in 1..s : a[p + m + k] = b[p + n + k]
  BY <1>0, Zenon DEF Outlined
<1>3. DOMAIN a = 1..Len(a) /\ DOMAIN b = 1..Len(b)
  BY LenProperties DEF ReportOk
<1>4. NumbersOf("old") \ {0} = f..v /\ NumbersOf("new") \ {0} = f..x
  BY ShownNumbers DEF OldEnd, NewEnd
<1> HIDE DEF p, m, n, s, f, z, e, a, b
<1>5. u \in Nat /\ v \in Nat /\ x \in Nat /\ w \in Nat /\ u <= p /\ u <= v /\ u <= x
  BY <1>1
<1>6. Hidden(a, NumbersOf("old")) = (1..u) \cup (v + 1..v + w)
  <2> DEFINE O == NumbersOf("old")
  <2> HIDE DEF O
  <2>1. \A i \in 1..Len(a) : i \in O <=> i \in f..v
    BY <1>1, <1>4 DEF O
  <2>2. \A i \in Int : (i \in 1..Len(a) /\ i \notin f..v) <=> (i \in 1..u \/ i \in v + 1..v + w)
    BY <1>1
  <2>3. {i \in DOMAIN a : i \notin O} = (1..u) \cup (v + 1..v + w)
    <3> HIDE DEF u, v, w
    <3> QED BY <1>3, <2>1, <2>2
  <2> QED BY <2>3 DEF O, Hidden
<1>7. Hidden(b, NumbersOf("new")) = (1..u) \cup (x + 1..x + w)
  <2> DEFINE O == NumbersOf("new")
  <2> HIDE DEF O
  <2>1. \A i \in 1..Len(b) : i \in O <=> i \in f..x
    BY <1>1, <1>4 DEF O
  <2>2. \A i \in Int : (i \in 1..Len(b) /\ i \notin f..x) <=> (i \in 1..u \/ i \in x + 1..x + w)
    BY <1>1
  <2>3. {i \in DOMAIN b : i \notin O} = (1..u) \cup (x + 1..x + w)
    <3> HIDE DEF u, x, w
    <3> QED BY <1>3, <2>1, <2>2
  <2> QED BY <2>3 DEF O, Hidden
<1>8. ASSUME NEW k \in 1..u + w PROVE a[Place(u, v, k)] = b[Place(u, x, k)]
  <2>1. CASE k <= u
    <3>1. Place(u, v, k) = k /\ Place(u, x, k) = k
      BY <2>1 DEF Place
    <3>2. k \in 1..p
      BY <1>1, <1>5, <2>1
    <3> QED BY <1>2, <3>1, <3>2
  <2>2. CASE k > u
    <3> DEFINE j == z + (k - u)
    <3>1. j \in 1..s /\ v + (k - u) = p + m + j /\ x + (k - u) = p + n + j
      BY <1>1, <2>2
    <3>2. Place(u, v, k) = v + (k - u) /\ Place(u, x, k) = x + (k - u)
      <4> HIDE DEF u, v, x
      <4>1. u \in Nat /\ k \in Int /\ ~(k <= u)
        BY <1>1, <1>5, <2>2 DEF u, w
      <4> QED BY <4>1 DEF Place
    <3> HIDE DEF j, v, x, u
    <3> QED BY <1>2, <3>1, <3>2
  <2> QED BY <1>1, <2>1, <2>2
<1> HIDE DEF u, v, w, x
<1> DEFINE O == NumbersOf("old")
           M == NumbersOf("new")
<1> HIDE DEF O, M
<1>9. Unshown(a, O) = Runs(a, u, v, w)
  BY <1>5, <1>6, UnshownShape, Zenon DEF O
<1>10. Unshown(b, M) = Runs(b, u, x, w)
  BY <1>5, <1>7, UnshownShape, Zenon DEF M
<1>11. Unshown(a, O) = Unshown(b, M)
  BY <1>8, <1>9, <1>10 DEF Runs
<1> QED BY <1>11 DEF a, b, O, M

(* The rows are those of the diff, so what they show and what they leave    *)
(* out is right, and they are as many as were counted.                      *)
LEMMA ReportFaithful ==
    ASSUME NoHeaders, ReportOk, outcome = "rendered"
    PROVE  /\ \A i \in DOMAIN rows :
                /\ rows[i].old > 0 => <<rows[i].old, rows[i].code>> \in Numbered(OldText)
                /\ rows[i].new > 0 => <<rows[i].new, rows[i].code>> \in Numbered(NewText)
           /\ Unshown(OldText, NumbersOf("old")) = Unshown(NewText, NumbersOf("new"))
           /\ \A sign \in {"-", "+"} :
                counts[sign] = Cardinality({i \in DOMAIN rows : rows[i].sign = sign})
<1> DEFINE h == Change
           N == Len(h.lines)
<1>0. diff = << >> /\ counts = Counts(h.lines)
  BY DEF ReportOk
<1>1. DOMAIN rows = 1..N /\ DOMAIN h.lines = 1..N /\ Len(rows) = N /\ N \in Nat
  BY <1>0, RowsOfDiff
<1>2. CASE OldText = NewText
  <2>1. h.lines = << >> /\ DOMAIN rows = {} /\ DOMAIN h.lines = {}
    <3>1. h.lines = << >>
      BY <1>2 DEF Change, UnifiedDiff
    <3>2. N = 0
      BY <3>1
    <3> HIDE DEF h, N
    <3> QED BY <1>1, <3>1, <3>2
  <2>2. NumbersOf("old") = {} /\ NumbersOf("new") = {}
    BY <2>1 DEF NumbersOf
  <2>3. ASSUME NEW sign \in {"-", "+"}
        PROVE  counts[sign] = Cardinality({i \in DOMAIN rows : rows[i].sign = sign})
    <3>1. counts[sign] = Cardinality({i \in DOMAIN h.lines :
                            h.lines[i].sign = sign /\ ~LooksLikeHeader(h.lines[i])})
      BY <1>0 DEF Counts
    <3>2. {i \in DOMAIN h.lines : h.lines[i].sign = sign /\ ~LooksLikeHeader(h.lines[i])} = {}
          /\ {i \in DOMAIN rows : rows[i].sign = sign} = {}
      <4> HIDE DEF h
      <4> QED BY <2>1
    <3> HIDE DEF h
    <3> QED BY <3>1, <3>2
  <2> QED BY <1>2, <2>1, <2>2, <2>3
<1>3. CASE OldText # NewText
  <2>1. PICK q \in Outlines : Numbering(q, h, N)
    BY <1>1, <1>3 DEF ReportOk
  <2>2. Outlined(q, OldText, NewText, h) /\ \A i \in 1..N : rows[i] = RowAt(q, h.lines[i], i)
    BY <2>1 DEF Numbering
  <2>3. \A i \in 1..N : rows[i].sign = h.lines[i].sign /\ rows[i].code = h.lines[i].line
    <3> TAKE i \in 1..N
    <3> DEFINE r == rows[i]
               l == h.lines[i]
    <3>1. r = RowAt(q, l, i)
      BY <2>2
    <3> HIDE DEF r, l
    <3>2. r.sign = l.sign /\ r.code = l.line
      BY <3>1 DEF RowAt
    <3> QED BY <3>2 DEF r, l
  <2>4. ASSUME NEW i \in 1..N
        PROVE  /\ rows[i].old > 0 => <<rows[i].old, rows[i].code>> \in Numbered(OldText)
               /\ rows[i].new > 0 => <<rows[i].new, rows[i].code>> \in Numbered(NewText)
    <3> DEFINE r == rows[i]
               l == h.lines[i]
               x == OldAt(q, i - 1)
               y == NewAt(q, i - 1)
               E == OldEnd(q)
               F == NewEnd(q)
    <3>1. r = RowAt(q, l, i)
      BY <2>2
    <3>2. /\ l.sign # "+" => x \in q.first..E /\ l.line = OldText[x]
          /\ l.sign # "-" => y \in q.first..F /\ l.line = NewText[y]
      <4>1. Outlined(q, OldText, NewText, h) /\ i \in 1..Len(h.lines)
        BY <2>2
      <4> HIDE DEF h
      <4>2. LineOk(q, OldText, NewText, h.lines[i], i)
        BY <4>1, Located, Zenon
      <4> QED BY <4>2, Zenon DEF LineOk
    <3>3. /\ q.first \in Nat \ {0} /\ E \in Nat /\ F \in Nat
          /\ E <= Len(OldText) /\ F <= Len(NewText)
      <4>1. /\ q.before \in Nat /\ q.removed \in Nat /\ q.added \in Nat /\ q.after \in Nat
            /\ q.first \in Nat \ {0} /\ q.shown \in Nat /\ q.shown <= q.after
            /\ Len(OldText) = q.before + q.removed + q.after
            /\ Len(NewText) = q.before + q.added + q.after
        BY <2>2, OutlineType
      <4>2. E \in Nat /\ E <= Len(OldText)
        BY <4>1 DEF OldEnd
      <4>3. F \in Nat /\ F <= Len(NewText)
        <5>1. F = q.before + q.added + q.shown
          BY DEF NewEnd
        <5>2. /\ q.before \in Nat /\ q.added \in Nat /\ q.after \in Nat
              /\ q.shown \in Nat /\ q.shown <= q.after
          BY <4>1
        <5>3. Len(NewText) = q.before + q.added + q.after
          BY <4>1
        <5> HIDE DEF F
        <5> QED BY <5>1, <5>2, <5>3
      <4> HIDE DEF E, F
      <4> QED BY <4>1, <4>2, <4>3
    <3>4. DOMAIN OldText = 1..Len(OldText) /\ DOMAIN NewText = 1..Len(NewText)
          /\ Len(OldText) \in Nat /\ Len(NewText) \in Nat
      BY LenProperties DEF ReportOk
    <3> HIDE DEF r, l, x, y, E, F
    <3>5. /\ r.old = (IF l.sign = "+" THEN 0 ELSE x) /\ r.new = (IF l.sign = "-" THEN 0 ELSE y)
          /\ r.code = l.line
      BY <3>1 DEF RowAt, x, y
    <3>6. ASSUME r.old > 0 PROVE <<r.old, r.code>> \in Numbered(OldText)
      <4>1. l.sign # "+" /\ r.old = x
        BY <3>5, <3>6
      <4>2. x \in DOMAIN OldText /\ r.code = OldText[x]
        BY <3>2, <3>3, <3>4, <3>5, <4>1
      <4> QED BY <4>1, <4>2 DEF Numbered
    <3>7. ASSUME r.new > 0 PROVE <<r.new, r.code>> \in Numbered(NewText)
      <4>1. l.sign # "-" /\ r.new = y
        BY <3>5, <3>7
      <4>2. y \in DOMAIN NewText /\ r.code = NewText[y]
        BY <3>2, <3>3, <3>4, <3>5, <4>1
      <4> QED BY <4>1, <4>2 DEF Numbered
    <3> QED BY <3>6, <3>7 DEF r
  <2>5. Unshown(OldText, NumbersOf("old")) = Unshown(NewText, NumbersOf("new"))
    BY <1>1, <2>1, UnshownSame
  <2>6. ASSUME NEW sign \in {"-", "+"}
        PROVE  counts[sign] = Cardinality({i \in DOMAIN rows : rows[i].sign = sign})
    <3>1. counts[sign] = Cardinality({i \in DOMAIN h.lines :
                            h.lines[i].sign = sign /\ ~LooksLikeHeader(h.lines[i])})
      BY <1>0 DEF Counts
    <3>2. \A l : ~LooksLikeHeader(l)
      BY NoHeaders DEF NoHeaders, LooksLikeHeader
    <3>3. {i \in DOMAIN h.lines : h.lines[i].sign = sign /\ ~LooksLikeHeader(h.lines[i])}
            = {i \in DOMAIN rows : rows[i].sign = sign}
      <4> HIDE DEF h, N
      <4> QED BY <1>1, <2>3, <3>2
    <3> HIDE DEF h
    <3> QED BY <3>1, <3>3
  <2> QED BY <1>1, <2>4, <2>5, <2>6
<1> QED BY <1>2, <1>3

(* A diff without a line is that of equal texts.                            *)
LEMMA NoRowNoChange ==
    ASSUME ReportOk, outcome = "failed"
    PROVE  OldText = NewText
<1>1. diff = << >> /\ rows = << >>
  BY DEF ReportOk
<1>2. Len(rows) = 0 /\ Len(Change.lines) = 0
  BY <1>1, RowsOfDiff
<1> SUFFICES ASSUME OldText # NewText PROVE FALSE
  OBVIOUS
<1>3. PICK q \in Outlines : Numbering(q, Change, Len(rows))
  BY DEF ReportOk
<1>4. Outlined(q, OldText, NewText, Change)
  BY <1>3 DEF Numbering
<1>5. /\ q.removed \in Nat /\ q.added \in Nat /\ q.shown \in Nat /\ Lead(q) \in Nat
      /\ Len(Change.lines) = Lead(q) + q.removed + q.added + q.shown
      /\ q.removed + q.added > 0
  BY <1>4, OutlineType
<1> QED BY <1>2, <1>5

--------------------------------------------------------------------------------
(* The report in the behaviours of Texts *)

ReportInv ==
    /\ algorithm = "report" => ReportOk /\ old \in Content /\ new \in Content
    /\ algorithm # "report" => outcome = "reading"

LEMMA ReportInvInit == TextsInit => ReportInv
<1> SUFFICES ASSUME TextsInit PROVE ReportInv
  OBVIOUS
<1>1. CASE algorithm = "report"
  <2>1. ReportInit
    BY <1>1 DEF TextsInit
  <2> QED BY <1>1, <2>1, ReportOkInit DEF ReportInv, ReportInit
<1>2. CASE algorithm # "report"
  BY <1>2 DEF TextsInit, ReportInv
<1> QED BY <1>1, <1>2

LEMMA ReportInvStep ==
    ASSUME NoHeaders
    PROVE  ReportInv /\ [TextsNext]_textVars => ReportInv'
<1> SUFFICES ASSUME ReportInv, [TextsNext]_textVars PROVE ReportInv'
  OBVIOUS
<1>1. algorithm' = algorithm
  BY DEF TextsNext, textVars
<1>2. CASE algorithm = "report"
  <2>1. [ReportNext]_reportVars
    BY <1>2 DEF TextsNext, textVars
  <2>2. ReportOk'
    BY NoHeaders, <1>2, <2>1, ReportOkStep DEF ReportInv
  <2>3. old' = old /\ new' = new
    BY <2>1 DEF ReportNext, ReadLine, Render, reportVars
  <2> QED BY <1>1, <1>2, <2>2, <2>3 DEF ReportInv
<1>3. CASE algorithm # "report"
  <2>1. outcome' = outcome
    BY <1>3 DEF TextsNext, textVars, reportVars
  <2> QED BY <1>1, <1>3, <2>1 DEF ReportInv
<1> QED BY <1>2, <1>3

(* Rows made by parseDiff show the lines of the numbers they give, what     *)
(* they leave out is the same in both texts, and they are as many as the    *)
(* message counts, unless a line of the diff looks like a header.           *)
THEOREM ReportsAreFaithful ==
    ASSUME NoHeaders
    PROVE  TextsSpec => []RowsFaithful
<1>1. ReportInv => RowsFaithful
  <2> SUFFICES ASSUME ReportInv, outcome = "rendered" PROVE RowsFaithful
    BY DEF RowsFaithful
  <2>1. ReportOk
    BY DEF ReportInv
  <2> QED BY NoHeaders, <2>1, ReportFaithful, Zenon DEF RowsFaithful
<1>2. ReportInv /\ [TextsNext]_textVars => ReportInv'
  BY NoHeaders, ReportInvStep
<1> QED BY <1>1, <1>2, ReportInvInit, PTL DEF TextsSpec

(* Only contents of the same lines leave a report without a row: Build      *)
(* compares the lines as they are when the formatter makes them equal.      *)
THEOREM ChangesOfLinesAreShown ==
    ASSUME NoHeaders
    PROVE  TextsSpec => []LinesDisplayable
<1>1. ReportInv => LinesDisplayable
  <2> SUFFICES ASSUME ReportInv, outcome = "failed" PROVE old.lines = new.lines
    BY DEF LinesDisplayable
  <2>1. ReportOk /\ old \in Content /\ new \in Content
    BY DEF ReportInv
  <2> QED BY <2>1, NoRowNoChange, EqualTexts
<1>2. ReportInv /\ [TextsNext]_textVars => ReportInv'
  BY NoHeaders, ReportInvStep
<1> QED BY <1>1, <1>2, ReportInvInit, PTL DEF TextsSpec
================================================================================
