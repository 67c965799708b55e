------------------------- MODULE Comparator_proofs -------------------------
(***************************************************************************)
(* What the comparator finds meets the criterion, for every word size,     *)
(* format and rounding, and how the criteria relate to each other.         *)
(***************************************************************************)
EXTENDS Criteria, TLAPS

Elements == {"U8", "U16", "U32", "U64", "Float", "Double"}
Word64 == 0 .. Word - 1
Queries == [type : STRING, elem : Elements, raw1 : Word64, raw2 : {<< >>} \cup {<<c>> : c \in Word64}]

-----------------------------------------------------------------------------
(* Remainders next to the word.                                            *)

(* The remainder of a difference of two words.                             *)
LEMMA ModWord ==
  ASSUME NEW x \in -(Word - 1) .. Word - 1
  PROVE  x % Word = IF x < 0 THEN x + Word ELSE x
  BY WordAssumption, SMT

(* The remainder of a sum of two words.                                    *)
LEMMA ModTwice ==
  ASSUME NEW x \in 0 .. 2 * (Word - 1)
  PROVE  x % Word = IF x < Word THEN x ELSE x - Word
  BY WordAssumption, SMT

(* A difference that wraps at the word is undone by a sum that wraps.      *)
LEMMA WrappedDifference ==
  ASSUME NEW a \in Word64, NEW b \in Word64, NEW c \in Word64
  PROVE  (a - b) % Word = c <=> a = (b + c) % Word
<1> USE WordAssumption DEF Word64
<1>1. (a - b) % Word = IF a - b < 0 THEN a - b + Word ELSE a - b
  BY ModWord
<1>2. (b + c) % Word = IF b + c < Word THEN b + c ELSE b + c - Word
  BY ModTwice
<1> QED
  BY <1>1, <1>2

-----------------------------------------------------------------------------
(* Numbers of a format, their sums and their order.                        *)

(* What stands for infinity is a number.                                   *)
LEMMA InfinityNat == Infinity \in Nat
  BY FormatAssumption

(* What FormatAssumption says of one format.                               *)
LEMMA OfFormat ==
  ASSUME NEW type \in {"Float", "Double"}
  PROVE  LET F == Format[type] IN
         /\ F.patterns \in Nat \ {0}
         /\ F.number \in [0 .. F.patterns - 1 -> Numbers \cup {NaN}]
         /\ F.round \in [-2 * Infinity .. 2 * Infinity -> -Infinity .. Infinity]
         /\ \A m, n \in -2 * Infinity .. 2 * Infinity : m <= n => F.round[m] <= F.round[n]
         /\ \A k \in 0 .. F.patterns - 1 :
              F.number[k] # NaN => F.round[F.number[k][1]] = F.number[k][1]
         /\ F.eps \in Nat \ {0} /\ 2 * F.eps < Infinity
         /\ F.round[F.eps] = F.eps /\ F.round[-F.eps] = -F.eps /\ F.round[2 * F.eps] = 2 * F.eps
         /\ F.round[-2 * F.eps] = -2 * F.eps
  BY FormatAssumption

(* A number the bits of a format can hold.                                 *)
Held(type, x) ==
  x = NaN \/ (x \in Numbers /\ Format[type].round[x[1]] = x[1])

(* read_fp yields NaN or a number that the format holds.                   *)
LEMMA BitsHold ==
  ASSUME NEW type \in {"Float", "Double"}, NEW bits \in Nat
  PROVE  Held(type, Number(type, bits))
<1> DEFINE F == Format[type]
           k == bits % F.patterns
<1>0. F.patterns \in Nat \ {0}
  BY OfFormat
<1>1. k \in 0 .. F.patterns - 1
  <2> HIDE DEF F
  <2> QED
    BY <1>0, SMT
<1>2. F.number[k] \in Numbers \cup {NaN}
  BY <1>1, OfFormat
<1>3. F.number[k] # NaN => F.round[F.number[k][1]] = F.number[k][1]
  BY <1>1, OfFormat
<1> QED
  BY <1>2, <1>3 DEF Held, Number

(* A sum of finite numbers is their sum, rounded.                          *)
LEMMA FiniteSum ==
  ASSUME NEW type \in {"Float", "Double"},
         NEW m \in -Infinity .. Infinity, NEW n \in -Infinity .. Infinity,
         ~ Infinite(<<m>>), ~ Infinite(<<n>>)
  PROVE  /\ Sum(type, <<m>>, <<n>>) = <<Format[type].round[m + n]>>
         /\ Format[type].round[m + n] \in -Infinity .. Infinity
<1>1. <<m>> # NaN /\ <<n>> # NaN
  BY DEF NaN
<1>2. m + n \in -2 * Infinity .. 2 * Infinity
  BY InfinityNat
<1>3. Format[type].round[m + n] \in -Infinity .. Infinity
  BY <1>2, OfFormat
<1> QED
  BY <1>1, <1>3 DEF Sum

(* Negation of a number keeps it finite, or infinite.                      *)
LEMMA NegativeOf ==
  ASSUME NEW n \in -Infinity .. Infinity
  PROVE  /\ Negative(<<n>>) = <<-n>>
         /\ Infinite(<<-n>>) <=> Infinite(<<n>>)
  BY InfinityNat DEF Negative, NaN, Infinite

(* eps is a finite number.                                                 *)
LEMMA EpsFinite ==
  ASSUME NEW type \in {"Float", "Double"}
  PROVE  LET e == Format[type].eps IN
         /\ e \in -Infinity .. Infinity /\ -e \in -Infinity .. Infinity /\ e > 0
         /\ ~ Infinite(<<e>>) /\ ~ Infinite(<<-e>>)
         /\ <<e>> # NaN /\ Negative(<<e>>) = <<-e>> /\ <<-e>> # NaN
<1>1. Format[type].eps \in Nat \ {0} /\ 2 * Format[type].eps < Infinity
  BY OfFormat
<1> QED
  BY <1>1, InfinityNat DEF Infinite, NaN, Negative

(* Adding a tolerance does not make a number smaller, taking one off does  *)
(* not make it larger: rounding is monotone.                               *)
LEMMA ToleranceOrder ==
  ASSUME NEW type \in {"Float", "Double"},
         NEW x \in Numbers \cup {NaN}, Held(type, x), NEW y \in Numbers \cup {NaN}
  PROVE  LET eps == <<Format[type].eps>> IN
         /\ Less(Sum(type, x, eps), y) => Less(x, y)
         /\ Less(y, Difference(type, x, eps)) => Less(y, x)
<1> DEFINE F == Format[type]
           e == F.eps
           up == Sum(type, x, <<e>>)
           down == Difference(type, x, <<e>>)
<1>1. CASE x = NaN \/ y = NaN
  <2>1. x = NaN => up = NaN /\ down = NaN
    BY DEF Sum, Difference
  <2> QED
    BY <1>1, <2>1 DEF Less
<1>e. e \in -Infinity .. Infinity /\ -e \in -Infinity .. Infinity /\ e > 0
  BY EpsFinite
<1>2. CASE x # NaN /\ y # NaN /\ Infinite(x)
  <2>1. up \in {x, NaN} /\ down \in {x, NaN}
    BY <1>2 DEF Sum, Difference
  <2> QED
    BY <2>1, <1>2 DEF Less
<1>3. CASE x # NaN /\ y # NaN /\ ~ Infinite(x)
  <2>1. PICK n \in -Infinity .. Infinity : x = <<n>> /\ F.round[n] = n
    BY <1>3 DEF Held, Numbers
  <2>2. PICK k \in -Infinity .. Infinity : y = <<k>>
    BY <1>3 DEF Numbers
  <2>3. up = <<F.round[n + e]>> /\ F.round[n + e] \in -Infinity .. Infinity
    BY <1>3, <2>1, EpsFinite, FiniteSum
  <2>4. down = <<F.round[n + (-e)]>> /\ F.round[n + (-e)] \in -Infinity .. Infinity
    <3>1. down = Sum(type, <<n>>, <<-e>>) /\ ~ Infinite(<<-e>>)
      BY <2>1, EpsFinite DEF Difference
    <3> QED
      BY <1>3, <2>1, <1>e, <3>1, FiniteSum
  <2>5. n \in -2 * Infinity .. 2 * Infinity /\ n + e \in -2 * Infinity .. 2 * Infinity
        /\ n + (-e) \in -2 * Infinity .. 2 * Infinity
    <3> HIDE DEF e
    <3> QED
      BY <1>e, InfinityNat
  <2>6. F.round[n] <= F.round[n + e] /\ F.round[n + (-e)] <= F.round[n]
    <3>1. n <= n + e /\ n + (-e) <= n
      <4> HIDE DEF e
      <4> QED
        BY <1>e, InfinityNat
    <3> QED
      BY <2>5, <3>1, OfFormat
  <2>7. Less(up, y) => F.round[n + e] < k
    BY <2>2, <2>3 DEF Less
  <2>8. Less(y, down) => k < F.round[n + (-e)]
    BY <2>2, <2>4 DEF Less
  <2>9. n < k => Less(x, y)
    BY <1>3, <2>1, <2>2 DEF Less
  <2>10. k < n => Less(y, x)
    BY <1>3, <2>1, <2>2 DEF Less
  <2> HIDE DEF F, e, up, down
  <2>11. (Less(up, y) => Less(x, y)) /\ (Less(y, down) => Less(y, x))
    BY <2>1, <2>3, <2>4, <2>6, <2>7, <2>8, <2>9, <2>10, InfinityNat
  <2> QED
    BY <2>11 DEF F, e, up, down
<1> QED
  BY <1>1, <1>2, <1>3

(* No difference is rounded to no more than eps.                           *)
LEMMA ZeroRounds ==
  Format["Float"].round[0] \in -Format["Float"].eps .. Format["Float"].eps
<1> DEFINE F == Format["Float"]
           e == F.eps
<1>1. e \in Nat /\ 2 * e < Infinity /\ F.round[e] = e /\ F.round[-e] = -e
  BY OfFormat
<1>2. /\ 0 \in -2 * Infinity .. 2 * Infinity /\ e \in -2 * Infinity .. 2 * Infinity
      /\ -e \in -2 * Infinity .. 2 * Infinity /\ 0 <= e /\ -e <= 0
  <2> HIDE DEF e
  <2> QED
    BY <1>1, InfinityNat
<1>3. F.round[0] <= F.round[e] /\ F.round[-e] <= F.round[0]
  BY <1>2, OfFormat
<1>4. F.round[0] \in -Infinity .. Infinity
  BY <1>2, OfFormat
<1> QED
  BY <1>1, <1>3, <1>4, InfinityNat

(* Two numbers whose rounded difference is within eps are not more than    *)
(* twice eps apart.                                                        *)
LEMMA CloseNumbers ==
  ASSUME NEW x \in Numbers \cup {NaN}, NEW y \in Numbers \cup {NaN},
         Difference("Float", x, y) # NaN,
         Difference("Float", x, y)[1] \in -Format["Float"].eps .. Format["Float"].eps
  PROVE  x # NaN /\ y # NaN
         /\ x[1] - y[1] \in -(2 * Format["Float"].eps) .. 2 * Format["Float"].eps
<1> DEFINE F == Format["Float"]
           e == F.eps
<1>1. x # NaN /\ y # NaN
  BY DEF Difference, Sum, Negative
<1>2. PICK m \in -Infinity .. Infinity, n \in -Infinity .. Infinity : x = <<m>> /\ y = <<n>>
  BY <1>1 DEF Numbers
<1>3. e \in Nat /\ 2 * e < Infinity /\ F.round[2 * e] = 2 * e /\ F.round[-2 * e] = -2 * e
      /\ e > 0
  BY OfFormat
<1>4. Difference("Float", x, y) = Sum("Float", <<m>>, <<-n>>) /\ -n \in -Infinity .. Infinity
  BY <1>2, NegativeOf, InfinityNat DEF Difference
<1>5. ~ Infinite(<<m>>) /\ ~ Infinite(<<-n>>)
  <2>1. CASE Infinite(<<m>>)
    <3>1. Sum("Float", <<m>>, <<-n>>) \in {NaN, <<m>>}
      BY <2>1 DEF Sum
    <3>2. m \notin -e .. e
      BY <2>1, <1>3, InfinityNat DEF Infinite
    <3> QED
      BY <3>1, <3>2, <1>4
  <2>2. CASE ~ Infinite(<<m>>) /\ Infinite(<<-n>>)
    <3>1. Sum("Float", <<m>>, <<-n>>) \in {NaN, <<-n>>}
      BY <2>2 DEF Sum
    <3>2. -n \notin -e .. e
      BY <2>2, <1>3, InfinityNat DEF Infinite
    <3> QED
      BY <3>1, <3>2, <1>4
  <2> QED
    BY <2>1, <2>2
<1>6. /\ Difference("Float", x, y) = <<F.round[m + (-n)]>>
      /\ F.round[m + (-n)] \in -Infinity .. Infinity
  BY <1>4, <1>5, FiniteSum
<1>7. F.round[m + (-n)] \in -e .. e
  BY <1>6
<1>8. /\ m + (-n) \in -2 * Infinity .. 2 * Infinity
      /\ 2 * e \in -2 * Infinity .. 2 * Infinity
      /\ -2 * e \in -2 * Infinity .. 2 * Infinity
  <2> HIDE DEF e
  <2> QED
    BY <1>3, InfinityNat
<1>9. /\ 2 * e <= m + (-n) => 2 * e <= F.round[m + (-n)]
      /\ m + (-n) <= -2 * e => F.round[m + (-n)] <= -2 * e
  BY <1>3, <1>8, OfFormat
<1>10. m - n \in -(2 * e) .. 2 * e
  <2> HIDE DEF e, F
  <2> QED
    BY <1>3, <1>7, <1>9, InfinityNat
<1> QED
  BY <1>1, <1>2, <1>10

(* The numbers of a type are rounded to themselves.                        *)
LEMMA NumbersHeld ==
  ASSUME NEW elem \in {"Float", "Double"}, NEW n \in NumbersOf(elem)
  PROVE  n \in -Infinity .. Infinity /\ Format[elem].round[n] = n
<1> DEFINE F == Format[elem]
<1>1. PICK k \in 0 .. F.patterns - 1 : F.number[k] # NaN /\ n = F.number[k][1]
  BY DEF NumbersOf
<1>2. F.number[k] \in Numbers /\ F.round[F.number[k][1]] = F.number[k][1]
  BY <1>1, OfFormat
<1>3. n \in -Infinity .. Infinity
  BY <1>1, <1>2 DEF Numbers
<1> QED
  BY <1>1, <1>2, <1>3

(* A difference whose rounding is close to a number is near to it: rounding*)
(* never moves it past a number that the format holds.                     *)
LEMMA RoundedNear ==
  ASSUME NEW elem \in {"Float", "Double"}, NEW d \in -2 * Infinity .. 2 * Infinity, NEW c \in Int,
         Format[elem].round[d] - c \in -Tolerance(elem) .. Tolerance(elem)
  PROVE  Near(elem, d, c)
<1> DEFINE F == Format[elem]
           t == Tolerance(elem)
<1>1. t \in Int
  BY OfFormat DEF Tolerance
<1>2. F.round[d] \in -Infinity .. Infinity
  BY OfFormat
<1> SUFFICES ASSUME NEW n \in NumbersOf(elem)
             PROVE  (n > c + t => d < n) /\ (n < c - t => n < d)
  BY DEF Near
<1>3. n \in -Infinity .. Infinity /\ F.round[n] = n
  BY NumbersHeld
<1>4. n \in -2 * Infinity .. 2 * Infinity
  BY <1>3, InfinityNat
<1>5. (d <= n => F.round[d] <= n) /\ (n <= d => n <= F.round[d])
  BY <1>3, <1>4, OfFormat
<1> HIDE DEF F, t
<1>6. F.round[d] - c \in -t .. t
  BY DEF F, t
<1> QED
  BY <1>1, <1>2, <1>3, <1>5, <1>6, InfinityNat

(* A finite difference is that of two finite numbers, rounded.             *)
LEMMA FiniteDifference ==
  ASSUME NEW elem \in {"Float", "Double"},
         NEW x \in Numbers \cup {NaN}, NEW y \in Numbers \cup {NaN},
         Difference(elem, x, y) # NaN, ~ Infinite(x), ~ Infinite(y)
  PROVE  /\ x # NaN /\ y # NaN
         /\ Apart(x, y) \in -2 * Infinity .. 2 * Infinity
         /\ Difference(elem, x, y) = <<Format[elem].round[Apart(x, y)]>>
         /\ Format[elem].round[Apart(x, y)] \in -Infinity .. Infinity
<1>1. x # NaN /\ y # NaN
  BY DEF Difference, Sum, Negative
<1>2. PICK m \in -Infinity .. Infinity, n \in -Infinity .. Infinity : x = <<m>> /\ y = <<n>>
  BY <1>1 DEF Numbers
<1>3. /\ Negative(y) = <<-n>> /\ -n \in -Infinity .. Infinity
      /\ ~ Infinite(<<m>>) /\ ~ Infinite(<<-n>>)
  BY <1>2, NegativeOf, InfinityNat
<1>4. Difference(elem, x, y) = <<Format[elem].round[m + (-n)]>>
      /\ Format[elem].round[m + (-n)] \in -Infinity .. Infinity
  <2>1. Difference(elem, x, y) = Sum(elem, <<m>>, <<-n>>)
    BY <1>2, <1>3 DEF Difference
  <2> QED
    BY <1>3, <2>1, FiniteSum
<1>5. Apart(x, y) = m - n
  BY <1>2 DEF Apart
<1>6. m - n = m + (-n) /\ m - n \in -2 * Infinity .. 2 * Infinity
  BY InfinityNat
<1> QED
  BY <1>1, <1>4, <1>5, <1>6

(* With an infinite number a difference is infinite, or none.              *)
LEMMA InfiniteDifference ==
  ASSUME NEW elem \in {"Float", "Double"},
         NEW x \in Numbers \cup {NaN}, NEW y \in Numbers \cup {NaN},
         Difference(elem, x, y) # NaN, Infinite(x) \/ Infinite(y)
  PROVE  /\ x # NaN /\ y # NaN /\ ~ (Infinite(x) /\ x = y)
         /\ Difference(elem, x, y) = <<Apart(x, y)>>
         /\ Infinite(<<Apart(x, y)>>) /\ Apart(x, y) \in Int
<1>1. x # NaN /\ y # NaN
  BY DEF Difference, Sum, Negative
<1>2. PICK m \in -Infinity .. Infinity, n \in -Infinity .. Infinity : x = <<m>> /\ y = <<n>>
  BY <1>1 DEF Numbers
<1>3. Negative(y) = <<-n>> /\ (Infinite(<<-n>>) <=> Infinite(y)) /\ <<-n>> # NaN
  BY <1>2, NegativeOf DEF NaN
<1>4. ~ (Infinite(x) /\ x = y)
  <2> SUFFICES ASSUME Infinite(x), x = y PROVE FALSE
    OBVIOUS
  <2>1. x = Negative(Negative(y))
    BY <1>2, <1>3, NegativeOf, InfinityNat DEF Negative, NaN
  <2> QED
    BY <2>1 DEF Difference, Sum
<1>5. CASE Infinite(x)
  <2>1. Difference(elem, x, y) = x /\ Apart(x, y) = m
    BY <1>1, <1>2, <1>3, <1>5 DEF Difference, Sum, Apart
  <2> QED
    BY <1>1, <1>2, <1>4, <1>5, <2>1, InfinityNat
<1>6. CASE ~ Infinite(x)
  <2>1. Difference(elem, x, y) = <<-n>> /\ Apart(x, y) = -n
    BY <1>1, <1>2, <1>3, <1>6 DEF Difference, Sum, Apart
  <2> QED
    BY <1>1, <1>2, <1>3, <1>4, <1>6, <2>1, InfinityNat
<1> QED
  BY <1>5, <1>6

(* A Float found by its step has moved by it, up to twice eps: an infinite *)
(* difference is not within eps of anything.                               *)
LEMMA FloatRaised ==
  ASSUME NEW q \in Queries, q.elem = "Float", Given(q.raw2), NEW a \in Word64, NEW b \in Word64,
         LET d == Difference("Float", Difference("Float", Number("Float", a), Number("Float", b)),
                             Number("Float", q.raw2[1]))
         IN  d # NaN /\ d[1] \in -Format["Float"].eps .. Format["Float"].eps
  PROVE  Raised(q, a, b)
<1> DEFINE x == Number("Float", a)
           y == Number("Float", b)
           z == Number("Float", q.raw2[1])
           d == Difference("Float", x, y)
           e == Format["Float"].eps
<1>1. q.raw2[1] \in Nat /\ a \in Nat /\ b \in Nat
  BY DEF Queries, Given, Word64
<1>2. x \in Numbers \cup {NaN} /\ y \in Numbers \cup {NaN} /\ z \in Numbers \cup {NaN}
  BY <1>1, BitsHold DEF Held
<1>3. d # NaN
  BY DEF Difference, Sum
<1>4. e \in Nat /\ 2 * e < Infinity
  BY OfFormat
<1>5. d \in Numbers
  <2>1. CASE Infinite(x) \/ Infinite(y)
    BY <1>2, <1>3, <2>1, InfiniteDifference, InfinityNat DEF Infinite, Numbers
  <2>2. CASE ~ Infinite(x) /\ ~ Infinite(y)
    BY <1>2, <1>3, <2>2, FiniteDifference DEF Numbers
  <2> QED
    BY <2>1, <2>2
<1>6. z # NaN /\ d[1] - z[1] \in -(2 * e) .. 2 * e
  BY <1>2, <1>5, CloseNumbers
<1>7. ~ Infinite(d)
  <2> SUFFICES ASSUME Infinite(d) PROVE FALSE
    OBVIOUS
  <2>1. Difference("Float", d, z) \in {NaN, d}
    BY <1>3 DEF Difference, Sum
  <2>2. d[1] \notin -e .. e
    BY <1>4, InfinityNat DEF Infinite
  <2> QED
    BY <2>1, <2>2
<1>8. ~ Infinite(x) /\ ~ Infinite(y)
  <2> SUFFICES ASSUME Infinite(x) \/ Infinite(y) PROVE FALSE
    OBVIOUS
  <2>1. d = <<Apart(x, y)>> /\ Infinite(<<Apart(x, y)>>)
    BY <1>2, <1>3, InfiniteDifference
  <2> QED
    BY <1>7, <2>1
<1>9. /\ x # NaN /\ y # NaN
      /\ Apart(x, y) \in -2 * Infinity .. 2 * Infinity
      /\ d = <<Format["Float"].round[Apart(x, y)]>>
  BY <1>2, <1>3, <1>8, FiniteDifference
<1>10. z[1] \in Int
  BY <1>2, <1>6 DEF Numbers
<1>11. Tolerance("Float") = 2 * e
  BY DEF Tolerance
<1>12. Near("Float", Apart(x, y), z[1])
  BY <1>6, <1>9, <1>10, <1>11, RoundedNear
<1> QED
  BY <1>6, <1>8, <1>9, <1>12 DEF Raised, ValueOf

(* A Double found by its step has moved by it, up to the rounding.         *)
LEMMA DoubleRaised ==
  ASSUME NEW q \in Queries, q.elem = "Double", Given(q.raw2), NEW a \in Word64, NEW b \in Word64,
         Equal(Difference("Double", Number("Double", a), Number("Double", b)),
               Number("Double", q.raw2[1]))
  PROVE  Raised(q, a, b)
<1> DEFINE x == Number("Double", a)
           y == Number("Double", b)
           z == Number("Double", q.raw2[1])
           d == Difference("Double", x, y)
<1>1. a \in Nat /\ b \in Nat
  BY DEF Word64
<1>2. x \in Numbers \cup {NaN} /\ y \in Numbers \cup {NaN}
  BY <1>1, BitsHold DEF Held
<1>3. d # NaN /\ z = d
  BY DEF Equal
<1>4. Tolerance("Double") = 0
  BY DEF Tolerance
<1>5. CASE Infinite(x) \/ Infinite(y)
  <2>1. /\ x # NaN /\ y # NaN /\ ~ (Infinite(x) /\ x = y)
        /\ z = <<Apart(x, y)>> /\ Apart(x, y) \in Int
    BY <1>2, <1>3, <1>5, InfiniteDifference
  <2>2. NumbersOf("Double") \subseteq Int
    BY NumbersHeld, InfinityNat
  <2>3. Near("Double", Apart(x, y), z[1])
    BY <1>4, <2>1, <2>2 DEF Near
  <2> QED
    BY <1>3, <2>1, <2>3 DEF Raised, ValueOf
<1>6. CASE ~ Infinite(x) /\ ~ Infinite(y)
  <2>1. /\ x # NaN /\ y # NaN
        /\ Apart(x, y) \in -2 * Infinity .. 2 * Infinity
        /\ z = <<Format["Double"].round[Apart(x, y)]>>
        /\ Format["Double"].round[Apart(x, y)] \in -Infinity .. Infinity
    BY <1>2, <1>3, <1>6, FiniteDifference
  <2>2. z[1] \in Int /\ Format["Double"].round[Apart(x, y)] - z[1] \in -0 .. 0
    BY <2>1, InfinityNat
  <2>3. Near("Double", Apart(x, y), z[1])
    BY <1>4, <2>1, <2>2, RoundedNear
  <2> QED
    BY <1>3, <1>6, <2>1, <2>3 DEF Raised, ValueOf
<1> QED
  BY <1>5, <1>6

-----------------------------------------------------------------------------

(* What a Float criterion finds meets it: the tolerance and the roundings  *)
(* never turn an increase into something else, nor a NaN into a number.    *)
LEMMA FloatMeets ==
  ASSUME NEW q \in Queries, q.elem = "Float", NEW a \in Word64, NEW b \in Word64, Match(q, a, b)
  PROVE  Meets(q, a, b)
<1> DEFINE x == Number("Float", a)
           y == Number("Float", b)
           z == Number("Float", q.raw2[1])
           eps == <<Format["Float"].eps>>
<1>1. FloatMatch(q.type, a, b, q.raw2)
  BY DEF Match
<1>2. Held("Float", x) /\ Held("Float", y) /\ x \in Numbers \cup {NaN} /\ y \in Numbers \cup {NaN}
  BY BitsHold DEF Held, Word64
<1>3. Given(q.raw2) => q.raw2[1] \in Nat
  BY DEF Queries, Given, Word64
<1>4. Given(q.raw2) => Held("Float", z) /\ z \in Numbers \cup {NaN}
  BY <1>3, BitsHold DEF Held
<1>5. ValueOf(q.elem, a) = x /\ ValueOf(q.elem, b) = y /\ ValueOf(q.elem, q.raw2[1]) = z
      /\ Tolerance(q.elem) = 2 * Format["Float"].eps
  BY DEF ValueOf, Tolerance
<1>6. CASE q.type \in {"exact_value", "unchanged"}
  <2>1. /\ Difference("Float", x, y) # NaN
        /\ Difference("Float", x, y)[1] \in -Format["Float"].eps .. Format["Float"].eps
    BY <1>1, <1>6 DEF FloatMatch
  <2> QED
    BY <1>2, <1>5, <1>6, <2>1, CloseNumbers DEF Meets
<1>7. CASE q.type \in {"increased_value", "bigger_than"}
  <2>1. Less(Sum("Float", y, eps), x)
    BY <1>1, <1>7 DEF FloatMatch
  <2>2. Less(y, x)
    BY <1>2, <2>1, ToleranceOrder
  <2> QED
    BY <1>5, <1>7, <2>2 DEF Meets
<1>8. CASE q.type \in {"decreased_value", "smaller_than"}
  <2>1. Less(x, Difference("Float", y, eps))
    BY <1>1, <1>8 DEF FloatMatch
  <2>2. Less(x, y)
    BY <1>2, <2>1, ToleranceOrder
  <2> QED
    BY <1>5, <1>8, <2>2 DEF Meets
<1>9. CASE q.type = "changed"
  <2>1. /\ Difference("Float", x, y) # NaN
        /\ Difference("Float", x, y)[1] \notin -Format["Float"].eps .. Format["Float"].eps
    BY <1>1, <1>9 DEF FloatMatch
  <2>2. ~ Equal(x, y)
    <3> SUFFICES ASSUME Equal(x, y) PROVE FALSE
      OBVIOUS
    <3>1. PICK n \in -Infinity .. Infinity : x = <<n>> /\ y = <<n>>
      BY <1>2 DEF Equal, Numbers
    <3>2. Negative(y) = <<-n>> /\ -n \in -Infinity .. Infinity
          /\ (Infinite(<<-n>>) <=> Infinite(<<n>>))
      BY <3>1, NegativeOf, InfinityNat
    <3>3. ~ Infinite(<<n>>)
      BY <2>1, <3>1, <3>2 DEF Difference, Sum
    <3>4. Difference("Float", x, y) = <<Format["Float"].round[n + (-n)]>>
      BY <3>1, <3>2, <3>3, FiniteSum DEF Difference
    <3>5. n + (-n) = 0
      OBVIOUS
    <3>6. Format["Float"].round[0] \in -Format["Float"].eps .. Format["Float"].eps
      BY ZeroRounds
    <3> QED
      BY <2>1, <3>4, <3>5, <3>6
  <2> QED
    BY <1>5, <1>9, <2>2 DEF Meets
<1>10. CASE q.type \in {"increased_by", "decreased_by"}
  <2>1. CASE q.type = "increased_by"
    <3>1. Raised(q, a, b)
      BY <1>1, <2>1, FloatRaised DEF FloatMatch
    <3> QED
      BY <2>1, <3>1 DEF Meets
  <2>2. CASE q.type = "decreased_by"
    <3>1. Raised(q, b, a)
      BY <1>1, <2>2, FloatRaised DEF FloatMatch
    <3> QED
      BY <2>2, <3>1 DEF Meets
  <2> QED
    BY <1>10, <2>1, <2>2
<1>11. CASE q.type = "value_between"
  <2>1. Given(q.raw2) /\ Less(Sum("Float", y, eps), x) /\ Less(x, Difference("Float", z, eps))
    BY <1>1, <1>11 DEF FloatMatch
  <2>2. Less(y, x) /\ Less(x, z)
    BY <1>2, <1>4, <2>1, ToleranceOrder
  <2> QED
    BY <1>5, <1>11, <2>1, <2>2 DEF Meets
<1> QED
  BY <1>1, <1>6, <1>7, <1>8, <1>9, <1>10, <1>11 DEF FloatMatch

(* The criteria of Doubles: no tolerance, and changed finds NaN.           *)
LEMMA DoubleMeets ==
  ASSUME NEW q \in Queries, q.elem = "Double", NEW a \in Word64, NEW b \in Word64, Match(q, a, b)
  PROVE  Meets(q, a, b)
<1> DEFINE x == Number("Double", a)
           y == Number("Double", b)
           z == Number("Double", q.raw2[1])
           eps == <<Format["Double"].eps>>
<1>1. DoubleMatch(q.type, a, b, q.raw2)
  BY DEF Match
<1>2. Held("Double", x) /\ Held("Double", y) /\ x \in Numbers \cup {NaN} /\ y \in Numbers \cup {NaN}
  BY BitsHold DEF Held, Word64
<1>3. ValueOf(q.elem, a) = x /\ ValueOf(q.elem, b) = y /\ ValueOf(q.elem, q.raw2[1]) = z
      /\ Tolerance(q.elem) = 0
  BY DEF ValueOf, Tolerance
<1>4. CASE q.type \in {"exact_value", "unchanged"}
  <2>1. x # NaN /\ y = x
    BY <1>1, <1>4 DEF DoubleMatch, Equal
  <2>2. x[1] \in Int
    BY <1>2, <2>1, InfinityNat DEF Numbers
  <2>3. x[1] - y[1] = 0
    BY <2>1, <2>2
  <2> QED
    BY <1>3, <1>4, <2>1, <2>3 DEF Meets
<1>5. CASE q.type = "bigger_than"
  <2>1. Less(Sum("Double", y, eps), x)
    BY <1>1, <1>5 DEF DoubleMatch
  <2>2. Less(y, x)
    BY <1>2, <2>1, ToleranceOrder
  <2> QED
    BY <1>3, <1>5, <2>2 DEF Meets
<1>6. CASE q.type = "smaller_than"
  <2>1. Less(x, Difference("Double", y, eps))
    BY <1>1, <1>6 DEF DoubleMatch
  <2>2. Less(x, y)
    BY <1>2, <2>1, ToleranceOrder
  <2> QED
    BY <1>3, <1>6, <2>2 DEF Meets
<1>7. CASE q.type \in {"increased_value", "decreased_value", "changed", "value_between"}
  BY <1>1, <1>3, <1>7 DEF DoubleMatch, Meets
<1>8. CASE q.type \in {"increased_by", "decreased_by"}
  <2>1. CASE q.type = "increased_by"
    <3>1. Raised(q, a, b)
      BY <1>1, <2>1, DoubleRaised DEF DoubleMatch
    <3> QED
      BY <2>1, <3>1 DEF Meets
  <2>2. CASE q.type = "decreased_by"
    <3>1. Raised(q, b, a)
      BY <1>1, <2>2, DoubleRaised DEF DoubleMatch
    <3> QED
      BY <2>2, <3>1 DEF Meets
  <2> QED
    BY <1>8, <2>1, <2>2
<1> QED
  BY <1>1, <1>4, <1>5, <1>6, <1>7, <1>8 DEF DoubleMatch

(* The criteria of integers, where a difference wraps as the sum does.     *)
LEMMA IntegerMeets ==
  ASSUME NEW q \in Queries, q.elem \notin {"Float", "Double"},
         NEW a \in Word64, NEW b \in Word64, Match(q, a, b)
  PROVE  Meets(q, a, b)
<1>1. IntegerMatch(q.type, a, b, q.raw2)
  BY DEF Match
<1>2. ValueOf(q.elem, a) = <<a>> /\ ValueOf(q.elem, b) = <<b>>
      /\ ValueOf(q.elem, q.raw2[1]) = <<q.raw2[1]>> /\ Tolerance(q.elem) = 0
  BY DEF ValueOf, Tolerance
<1>3. <<a>> # NaN /\ <<b>> # NaN /\ <<q.raw2[1]>> # NaN
  BY DEF NaN
<1>4. a \in Int /\ b \in Int /\ (Given(q.raw2) => q.raw2[1] \in Word64)
  BY DEF Word64, Queries, Given
<1>5. CASE q.type \in {"exact_value", "unchanged"}
  <2>1. a - b = 0
    BY <1>1, <1>4, <1>5 DEF IntegerMatch
  <2> QED
    BY <1>2, <1>3, <1>5, <2>1 DEF Meets
<1>6. CASE q.type \in {"increased_value", "bigger_than", "decreased_value", "smaller_than",
                       "value_between"}
  BY <1>1, <1>2, <1>3, <1>4, <1>6 DEF IntegerMatch, Meets, Less
<1>7. CASE q.type = "changed"
  BY <1>1, <1>2, <1>7 DEF IntegerMatch, Meets, Equal
<1>8. CASE q.type = "increased_by"
  <2>1. Given(q.raw2) /\ (a - b) % Word = q.raw2[1]
    BY <1>1, <1>8 DEF IntegerMatch
  <2>2. q.raw2[1] \in Word64
    BY <1>4, <2>1
  <2>3. a = (b + q.raw2[1]) % Word
    BY <2>1, <2>2, WrappedDifference
  <2> QED
    BY <1>8, <2>1, <2>3 DEF Meets, Raised
<1>9. CASE q.type = "decreased_by"
  <2>1. Given(q.raw2) /\ (b - a) % Word = q.raw2[1]
    BY <1>1, <1>9 DEF IntegerMatch
  <2>2. q.raw2[1] \in Word64
    BY <1>4, <2>1
  <2>3. b = (a + q.raw2[1]) % Word
    BY <2>1, <2>2, WrappedDifference
  <2> QED
    BY <1>9, <2>1, <2>3 DEF Meets, Raised
<1> QED
  BY <1>1, <1>5, <1>6, <1>7, <1>8, <1>9 DEF IntegerMatch

(* What make_comparator finds meets its criterion, for elements of every   *)
(* type, tolerance and rounding: an order or equality up to the tolerance, *)
(* a step up to that and to the spacing of the format's numbers.           *)
THEOREM FoundMeets ==
  \A q \in Queries, a, b \in Word64 : Match(q, a, b) => Meets(q, a, b)
  BY FloatMeets, DoubleMeets, IntegerMeets

(* No element is found both increased and decreased against the same value,*)
(* and none both changed and unchanged.                                    *)
THEOREM OppositesExclude ==
  ASSUME NEW p \in Queries, NEW q \in Queries, p.elem = q.elem,
         NEW a \in Word64, NEW b \in Word64
  PROVE  /\ p.type = "increased_value" /\ q.type = "decreased_value"
              => ~ (Match(p, a, b) /\ Match(q, a, b))
         /\ p.type = "changed" /\ q.type = "unchanged"
              => ~ (Match(p, a, b) /\ Match(q, a, b))
<1>1. ASSUME p.type = "increased_value", q.type = "decreased_value",
             Match(p, a, b), Match(q, a, b)
      PROVE  FALSE
  <2> DEFINE x == ValueOf(p.elem, a)
             y == ValueOf(p.elem, b)
  <2>1. Meets(p, a, b) /\ Meets(q, a, b)
    BY <1>1, FoundMeets
  <2>2. Less(y, x) /\ Less(x, y)
    BY <1>1, <2>1 DEF Meets
  <2>3. x \in Numbers \cup {NaN} \cup {<<a>>} /\ y \in Numbers \cup {NaN} \cup {<<b>>}
    BY BitsHold DEF ValueOf, Held, Word64
  <2>4. x[1] \in Int /\ y[1] \in Int
    BY <2>2, <2>3, InfinityNat DEF Less, Numbers, Word64
  <2> QED
    BY <2>2, <2>4 DEF Less
<1>2. ASSUME p.type = "changed", q.type = "unchanged", Match(p, a, b), Match(q, a, b)
      PROVE  FALSE
  <2>1. CASE q.elem = "Float"
    BY <1>2, <2>1 DEF Match, FloatMatch
  <2>2. CASE q.elem = "Double"
    BY <1>2, <2>2 DEF Match, DoubleMatch
  <2>3. CASE q.elem \notin {"Float", "Double"}
    BY <1>2, <2>3 DEF Match, IntegerMatch
  <2> QED
    BY <2>1, <2>2, <2>3
<1> QED
  BY <1>1, <1>2

(* A Float that is NaN, or is compared with NaN, is found by no criterion: *)
(* it counts neither as changed nor as unchanged.                          *)
THEOREM FloatNaNNotFound ==
  ASSUME NEW q \in Queries, q.elem = "Float", NEW a \in Word64, NEW b \in Word64,
         Number("Float", a) = NaN \/ Number("Float", b) = NaN
  PROVE  ~ Match(q, a, b)
  BY DEF Match, FloatMatch, Sum, Difference, Negative, Less

(* Two Doubles that are not NaN are in exactly one of three relations, and *)
(* changed is the opposite of unchanged, for NaN too.                      *)
THEOREM DoubleTrichotomy ==
  ASSUME NEW a \in Word64, NEW b \in Word64, NEW c
  PROVE  /\ DoubleMatch("changed", a, b, c) <=> ~ DoubleMatch("unchanged", a, b, c)
         /\ Number("Double", a) # NaN /\ Number("Double", b) # NaN
              => \/ DoubleMatch("unchanged", a, b, c)
                 \/ DoubleMatch("increased_value", a, b, c)
                 \/ DoubleMatch("decreased_value", a, b, c)
<1> DEFINE x == Number("Double", a)
           y == Number("Double", b)
<1>1. DoubleMatch("changed", a, b, c) <=> ~ DoubleMatch("unchanged", a, b, c)
  BY DEF DoubleMatch
<1>2. ASSUME x # NaN, y # NaN PROVE Equal(x, y) \/ Less(y, x) \/ Less(x, y)
  <2>1. PICK m \in -Infinity .. Infinity, n \in -Infinity .. Infinity : x = <<m>> /\ y = <<n>>
    BY <1>2, BitsHold DEF Held, Numbers, Word64
  <2> HIDE DEF x, y
  <2>2. m = n \/ m > n \/ m < n
    BY InfinityNat
  <2> QED
    BY <1>2, <2>1, <2>2 DEF Equal, Less
<1> QED
  BY <1>1, <1>2 DEF DoubleMatch

(* For elements narrower than the word, increased_by finds true increases  *)
(* only: a counter that wrapped at its own width is not found, as it would *)
(* be if the difference were taken at that width.                          *)
THEOREM NoWrapAtWidth ==
  ASSUME NEW W \in Nat \ {0}, 2 * W <= Word,
         NEW a \in 0 .. W - 1, NEW b \in 0 .. W - 1, NEW c \in 0 .. W - 1
  PROVE  /\ IntegerMatch("increased_by", a, b, <<c>>) <=> a = b + c
         /\ IntegerMatch("decreased_by", a, b, <<c>>) <=> a = b - c
<1>1. a \in Word64 /\ b \in Word64 /\ c \in Word64
  BY WordAssumption DEF Word64
<1>2. ASSUME NEW x \in 0 .. W - 1, NEW y \in 0 .. W - 1
      PROVE  (x - y) % Word = c <=> x = y + c
  <2>1. (x - y) % Word = IF x - y < 0 THEN x - y + Word ELSE x - y
    BY WordAssumption, ModWord
  <2> QED
    BY <2>1, WordAssumption
<1>3. Given(<<c>>)
  BY DEF Given
<1>4. (a - b) % Word = c <=> a = b + c
  BY <1>2
<1>5. (b - a) % Word = c <=> b = a + c
  BY <1>2
<1> QED
  BY <1>3, <1>4, <1>5 DEF IntegerMatch
=============================================================================
