----------------------------- MODULE Comparator -----------------------------
(***************************************************************************)
(* slow_scanner::make_comparator (slow_scanner.h).  Elements of every width*)
(* arrive as uint64_t, their bits.  An integer difference wraps at the     *)
(* word, not at the width of the element.  Floating-point numbers are whole*)
(* multiples of a unit, and infinity a number beyond all others; every sum *)
(* is rounded to the format.                                               *)
(***************************************************************************)
EXTENDS Integers, Sequences

CONSTANTS
  Word,         (* 2^64, the number of values of a uint64_t.               *)
  ElementSize,  (* element_size(), of the element types in use.            *)
  Infinity,     (* Stands for infinity in every format.                    *)
  Format        (* Format["Float"] and Format["Double"]: the number of bit *)
                (* patterns, what each of them means, which number a sum is*)
                (* rounded to, and eps.                                    *)

NaN == << >>
Numbers == {<<n>> : n \in -Infinity .. Infinity}

ASSUME WordAssumption == Word \in Nat \ {0}
ASSUME SizeAssumption == \A elem \in DOMAIN ElementSize : ElementSize[elem] \in Nat \ {0}

(* Rounding is monotone and leaves alone what the format can hold, which   *)
(* are its bit patterns, eps, twice eps, and these two below zero.         *)
ASSUME FormatAssumption ==
  /\ Infinity \in Nat
  /\ \A type \in {"Float", "Double"} :
       LET F == Format[type]
           Holds(n) == F.round[n] = n
       IN  /\ F.patterns \in Nat \ {0}
           /\ F.number \in [0 .. F.patterns - 1 -> Numbers \cup {NaN}]
           /\ F.round \in [-2 * Infinity .. 2 * Infinity -> -Infinity .. Infinity]
           /\ \A m, n \in -2 * Infinity .. 2 * Infinity : m <= n => F.round[m] <= F.round[n]
           /\ \A k \in 0 .. F.patterns - 1 : F.number[k] # NaN => Holds(F.number[k][1])
           /\ F.eps \in Nat \ {0} /\ 2 * F.eps < Infinity
           /\ Holds(F.eps) /\ Holds(-F.eps) /\ Holds(2 * F.eps) /\ Holds(-2 * F.eps)

-----------------------------------------------------------------------------

(* read_fp: the first bytes of the bits, as many as the type has.          *)
Number(type, bits) == Format[type].number[bits % Format[type].patterns]

Negative(x) == IF x = NaN THEN NaN ELSE <<-x[1]>>
Infinite(x) == x \in {<<Infinity>>, <<-Infinity>>}

Sum(type, x, y) ==
  IF x = NaN \/ y = NaN \/ (Infinite(x) /\ y = Negative(x)) THEN NaN
  ELSE IF Infinite(x) THEN x
  ELSE IF Infinite(y) THEN y
  ELSE <<Format[type].round[x[1] + y[1]]>>

Difference(type, x, y) == Sum(type, x, Negative(y))

(* NaN is neither less than a number nor equal to one, nor to itself.      *)
Less(x, y) == x # NaN /\ y # NaN /\ x[1] < y[1]
Equal(x, y) == x # NaN /\ x = y

(* std::optional<uint64_t>: << >> is nullopt.                              *)
Given(c) == c # << >>

-----------------------------------------------------------------------------

FloatMatch(type, aBits, bBits, cBits) ==
  LET eps == Format["Float"].eps
      a == Number("Float", aBits)
      b == Number("Float", bBits)
      c == Number("Float", cBits[1])
      Minus(x, y) == Difference("Float", x, y)
      Above(x, y) == Less(Sum("Float", y, <<eps>>), x)
      Below(x, y) == Less(x, Minus(y, <<eps>>))
      Within(d) == d # NaN /\ d[1] \in -eps .. eps
      Outside(d) == d # NaN /\ d[1] \notin -eps .. eps
  IN  \/ type \in {"exact_value", "unchanged"} /\ Within(Minus(a, b))
      \/ type \in {"increased_value", "bigger_than"} /\ Above(a, b)
      \/ type \in {"decreased_value", "smaller_than"} /\ Below(a, b)
      \/ type = "changed" /\ Outside(Minus(a, b))
      \/ type = "increased_by" /\ Given(cBits) /\ Within(Minus(Minus(a, b), c))
      \/ type = "decreased_by" /\ Given(cBits) /\ Within(Minus(Minus(b, a), c))
      \/ type = "value_between" /\ Given(cBits) /\ Above(a, b) /\ Below(a, c)

DoubleMatch(type, aBits, bBits, cBits) ==
  LET eps == <<Format["Double"].eps>>
      a == Number("Double", aBits)
      b == Number("Double", bBits)
      c == Number("Double", cBits[1])
      Minus(x, y) == Difference("Double", x, y)
  IN  \/ type \in {"exact_value", "unchanged"} /\ Equal(a, b)
      \/ type = "increased_value" /\ Less(b, a)
      \/ type = "decreased_value" /\ Less(a, b)
      \/ type = "bigger_than" /\ Less(Sum("Double", b, eps), a)
      \/ type = "smaller_than" /\ Less(a, Minus(b, eps))
      \/ type = "changed" /\ ~ Equal(a, b)
      \/ type = "increased_by" /\ Given(cBits) /\ Equal(Minus(a, b), c)
      \/ type = "decreased_by" /\ Given(cBits) /\ Equal(Minus(b, a), c)
      \/ type = "value_between" /\ Given(cBits) /\ Less(b, a) /\ Less(a, c)

(* Mutant: increased_by subtracts in the wrong order.                      *)
IntegerMatch_Reversed(type, a, b, c) ==
  \/ type \in {"exact_value", "unchanged"} /\ a = b
  \/ type \in {"increased_value", "bigger_than"} /\ a > b
  \/ type \in {"decreased_value", "smaller_than"} /\ a < b
  \/ type = "changed" /\ a # b
  \/ type \in {"increased_by", "decreased_by"} /\ Given(c) /\ (b - a) % Word = c[1]
  \/ type = "value_between" /\ Given(c) /\ a > b /\ a < c[1]

IntegerMatch(type, a, b, c) ==
  \/ type \in {"exact_value", "unchanged"} /\ a = b
  \/ type \in {"increased_value", "bigger_than"} /\ a > b
  \/ type \in {"decreased_value", "smaller_than"} /\ a < b
  \/ type = "changed" /\ a # b
  \/ type = "increased_by" /\ Given(c) /\ (a - b) % Word = c[1]
  \/ type = "decreased_by" /\ Given(c) /\ (b - a) % Word = c[1]
  \/ type = "value_between" /\ Given(c) /\ a > b /\ a < c[1]

(* cmp(a, b, raw2) of query q; unknown_value, and any other type, matches  *)
(* nothing.                                                                *)
Match(q, a, b) ==
  CASE q.elem = "Float" -> FloatMatch(q.type, a, b, q.raw2)
    [] q.elem = "Double" -> DoubleMatch(q.type, a, b, q.raw2)
    [] OTHER -> IntegerMatch(q.type, a, b, q.raw2)

(* The types that next_scan compares with the value of the scan before.    *)
Relative == {"unchanged", "changed", "decreased_value", "increased_value"}

=============================================================================
