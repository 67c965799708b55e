------------------------------ MODULE Criteria ------------------------------
(***************************************************************************)
(* What the caller of a scan may rely on for an element that was found,    *)
(* whatever its type: a statement about numbers as they are, without the   *)
(* roundings and most of the tolerances of the comparator.                 *)
(***************************************************************************)
EXTENDS Comparator

(* The number in the bits of an element.                                   *)
ValueOf(elem, bits) == IF elem \in {"Float", "Double"} THEN Number(elem, bits) ELSE <<bits>>

(* How far apart two elements may be that count as the same.               *)
Tolerance(elem) == IF elem = "Float" THEN 2 * Format["Float"].eps ELSE 0

(* The numbers that an element of the type can be.                         *)
NumbersOf(elem) ==
  LET F == Format[elem] IN {F.number[k][1] : k \in {k \in 0 .. F.patterns - 1 : F.number[k] # NaN}}

(* x - y as it is; infinite when one of them is.                           *)
Apart(x, y) == IF Infinite(x) THEN x[1] ELSE IF Infinite(y) THEN -y[1] ELSE x[1] - y[1]

(* The difference d is the step c, up to the tolerance and to what elements*)
(* of the type can tell apart: none of their numbers lies between them.    *)
Near(elem, d, c) ==
  \A n \in NumbersOf(elem) :
    /\ n > c + Tolerance(elem) => d < n
    /\ n < c - Tolerance(elem) => n < d

(* The element with bits a is the one with bits b and raw2 more.           *)
Raised(q, a, b) ==
  LET x == ValueOf(q.elem, a)
      y == ValueOf(q.elem, b)
      z == ValueOf(q.elem, q.raw2[1])
  IN  /\ Given(q.raw2)
      /\ IF q.elem \notin {"Float", "Double"} THEN a = (b + q.raw2[1]) % Word
         ELSE /\ NaN \notin {x, y, z} /\ ~ (Infinite(x) /\ x = y)
              /\ Near(q.elem, Apart(x, y), z[1])

(* The element now has bits a, and b is what it is compared with.          *)
Meets(q, a, b) ==
  LET x == ValueOf(q.elem, a)
      y == ValueOf(q.elem, b)
      z == ValueOf(q.elem, q.raw2[1])
  IN  CASE q.type \in {"exact_value", "unchanged"} ->
             x # NaN /\ y # NaN /\ x[1] - y[1] \in -Tolerance(q.elem) .. Tolerance(q.elem)
        [] q.type \in {"increased_value", "bigger_than"} -> Less(y, x)
        [] q.type \in {"decreased_value", "smaller_than"} -> Less(x, y)
        [] q.type = "changed" -> ~ Equal(x, y)
        [] q.type = "value_between" -> Given(q.raw2) /\ Less(y, x) /\ Less(x, z)
        [] q.type = "increased_by" -> Raised(q, a, b)
        [] q.type = "decreased_by" -> Raised(q, b, a)
        [] OTHER -> FALSE

=============================================================================
