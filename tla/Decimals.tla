------------------------------ MODULE Decimals ------------------------------
(***************************************************************************)
(* shared/decimal.ts: exact decimals, an integer number of units at a      *)
(* scale.  bigint has no width, so units are integers.                     *)
(*                                                                         *)
(* A decimal in text form is modelled by its digits: 1.50 is 150 units at  *)
(* scale 2, and is another text than 1.5.  Rendering at a scale (toFixed)  *)
(* gives text of that scale, so its units say everything.                  *)
(***************************************************************************)
EXTENDS Integers

tenTo(power) == 10 ^ power

zero(scale) == [units |-> 0, scale |-> scale]

\* A larger scale, exactly.
shift(value, scale) ==
  [units |-> value.units * tenTo(scale - value.scale), scale |-> scale]

Wider(a, b) == IF a.scale >= b.scale THEN a.scale ELSE b.scale

\* Both operands at the wider of their scales.
compare(a, b) ==
  LET left == shift(a, Wider(a, b)).units
      right == shift(b, Wider(a, b)).units
  IN  IF left = right THEN 0 ELSE IF left < right THEN -1 ELSE 1

multiply(a, b) == [units |-> a.units * b.units, scale |-> a.scale + b.scale]

add(a, b) ==
  [units |-> shift(a, Wider(a, b)).units + shift(b, Wider(a, b)).units,
   scale |-> Wider(a, b)]

subtract(a, b) ==
  [units |-> shift(a, Wider(a, b)).units - shift(b, Wider(a, b)).units,
   scale |-> Wider(a, b)]

\* Wrong: bigint's division alone, which drops what is left.
Truncated(n, factor) == IF n >= 0 THEN n \div factor ELSE -((-n) \div factor)

\* Division to the nearest, a half away from zero.
HalfAwayFromZero(n, factor) ==
  LET size == IF n >= 0 THEN n ELSE -n
      nearest == IF 2 * (size % factor) < factor THEN size \div factor
                                                 ELSE size \div factor + 1
  IN  IF n >= 0 THEN nearest ELSE -nearest

round(value, scale) ==
  IF scale >= value.scale
  THEN shift(value, scale)
  ELSE [units |-> HalfAwayFromZero(value.units, tenTo(value.scale - scale)),
        scale |-> scale]

\* The text of a value at a scale; its units.
toFixed(value, scale) == round(value, scale).units

\* A column of a scale, read back.
parseDecimal(units, scale) == [units |-> units, scale |-> scale]

\* A percentage is applied by moving the point.
divideByHundred(value) == [units |-> value.units, scale |-> value.scale + 2]

=============================================================================
