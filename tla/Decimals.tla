------------------------------ MODULE Decimals ------------------------------
(***************************************************************************)
(* The fixed-point decimals (sdk.Dec) the bonds and payments modules       *)
(* compute prices, fees and shares with.  A decimal is the integer number  *)
(* of its smallest units; Unit of them make one (10^18 in the SDK, fewer   *)
(* in the model-checking runs).                                            *)
(***************************************************************************)
EXTENDS Integers

CONSTANT Unit
ASSUME UnitAssumption == Unit \in Nat \ {0}

ToDec(n) == n * Unit

\* Integer quotient, truncated towards zero (d > 0).
QuoTrunc(n, d) == IF n >= 0 THEN n \div d ELSE -((-n) \div d)

\* n / Unit rounded to the nearest integer, ties to the even one (n >= 0).
RoundHalfEven(n) ==
  LET q == n \div Unit
      r == n % Unit
  IN  IF 2 * r < Unit \/ (2 * r = Unit /\ q % 2 = 0) THEN q ELSE q + 1

ChopPrecisionAndRound(n) ==
  IF n >= 0 THEN RoundHalfEven(n) ELSE -RoundHalfEven(-n)

Mul(a, b) == ChopPrecisionAndRound(a * b)
Quo(a, b) == ChopPrecisionAndRound(QuoTrunc(a * Unit * Unit, b))

\* Scaling by an integer: the product is exact, the quotient is truncated.
MulInt(a, n) == a * n
QuoInt(a, n) == a \div n

TruncateInt(a) == a \div Unit
CeilInt(a) == IF a % Unit = 0 THEN a \div Unit ELSE a \div Unit + 1

=============================================================================
