----------------------------- MODULE BondCurves -----------------------------
(***************************************************************************)
(* The curves a bond can be priced by: for each function type the price    *)
(* per token and the reserve that a supply of x tokens calls for.  The     *)
(* supply is an integer, every other number a decimal.                     *)
(***************************************************************************)
EXTENDS Decimals

\* d to the power n, by repeated squaring with a rounding at every product.
RECURSIVE PowerLoop(_, _, _)
PowerLoop(tmp, d, i) ==
  IF i <= 1 THEN Mul(d, tmp)
  ELSE PowerLoop(IF i % 2 = 0 THEN tmp ELSE Mul(tmp, d), Mul(d, d), i \div 2)

Power(d, n) == IF n = 0 THEN Unit ELSE PowerLoop(Unit, d, n)

\* Newton's iteration for the root-th root, until the step is at most the
\* smallest decimal.  The step is truncated towards zero.
RECURSIVE NewtonLoop(_, _, _)
NewtonLoop(d, root, guess) ==
  LET power == Power(guess, root - 1)
      diff  == Quo(d, IF power = 0 THEN 1 ELSE power) - guess
      delta == QuoTrunc(diff, root)
  IN  IF delta \in -1 .. 1 THEN guess + delta
      ELSE NewtonLoop(d, root, guess + delta)

ApproxRoot(d, root) ==
  IF root = 1 \/ d \in {0, Unit} THEN d ELSE NewtonLoop(d, root, Unit)

\* power_function: price m x^n + c.
PowerPrice(m, n, c, x) == Mul(Power(ToDec(x), n), m) + c
PowerReserve(m, n, c, x) ==
  Quo(Mul(Power(ToDec(x), n + 1), m), ToDec(n + 1)) + Mul(ToDec(x), c)

\* sigmoid_function: price a ((x - b) / sqrt((x - b)^2 + c) + 1).
SigmoidRoot(b, c, x) == ApproxRoot(Mul(ToDec(x) - b, ToDec(x) - b) + c, 2)
SigmoidPrice(a, b, c, x) ==
  Mul(a, Quo(ToDec(x) - b, SigmoidRoot(b, c, x)) + Unit)
SigmoidReserve(a, b, c, x) ==
  Mul(a, SigmoidRoot(b, c, x) + ToDec(x)) - Mul(a, ApproxRoot(Mul(b, b) + c, 2))

\* augmented_function in the OPEN phase: reserve S^kappa / V0.
AugmentedR0(d0, theta) == Mul(d0, Unit - theta)
AugmentedS0(d0, p0) == Quo(d0, p0)
AugmentedV0(d0, p0, theta, kappa) ==
  Quo(Power(AugmentedS0(d0, p0), kappa), AugmentedR0(d0, theta))
AugmentedReserve(kappa, V0, x) == Quo(Power(ToDec(x), kappa), V0)

\* The spot price; a reserve below one token is priced at zero.
AugmentedPrice(kappa, V0, x) ==
  LET R == AugmentedReserve(kappa, V0, x)
  IN  IF R < Unit THEN 0
      ELSE Quo(Mul(ToDec(kappa), ApproxRoot(Power(R, kappa - 1), kappa)),
               ApproxRoot(V0, kappa))

=============================================================================
