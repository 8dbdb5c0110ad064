----------------------------- MODULE MCProjects -----------------------------
(***************************************************************************)
(* Small instances of Projects: alice creates the project and claims, bob  *)
(* claims and evaluates, ixo gets the fees.                                *)
(***************************************************************************)
EXTENDS Projects, TLC

CONSTANTS
  alice, bob, ixo, p1, k1, k2,   \* DIDs and claims
  x, y,                          \* the denominations, x is the native one
  AlicesFunds                    \* what alice starts with of x

OnlyX(n) == [d \in Denom |-> IF d = x THEN n ELSE 0]
MCFunds == [a \in Account |-> IF a = alice THEN OnlyX(AlicesFunds) ELSE NoCoins]

TemplateWith(amount, minimum, maximum) ==
  [amount |-> OnlyX(amount), minimum |-> OnlyX(minimum), maximum |-> OnlyX(maximum),
   discounts |-> <<>>]
ParamsWith(minimum, oracle, node) ==
  [ixoDid |-> ixo, minimumFunding |-> OnlyX(minimum),
   oracleFeePercentage |-> ToDec(oracle), nodeFeePercentage |-> ToDec(node)]

\* The oracle fee leaves a remainder; the limited one is raised to a minimum that
\* is above its amount, and ends at a maximum.
MCTemplates == ("oracle" :> TemplateWith(2, 0, 0)) @@ ("service" :> TemplateWith(1, 0, 0))
                 @@ ("limited" :> TemplateWith(1, 3, 4))

BothFees == ("OracleFee" :> "oracle") @@ ("FeeForService" :> "service")
LimitedFee == ("OracleFee" :> "limited")
UnknownFee == ("OracleFee" :> "unknown")
NoFees == [type \in {} |-> "oracle"]

MCSymmetry == Permutations({k1, k2})
MCFees == {BothFees, LimitedFee, UnknownFee}
MCFeesOrNone == {BothFees, NoFees}
\* Half of the oracle's pay is charged, or all of it, which leaves the oracle out, or
\* shares that are not the whole when they are rounded to fractions.
MCParams == {ParamsWith(1, 50, 50), ParamsWith(6, 100, 50), ParamsWith(1, 30, 50)}
MCTargets == {Internal(p1, p1), Internal(p1, bob)}
MCSends == {OnlyX(5)}
=============================================================================
