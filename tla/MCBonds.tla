------------------------------- MODULE MCBonds -------------------------------
(***************************************************************************)
(* Small instances of Bonds: the curves of BondCurves tabulated over the   *)
(* supplies of the instance, and the funds of the two accounts.            *)
(***************************************************************************)
EXTENDS Bonds, BondCurves, TLC

CONSTANTS
  a, b,                     \* the accounts
  BuyerFunds, SellerFunds,  \* what they start with
  D0, Kappa                 \* augmented function: initial raise and exponent

MCFunds == (a :> BuyerFunds) @@ (b :> SellerFunds)

\* power_function with m = 1, n = 1, c = 0: price x, reserve x^2 / 2.
LinearReserve == [x \in 0 .. MaxSupply |-> PowerReserve(Unit, 1, 0, x)]
LinearPrice == [x \in 0 .. MaxSupply |-> PowerPrice(Unit, 1, 0, x)]

\* augmented_function, with the parameters handleMsgCreateBond derives.
HatchSupply == AugmentedS0(D0, P0)
HatchV0 == AugmentedV0(D0, P0, Theta, Kappa)
AugmentedReserves == [x \in 0 .. MaxSupply |-> AugmentedReserve(Kappa, HatchV0, x)]
AugmentedPrices == [x \in 0 .. MaxSupply |-> AugmentedPrice(Kappa, HatchV0, x)]

=============================================================================
