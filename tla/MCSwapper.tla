------------------------------ MODULE MCSwapper ------------------------------
(***************************************************************************)
(* A small pool: two accounts, one of them the fee address.                *)
(***************************************************************************)
EXTENDS Swapper, TLC

CONSTANTS ann, ben,     \* the accounts
          res, rez       \* the reserve tokens

Coin(x, y) == (res :> x) @@ (rez :> y)

\* A pool of 12 res and 2 rez with 3 bond tokens: two thirds are rounded up and one
\* third down, so the price of a token moves with the number that is bought, and
\* moves back when the buy of the others is cancelled.
MCFunds == (ann :> Coin(27, 9)) @@ (ben :> Coin(11, 3))
MCMaxPrices == {Coin(12, 2), Coin(15, 4), Coin(11, 3)}
MCOutcome == Coin(1, 1)
MCLimits == {Coin(3, 0) @@ (Token :> 0)}
MCSanity == {[rate |-> 0, margin |-> 0], [rate |-> 4 * Unit, margin |-> 60 * Unit]}

=============================================================================
