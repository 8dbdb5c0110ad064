-------------------------------- MODULE Coins --------------------------------
(***************************************************************************)
(* The coins (sdk.Coins) of the bank, and the key-value stores of the      *)
(* modules.  A denomination that is missing from coins has the amount 0.   *)
(***************************************************************************)
EXTENDS Integers, FiniteSets

CONSTANT Denom
ASSUME DenomAssumption == IsFiniteSet(Denom)

CoinSet == [Denom -> Nat]
NoCoins == [d \in Denom |-> 0]
Add(x, y) == [d \in Denom |-> x[d] + y[d]]
Sub(x, y) == [d \in Denom |-> x[d] - y[d]]
Covers(x, y) == \A d \in Denom : x[d] >= y[d]

\* A store with nothing in it, and Store.Set.
Empty == [i \in {} |-> 0]
Store(store, id, value) ==
  [i \in DOMAIN store \cup {id} |-> IF i = id THEN value ELSE store[i]]

=============================================================================
