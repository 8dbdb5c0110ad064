-------------------------------- MODULE Sums --------------------------------
(***************************************************************************)
(* Totals of coin amounts.  The SDK adds amounts up in loops; here the     *)
(* total of an amount f[x] over a finite set of holders or orders is the   *)
(* number of single coins they have between them.  Counting instead of     *)
(* recursion lets the cardinality facts of the library speak about totals  *)
(* (Amounts_proofs).                                                       *)
(***************************************************************************)
EXTENDS Integers, FiniteSets

\* The single coins of x, numbered.
Coins(f, x) == {x} \X (1 .. f[x])

\* The single coins of all members of S.
AllCoins(f, S) == UNION {Coins(f, x) : x \in S}

\* The total of f over S.
SumOf(f, S) == Cardinality(AllCoins(f, S))

=============================================================================
