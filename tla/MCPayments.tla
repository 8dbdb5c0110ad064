------------------------------ MODULE MCPayments ------------------------------
(***************************************************************************)
(* Small instances of Payments: alice creates the contracts and is one of  *)
(* their recipients, carol is the other, bob pays.                         *)
(***************************************************************************)
EXTENDS Payments, TLC

CONSTANTS
  alice, bob, carol,     \* the accounts
  x, y,                  \* the denominations
  tp, c1, c2,            \* a template and two contracts
  BobsFunds,             \* what bob starts with, of each denomination
  BobsVesting            \* what of x he cannot spend before VestingEnd

OnlyX(n) == [d \in Denom |-> IF d = x THEN n ELSE 0]
Both(n, m) == [d \in Denom |-> IF d = x THEN n ELSE m]
MCFunds == [a \in Account |-> IF a = bob THEN [d \in Denom |-> BobsFunds] ELSE NoCoins]
MCVesting == [a \in Account |-> IF a = bob THEN OnlyX(BobsVesting) ELSE NoCoins]

Percent(n) == ToDec(n)
TemplateWith(amount, minimum, maximum, discounts) ==
  [amount |-> amount, minimum |-> minimum, maximum |-> maximum, discounts |-> discounts]
ContractWith(recipients, canDeauthorise, discount) ==
  [template |-> tp, creator |-> alice, payer |-> bob, recipients |-> recipients,
   canDeauthorise |-> canDeauthorise, authorised |-> FALSE, discountId |-> discount,
   cumulativePay |-> NoCoins, currentRemainder |-> NoCoins]
SubscriptionWith(contract, unit, start, length, max) ==
  [contract |-> contract, periodsSoFar |-> 0, maxPeriods |-> max,
   periodsAccumulated |-> 0,
   period |-> [unit |-> unit, start |-> start, length |-> length]]

Halves == << [account |-> alice, percentage |-> Percent(50)],
             [account |-> carol, percentage |-> Percent(50)] >>
Unequal == << [account |-> alice, percentage |-> Percent(30)],
              [account |-> carol, percentage |-> Percent(70)] >>
\* Three shares of 33.3, 33.3 and 33.4 percent: 0.3 each as fractions.
Thirds == << [account |-> alice, percentage |-> (HundredPercent \div 3)],
             [account |-> carol, percentage |-> (HundredPercent \div 3)],
             [account |-> alice, percentage |-> HundredPercent - 2 * (HundredPercent \div 3)] >>
NotAll == << [account |-> alice, percentage |-> Percent(90)] >>

\* One denomination, a minimum, a maximum and a discount of one half.
PlainTemplates == {TemplateWith(OnlyX(3), OnlyX(4), OnlyX(9), <<Percent(50)>>)}
PlainContracts == {ContractWith(Halves, TRUE, 0)}
PlainSubscriptions == {SubscriptionWith(c1, "block", 0, 1, 2),
                       SubscriptionWith(c2, "block", 1, 2, 2)}

\* Terms of every kind, those that are refused and those that should be.
AllTemplates == {TemplateWith(Both(2, 1), OnlyX(3), Both(4, 3), <<Percent(50), Percent(100)>>),
                 TemplateWith(Both(2, 1), NoCoins, OnlyX(3), <<>>),
                 TemplateWith(OnlyX(1), Both(0, 1), NoCoins, <<>>),
                 TemplateWith(OnlyX(2), OnlyX(4), OnlyX(3), <<>>)}
AllContracts == {ContractWith(r, FALSE, i) : r \in {Unequal, Thirds, NotAll}, i \in 0 .. 1}
AllSubscriptions == {SubscriptionWith(c1, "block", 0, 1, 3)}

\* Periods by time.
TimedSubscriptions == {SubscriptionWith(c1, "time", 1, 1, 3),
                       SubscriptionWith(c1, "time", 0, 2, 2)}

=============================================================================
