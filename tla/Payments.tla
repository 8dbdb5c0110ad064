------------------------------ MODULE Payments ------------------------------
(***************************************************************************)
(* The payments module: templates say what a payment costs, contracts bind *)
(* a template to a payer and to recipients, subscriptions effect a         *)
(* contract once per period.                                               *)
(*                                                                         *)
(* A transaction is one action: a handler that returns an error or panics  *)
(* is rolled back, so only the successful outcome is a step.  EndBlocker   *)
(* goes through the subscriptions one by one; an error in it is a panic    *)
(* that nothing rolls back, and the chain halts.                           *)
(*                                                                         *)
(* A definition whose comment begins with "Mutant" is a plausible mistake  *)
(* in the definition it precedes; the properties below tell them apart.    *)
(***************************************************************************)
EXTENDS Coins, Decimals, Sequences, Sums

CONSTANTS
  Account,
  TemplateId, ContractId,
  Subscriptions,       \* bound: subscription ids are 1 .. Subscriptions
  TemplateTerms,       \* bound: the templates that messages propose
  ContractTerms,       \* bound: the contracts that messages propose
  SubscriptionTerms,   \* bound: the subscriptions that messages propose
  DiscountId,          \* bound: the discount ids that messages grant
  BlockTimes,          \* bound: the time from one block to the next
  MaxClock,            \* bound: height and time stop here
  InitialFunds,        \* the coins of each account at the start
  Vesting, VestingEnd  \* of them, those that cannot be spent before some time

Template == [amount : CoinSet, minimum : CoinSet, maximum : CoinSet,
             discounts : Seq(Nat)]   \* percentages; the id is the position
Share == [account : Account, percentage : Nat]
Contract == [template : TemplateId, creator : Account, payer : Account,
             recipients : Seq(Share), canDeauthorise : BOOLEAN,
             authorised : BOOLEAN, discountId : Nat,
             cumulativePay : CoinSet, currentRemainder : CoinSet]
Period == [unit : {"block", "time"}, start : Nat, length : Nat]
Subscription == [contract : ContractId, periodsSoFar : Nat, maxPeriods : Nat,
                 periodsAccumulated : Nat, period : Period]

ASSUME PaymentAssumption ==
  /\ IsFiniteSet(Account)
  /\ IsFiniteSet(TemplateId) /\ IsFiniteSet(ContractId)
  /\ Subscriptions \in Nat /\ MaxClock \in Nat \ {0}
  /\ TemplateTerms \subseteq Template
  /\ \A t \in ContractTerms : t \in Contract
  /\ \A t \in SubscriptionTerms :
       /\ t \in Subscription
       \* the bound on the clock is beyond the last period
       /\ t.period.start + t.maxPeriods * t.period.length < MaxClock
  /\ DiscountId \subseteq Nat /\ BlockTimes \subseteq Nat \ {0}
  /\ InitialFunds \in [Account -> CoinSet]
  /\ Vesting \in [Account -> CoinSet] /\ VestingEnd \in Nat

VARIABLES
  templates, contracts, subscriptions,  \* the stores, by id
  funds,       \* coins of each account
  pool,        \* coins of the account PayRemainderPool
  height, time,  \* of the current block
  next,        \* EndBlocker's next subscription, 0 while transactions come
  halted,      \* a panic in EndBlocker has stopped the chain
  history      \* of each subscription: its first start and its payments

stores == <<templates, contracts, subscriptions>>
bank == <<funds, pool>>
clock == <<height, time>>
vars == <<stores, bank, clock, next, halted, history>>

-----------------------------------------------------------------------------
(***************************************************************************)
(* Templates and contracts                                                 *)
(***************************************************************************)
HundredPercent == ToDec(100)
Percentages(recipients) == [i \in DOMAIN recipients |-> recipients[i].percentage]

ValidTemplate(t) ==
  /\ \A d \in Denom :
       /\ t.maximum[d] # 0 => t.minimum[d] <= t.maximum[d]
       /\ t.minimum[d] # 0 \/ t.maximum[d] # 0 => t.amount[d] # 0
  /\ \A i \in DOMAIN t.discounts : t.discounts[i] \in 1 .. HundredPercent

ValidRecipients(recipients) ==
  /\ recipients # <<>>
  /\ \A i \in DOMAIN recipients : recipients[i].percentage > 0
  /\ SumOf(Percentages(recipients), DOMAIN recipients) = HundredPercent

TemplateOf(c) == templates[c.template]

\* Mutant of MaximumLeft: the maximum itself is still below the maximum.
MaximumLeftAtMaximum(c) ==
  \A d \in Denom : c.cumulativePay[d] # 0 => TemplateOf(c).maximum[d] >= c.cumulativePay[d]

\* max.IsAllGT(cumulative): every denomination that has been paid is below its
\* maximum, and one without a maximum is not.
MaximumLeft(c) ==
  \A d \in Denom : c.cumulativePay[d] # 0 => TemplateOf(c).maximum[d] > c.cumulativePay[d]

\* Mutant of CanEffectPayment: the authorisation is not looked at.
CanEffectUnauthorised(c) == TemplateOf(c).maximum = NoCoins \/ MaximumLeft(c)

CanEffectPayment(c) ==
  /\ c.authorised
  /\ TemplateOf(c).maximum = NoCoins \/ MaximumLeft(c)

-----------------------------------------------------------------------------
(***************************************************************************)
(* The amount of a payment                                                 *)
(***************************************************************************)
DiscountIdExists(template, id) == id \in DOMAIN template.discounts
DiscountKnown(c) == c.discountId = 0 \/ DiscountIdExists(TemplateOf(c), c.discountId)

\* Percentages become fractions, and a fraction of an amount of coins.
Fraction(percentage) == Quo(percentage, HundredPercent)
FractionOf(amount, percentage) == Mul(ToDec(amount), Fraction(percentage))

Discount(c) ==
  IF c.discountId = 0 THEN NoCoins
  ELSE [d \in Denom |-> TruncateInt(FractionOf(TemplateOf(c).amount[d],
                                       TemplateOf(c).discounts[c.discountId]))]

\* Mutant of AtLeastMinimum: there is no minimum.
AtLeastNothing(c, cumulative) == cumulative

\* adjustForMinimums: only the first payment is raised.
AtLeastMinimum(c, cumulative) ==
  [d \in Denom |->
     IF /\ c.cumulativePay = NoCoins /\ cumulative[d] # 0
        /\ TemplateOf(c).minimum[d] > cumulative[d]
     THEN TemplateOf(c).minimum[d] ELSE cumulative[d]]

\* Mutant of AtMostMaximum: there is no maximum.
AtMostAnything(c, cumulative) == cumulative

\* adjustForMaximums
AtMostMaximum(c, cumulative) ==
  [d \in Denom |->
     IF TemplateOf(c).maximum[d] # 0 /\ TemplateOf(c).maximum[d] < cumulative[d]
     THEN TemplateOf(c).maximum[d] ELSE cumulative[d]]

Discounted(c) == Sub(TemplateOf(c).amount, Discount(c))
AdjustedCumulative(c) ==
  AtMostMaximum(c, AtLeastMinimum(c, Add(c.cumulativePay, Discounted(c))))
Pay(c) == Sub(AdjustedCumulative(c), c.cumulativePay)

\* The errors and panics on the way to the amount.
PayDefined(c) ==
  /\ DiscountKnown(c) /\ Covers(TemplateOf(c).amount, Discount(c))
  /\ Covers(AdjustedCumulative(c), c.cumulativePay)

-----------------------------------------------------------------------------
(***************************************************************************)
(* The distribution of a payment                                           *)
(***************************************************************************)
\* The remainder of the last payment is distributed with this one.
TotalInput(c) == Add(Pay(c), c.currentRemainder)

\* Mutant of Output: the fraction of one coin is truncated, then multiplied.
OutputTruncatedFirst(c, i) ==
  [d \in Denom |-> TruncateInt(Fraction(c.recipients[i].percentage)) * TotalInput(c)[d]]

Output(c, i) ==
  [d \in Denom |-> TruncateInt(FractionOf(TotalInput(c)[d], c.recipients[i].percentage))]

OutputToPayees(c) ==
  [d \in Denom |-> SumOf([i \in DOMAIN c.recipients |-> Output(c, i)[d]],
                         DOMAIN c.recipients)]
OutputToAccount(c, a) ==
  [d \in Denom |-> SumOf([i \in DOMAIN c.recipients |-> Output(c, i)[d]],
                         {i \in DOMAIN c.recipients : c.recipients[i].account = a})]
OutputToPool(c) == Sub(TotalInput(c), OutputToPayees(c))

\* GetDistributionsFor panics unless the shares, as decimals, make up the whole.
ExactDistribution(c) ==
  \A d \in Denom :
    SumOf([i \in DOMAIN c.recipients |->
             FractionOf(TotalInput(c)[d], c.recipients[i].percentage)],
          DOMAIN c.recipients) = ToDec(TotalInput(c)[d])

\* The bank takes coins only from those that are not vesting any more.
Locked(a) == IF time < VestingEnd THEN Vesting[a] ELSE NoCoins
CanSpend(a, coins) ==
  \A d \in Denom : coins[d] # 0 => funds[a][d] >= Locked(a)[d] + coins[d]

\* What InputOutputCoins and the subtractions before it insist on.
CanTransfer(c) ==
  /\ ExactDistribution(c) /\ Covers(TotalInput(c), OutputToPayees(c))
  /\ Pay(c) # NoCoins /\ CanSpend(c.payer, Pay(c)) /\ Covers(pool, c.currentRemainder)

\* Coins that are still vesting count.
HasCoins(c) == Covers(funds[c.payer], Pay(c))

\* The three outcomes of EffectPayment.
NotEffected(c) == ~CanEffectPayment(c) \/ (PayDefined(c) /\ ~HasCoins(c))
Effected(c) == /\ CanEffectPayment(c) /\ PayDefined(c)
               /\ HasCoins(c) /\ CanTransfer(c)
Failed(c) == ~NotEffected(c) /\ ~Effected(c)

\* Mutant of RemainderAfter: the input from the pool is not taken off.
RemainderAddedUp(c) == Add(c.currentRemainder, OutputToPool(c))

RemainderAfter(c) == Sub(Add(c.currentRemainder, OutputToPool(c)), c.currentRemainder)

\* EffectPayment, when it succeeds.
FundsAfter(c) ==
  [a \in Account |->
     LET rest == IF a = c.payer THEN Sub(funds[a], Pay(c)) ELSE funds[a]
     IN  Add(rest, OutputToAccount(c, a))]
PoolAfter(c) == Add(Sub(pool, c.currentRemainder), OutputToPool(c))
ContractAfter(c) ==
  [c EXCEPT !.cumulativePay = Add(@, Pay(c)), !.currentRemainder = RemainderAfter(c)]

Transfer(id) ==
  LET c == contracts[id]
  IN  /\ funds' = FundsAfter(c) /\ pool' = PoolAfter(c)
      /\ contracts' = [contracts EXCEPT ![id] = ContractAfter(c)]

-----------------------------------------------------------------------------
(***************************************************************************)
(* Transactions                                                            *)
(***************************************************************************)
Init ==
  /\ templates = Empty /\ contracts = Empty /\ subscriptions = Empty
  /\ funds = InitialFunds /\ pool = NoCoins
  /\ height = 1 /\ time = 1 /\ next = 0 /\ halted = FALSE /\ history = Empty

DeliverTx == next = 0 /\ ~halted

CreatePaymentTemplate(id, terms) ==
  /\ DeliverTx /\ id \notin DOMAIN templates
  /\ ValidTemplate(terms)
  /\ templates' = Store(templates, id, terms)
  /\ UNCHANGED <<contracts, subscriptions, bank, clock, next, halted, history>>

\* The discount id is taken as it is.
CreatePaymentContract(id, terms) ==
  /\ DeliverTx /\ id \notin DOMAIN contracts
  /\ terms.template \in DOMAIN templates
  /\ ValidRecipients(terms.recipients)
  /\ contracts' = Store(contracts, id,
       [terms EXCEPT !.authorised = FALSE,
                     !.cumulativePay = NoCoins, !.currentRemainder = NoCoins])
  /\ UNCHANGED <<templates, subscriptions, bank, clock, next, halted, history>>

SetPaymentContractAuthorisation(sender, id, authorised) ==
  /\ DeliverTx /\ id \in DOMAIN contracts
  /\ sender = contracts[id].payer
  /\ authorised \/ contracts[id].canDeauthorise
  /\ contracts' = [contracts EXCEPT ![id].authorised = authorised]
  /\ UNCHANGED <<templates, subscriptions, bank, clock, next, halted, history>>

CreateSubscription(sender, id, terms) ==
  /\ DeliverTx /\ id \notin DOMAIN subscriptions
  /\ terms.contract \in DOMAIN contracts
  /\ sender = contracts[terms.contract].creator
  /\ terms.period.length > 0
  /\ subscriptions' = Store(subscriptions, id,
       [terms EXCEPT !.periodsSoFar = 0, !.periodsAccumulated = 0])
  /\ history' = Store(history, id, [start |-> terms.period.start, payments |-> 0])
  /\ UNCHANGED <<templates, contracts, bank, clock, next, halted>>

GrantDiscount(sender, id, discount) ==
  /\ DeliverTx /\ id \in DOMAIN contracts
  /\ sender = contracts[id].creator
  /\ DiscountIdExists(TemplateOf(contracts[id]), discount)
  /\ contracts' = [contracts EXCEPT ![id].discountId = discount]
  /\ UNCHANGED <<templates, subscriptions, bank, clock, next, halted, history>>

RevokeDiscount(sender, id) ==
  /\ DeliverTx /\ id \in DOMAIN contracts
  /\ sender = contracts[id].creator
  /\ contracts' = [contracts EXCEPT ![id].discountId = 0]
  /\ UNCHANGED <<templates, subscriptions, bank, clock, next, halted, history>>

\* A payment that is not effected is an error of the transaction.
EffectPayment(sender, id) ==
  /\ DeliverTx /\ id \in DOMAIN contracts
  /\ sender = contracts[id].creator
  /\ Effected(contracts[id])
  /\ Transfer(id)
  /\ UNCHANGED <<templates, subscriptions, clock, next, halted, history>>

-----------------------------------------------------------------------------
(***************************************************************************)
(* Subscriptions                                                           *)
(***************************************************************************)
Now(unit) == IF unit = "block" THEN height ELSE time
PeriodEnd(p) == p.start + p.length
PeriodStarted(p) == Now(p.unit) > p.start
PeriodEnded(p) == IF p.unit = "block" THEN height >= PeriodEnd(p) ELSE time > PeriodEnd(p)

Started(s) == s.periodsSoFar # 0 \/ PeriodStarted(s.period)
MaxPeriodsReached(s) == s.periodsSoFar >= s.maxPeriods

\* Mutant of ShouldEffect: accumulated periods are never dealt with.
ShouldEffectInTime(s) ==
  Started(s) /\ ~MaxPeriodsReached(s) /\ PeriodEnded(s.period)

\* Mutant of ShouldEffect: a complete subscription is still due.
ShouldEffectComplete(s) == Started(s) /\ (MaxPeriodsReached(s) \/ PeriodEnded(s.period))

\* Accumulated periods are only dealt with after the last period.
ShouldEffect(s) ==
  /\ Started(s)
  /\ IF MaxPeriodsReached(s) THEN s.periodsAccumulated # 0 ELSE PeriodEnded(s.period)

IsComplete(s) == MaxPeriodsReached(s) /\ s.periodsAccumulated = 0

\* Mutant of NextPeriod: the period stays where it is.
NextPeriodNotMoved(s, paid) ==
  [s EXCEPT !.periodsSoFar = @ + 1,
            !.periodsAccumulated = IF paid THEN @ ELSE @ + 1]

NextPeriod(s, paid) ==
  [s EXCEPT !.periodsSoFar = @ + 1,
            !.periodsAccumulated = IF paid THEN @ ELSE @ + 1,
            !.period.start = PeriodEnd(s.period)]

\* Mutant of AfterPayment: an accumulated period stays due when it is paid.
AfterPaymentStillDue(s, effected) ==
  IF MaxPeriodsReached(s) THEN s ELSE NextPeriod(s, effected)

AfterPayment(s, effected) ==
  IF ~MaxPeriodsReached(s) THEN NextPeriod(s, effected)
  ELSE IF effected THEN [s EXCEPT !.periodsAccumulated = @ - 1]
  ELSE s

-----------------------------------------------------------------------------
(***************************************************************************)
(* EndBlocker                                                              *)
(***************************************************************************)
Due(id) == id \in DOMAIN subscriptions /\ ShouldEffect(subscriptions[id])
ContractDue(id) == contracts[subscriptions[id].contract]

BeginEndBlock ==
  /\ DeliverTx
  /\ next' = 1
  /\ UNCHANGED <<stores, bank, clock, halted, history>>

EndBlockAt(id) == ~halted /\ next = id /\ id \in 1 .. Subscriptions

SkipSubscription(id) ==
  /\ EndBlockAt(id) /\ ~Due(id)
  /\ next' = id + 1
  /\ UNCHANGED <<stores, bank, clock, halted, history>>

EffectSubscriptionPayment(id) ==
  /\ EndBlockAt(id) /\ Due(id) /\ Effected(ContractDue(id))
  /\ Transfer(subscriptions[id].contract)
  /\ subscriptions' = [subscriptions EXCEPT ![id] = AfterPayment(@, TRUE)]
  /\ history' = [history EXCEPT ![id].payments = @ + 1]
  /\ next' = id + 1
  /\ UNCHANGED <<templates, clock, halted>>

MissSubscriptionPayment(id) ==
  /\ EndBlockAt(id) /\ Due(id) /\ NotEffected(ContractDue(id))
  /\ subscriptions' = [subscriptions EXCEPT ![id] = AfterPayment(@, FALSE)]
  /\ next' = id + 1
  /\ UNCHANGED <<templates, contracts, bank, clock, halted, history>>

Panic(id) ==
  /\ EndBlockAt(id) /\ Due(id) /\ Failed(ContractDue(id))
  /\ halted' = TRUE
  /\ UNCHANGED <<stores, bank, clock, next, history>>

\* The next block is one higher and some time later.
Advance(t, by) == IF t + by > MaxClock THEN MaxClock ELSE t + by
NextBlock(later) ==
  /\ ~halted /\ next = Subscriptions + 1
  /\ height' = Advance(height, 1) /\ time' = Advance(time, later)
  /\ next' = 0
  /\ UNCHANGED <<stores, bank, halted, history>>

Transaction ==
  \/ \E id \in TemplateId, t \in TemplateTerms : CreatePaymentTemplate(id, t)
  \/ \E id \in ContractId, t \in ContractTerms : CreatePaymentContract(id, t)
  \/ \E a \in Account, id \in ContractId, b \in BOOLEAN :
       SetPaymentContractAuthorisation(a, id, b)
  \/ \E a \in Account, id \in 1 .. Subscriptions, t \in SubscriptionTerms :
       CreateSubscription(a, id, t)
  \/ \E a \in Account, id \in ContractId, i \in DiscountId : GrantDiscount(a, id, i)
  \/ \E a \in Account, id \in ContractId : RevokeDiscount(a, id)
  \/ \E a \in Account, id \in ContractId : EffectPayment(a, id)

EndBlocker ==
  \/ BeginEndBlock
  \/ \E id \in 1 .. Subscriptions :
       \/ SkipSubscription(id) \/ EffectSubscriptionPayment(id)
       \/ MissSubscriptionPayment(id) \/ Panic(id)
  \/ \E later \in BlockTimes : NextBlock(later)

Next == Transaction \/ EndBlocker

Spec == Init /\ [][Next]_vars

\* Blocks keep coming, and EndBlocker runs to its end in every one of them.
FairSpec == Spec /\ WF_vars(EndBlocker)

-----------------------------------------------------------------------------
(***************************************************************************)
(* Properties                                                              *)
(***************************************************************************)
\* Every variable has its type: the records of types/payments.go and
\* types/subscriptions.go, with amounts and counts that are never negative.
TypeOK ==
  /\ DOMAIN templates \subseteq TemplateId
  /\ DOMAIN contracts \subseteq ContractId
  /\ DOMAIN subscriptions \subseteq 1 .. Subscriptions
  /\ DOMAIN history = DOMAIN subscriptions
  /\ templates \in [DOMAIN templates -> Template]
  /\ contracts \in [DOMAIN contracts -> Contract]
  /\ subscriptions \in [DOMAIN subscriptions -> Subscription]
  /\ history \in [DOMAIN history -> [start : Nat, payments : Nat]]
  /\ funds \in [Account -> CoinSet] /\ pool \in CoinSet
  /\ height \in 1 .. MaxClock /\ time \in 1 .. MaxClock
  /\ next \in 0 .. (Subscriptions + 1) /\ halted \in BOOLEAN

\* Contracts are made from templates there are, subscriptions from contracts.
StoresAgree ==
  /\ \A id \in DOMAIN contracts : contracts[id].template \in DOMAIN templates
  /\ \A id \in DOMAIN subscriptions : subscriptions[id].contract \in DOMAIN contracts

Remainders(d) == [id \in DOMAIN contracts |-> contracts[id].currentRemainder[d]]

\* The account PayRemainderPool, shared by all contracts, holds exactly what
\* the contracts say is left over from their last payments.
PoolIsRemainders ==
  \A d \in Denom : pool[d] = SumOf(Remainders(d), DOMAIN contracts)

\* Rounding leaves less than one coin per recipient for the next payment.
RemainderIsSmall ==
  \A id \in DOMAIN contracts, d \in Denom :
    contracts[id].currentRemainder[d] < Len(contracts[id].recipients)
      \/ contracts[id].currentRemainder[d] = 0

\* Payments move coins between accounts and the pool, and make and lose none.
CoinsConserved ==
  \A d \in Denom :
    SumOf([a \in Account |-> funds[a][d]], Account) + pool[d]
      = SumOf([a \in Account |-> InitialFunds[a][d]], Account)

\* No coin is lost between accounts and pool, in whatever order contracts are
\* effected, and what waits in the pool does not grow from payment to payment.
CoinsAccounted == RemainderIsSmall /\ CoinsConserved

\* However often a contract is effected, by whichever subscriptions and
\* transactions, nobody pays more than the maximum of the template.
MaximumKept ==
  \A id \in DOMAIN contracts, d \in Denom :
    LET maximum == TemplateOf(contracts[id]).maximum[d]
    IN  maximum # 0 => contracts[id].cumulativePay[d] <= maximum

\* Every period that has passed was paid once or is still due, so a
\* subscription never takes more payments than it has periods.
PeriodsAccounted ==
  \A id \in DOMAIN subscriptions :
    LET s == subscriptions[id]
    IN  /\ s.periodsAccumulated <= s.periodsSoFar
        /\ s.periodsSoFar <= s.maxPeriods
        /\ history[id].payments = s.periodsSoFar - s.periodsAccumulated

\* No period is paid, or counted as due, before it has ended.
NoPeriodBeforeItsEnd ==
  \A id \in DOMAIN subscriptions :
    LET s == subscriptions[id]
        end == history[id].start + s.periodsSoFar * s.period.length
    IN  s.periodsSoFar # 0 =>
          IF s.period.unit = "block" THEN height >= end ELSE time > end

\* What makes EndBlocker fail can be read off the terms of the contract: a
\* discount id that its template does not have, nothing to pay, or shares that
\* are no longer 100% as decimal fractions.  Neither the pool nor a maximum that
\* has been reached can do it, and a payer only with coins that it has and that
\* are still vesting.
BadTerms(c) ==
  \/ ~DiscountKnown(c)
  \/ Discounted(c) = NoCoins
  \/ SumOf([i \in DOMAIN c.recipients |-> Fraction(c.recipients[i].percentage)],
           DOMAIN c.recipients) # Unit
StillVesting(c) == HasCoins(c) /\ ~CanSpend(c.payer, Pay(c))
HaltsOnlyOnBadTerms ==
  halted => BadTerms(ContractDue(next)) \/ StillVesting(ContractDue(next))

\* Coins leave an account only by a contract that the account has authorised as
\* its payer, and the contract records all of it as paid.
OnlyAuthorisedPayments ==
  [][\A a \in Account, d \in Denom : funds'[a][d] < funds[a][d] =>
       \E id \in DOMAIN contracts :
         /\ contracts[id].payer = a /\ contracts[id].authorised
         /\ funds[a][d] - funds'[a][d]
              <= contracts'[id].cumulativePay[d] - contracts[id].cumulativePay[d]]_vars

\* A contract seen from outside: the limits come from its template, and the
\* recipients have what was paid but for the remainder.
AgreementOf(c) ==
  [payer |-> c.payer, shares |-> Len(c.recipients), revocable |-> c.canDeauthorise,
   minimum |-> TemplateOf(c).minimum, maximum |-> TemplateOf(c).maximum,
   authorised |-> c.authorised, paid |-> c.cumulativePay,
   received |-> Sub(c.cumulativePay, c.currentRemainder)]
AllAgreements == [id \in DOMAIN contracts |-> AgreementOf(contracts[id])]

Agreements == INSTANCE Agreement WITH Id <- ContractId, agreements <- AllAgreements

\* Whatever transactions and EndBlocker do, in whatever order, is to each
\* contract a step of its agreement: with the payer's authorisation, between
\* minimum and maximum, and never taken back from the recipients
\* (keeper/payments.go, EffectPayment).
ImplementsAgreement == Agreements!Spec

Completed(id) == id \in DOMAIN subscriptions /\ IsComplete(subscriptions[id])
Payable(id) ==
  /\ id \in DOMAIN subscriptions
  /\ LET c == ContractDue(id)
     IN  CanEffectPayment(c) /\ PayDefined(c) /\ HasCoins(c)

\* A subscription whose payments can be made from some time on runs to its end,
\* the periods it has missed before included, unless EndBlocker halts the chain.
SubscriptionsComplete ==
  \A id \in 1 .. Subscriptions :
    <>[](Completed(id) \/ Payable(id)) => <>(halted \/ Completed(id))

=============================================================================
