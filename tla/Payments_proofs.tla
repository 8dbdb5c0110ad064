--------------------------- MODULE Payments_proofs ---------------------------
(***************************************************************************)
(* Proofs about Payments: for every set of accounts, denominations, terms  *)
(* and block times, the pool holds what the contracts say it holds, no     *)
(* payer exceeds a maximum, and every period is accounted for.             *)
(***************************************************************************)
EXTENDS Payments, Amounts_proofs

\* The current period of a subscription follows from its first start.
PeriodsInPlace ==
  \A id \in DOMAIN subscriptions :
    LET s == subscriptions[id]
    IN  s.period.start = history[id].start + s.periodsSoFar * s.period.length

\* The inductive invariant.  Coins have a type only if the pool covers every
\* remainder (PoolIsRemainders); what a period's end means for the periods
\* before it takes PeriodsInPlace; and the maximum of a contract is the same
\* for ever only because contracts and templates agree (StoresAgree).
PaymentsInv ==
  /\ TypeOK /\ StoresAgree
  /\ PoolIsRemainders /\ MaximumKept
  /\ PeriodsAccounted /\ PeriodsInPlace /\ NoPeriodBeforeItsEnd

-----------------------------------------------------------------------------
(***************************************************************************)
(* Coins and stores                                                        *)
(***************************************************************************)
LEMMA CoinTypes ==
  ASSUME NEW u \in CoinSet, NEW v \in CoinSet
  PROVE  /\ NoCoins \in CoinSet /\ Add(u, v) \in CoinSet
         /\ Covers(u, v) => Sub(u, v) \in CoinSet
         /\ \A d \in Denom : u[d] \in Nat /\ v[d] \in Nat
<1>1. \A d \in Denom : u[d] \in Nat /\ v[d] \in Nat
  BY DEF CoinSet
<1>2. NoCoins \in CoinSet
  BY DEF NoCoins, CoinSet
<1>3. Add(u, v) \in CoinSet
  BY <1>1 DEF Add, CoinSet
<1>4. ASSUME Covers(u, v) PROVE Sub(u, v) \in CoinSet
  <2>1. \A d \in Denom : u[d] - v[d] \in Nat
    BY <1>1, <1>4 DEF Covers
  <2> QED
    BY <2>1 DEF Sub, CoinSet
<1> QED
  BY <1>1, <1>2, <1>3, <1>4

\* A store keeps its other records and its type.
LEMMA StoreFacts ==
  ASSUME NEW store, NEW id, NEW value
  PROVE  /\ DOMAIN Store(store, id, value) = DOMAIN store \cup {id}
         /\ Store(store, id, value)[id] = value
         /\ \A i \in DOMAIN store : i # id => Store(store, id, value)[i] = store[i]
BY DEF Store

LEMMA StoreType ==
  ASSUME NEW T, NEW store, store \in [DOMAIN store -> T], NEW id, NEW value \in T
  PROVE  Store(store, id, value) \in [DOMAIN store \cup {id} -> T]
BY DEF Store

LEMMA HundredPositive == HundredPercent \in Nat \ {0}
<1>1. \A u \in Nat \ {0} : 100 * u \in Nat \ {0}
  BY SMT
<1> QED
  BY <1>1, UnitAssumption DEF HundredPercent, ToDec

\* A fraction of an amount is a number of smallest units.
LEMMA FractionType ==
  ASSUME NEW n \in Nat, NEW percentage \in Nat
  PROVE  /\ FractionOf(n, percentage) \in Nat
         /\ TruncateInt(FractionOf(n, percentage)) \in Nat
<1>1. Fraction(percentage) \in Nat
  BY HundredPositive, QuoType DEF Fraction
<1>2. FractionOf(n, percentage) \in Nat
  BY <1>1, ToDecType, MulType DEF FractionOf
<1> QED
  BY <1>2, CeilType

-----------------------------------------------------------------------------
(***************************************************************************)
(* The amount of a payment                                                 *)
(***************************************************************************)
\* A discount is a number of coins.
LEMMA DiscountType ==
  ASSUME NEW c \in Contract, TemplateOf(c) \in Template, PayDefined(c)
  PROVE  Discount(c) \in CoinSet
<1> DEFINE t == TemplateOf(c)
<1>0. t.amount \in CoinSet /\ t.discounts \in Seq(Nat)
  BY DEF Template
<1>1. CASE c.discountId = 0
  BY <1>1, <1>0, CoinTypes DEF Discount
<1>2. CASE c.discountId # 0
  <2>1. c.discountId \in DOMAIN t.discounts
    BY <1>2 DEF PayDefined, DiscountKnown, DiscountIdExists
  <2>2. t.discounts[c.discountId] \in Nat
    BY <2>1, <1>0
  <2>3. \A d \in Denom : t.amount[d] \in Nat
    BY <1>0 DEF CoinSet
  <2>4. \A d \in Denom :
          TruncateInt(FractionOf(t.amount[d], t.discounts[c.discountId])) \in Nat
    BY <2>2, <2>3, FractionType
  <2> QED
    BY <1>2, <2>4 DEF Discount, CoinSet
<1> QED
  BY <1>1, <1>2

\* The payment is a number of coins, takes the cumulative pay to the adjusted
\* one, and that is within the maximum.
LEMMA PayFacts ==
  ASSUME NEW c \in Contract, TemplateOf(c) \in Template, PayDefined(c)
  PROVE  /\ Pay(c) \in CoinSet /\ AdjustedCumulative(c) \in CoinSet
         /\ Add(c.cumulativePay, Pay(c)) = AdjustedCumulative(c)
         /\ \A d \in Denom : TemplateOf(c).maximum[d] # 0 =>
              AdjustedCumulative(c)[d] <= TemplateOf(c).maximum[d]
<1> DEFINE t == TemplateOf(c)
<1>1. /\ t.amount \in CoinSet /\ t.minimum \in CoinSet /\ t.maximum \in CoinSet
      /\ t.discounts \in Seq(Nat)
  BY DEF Template
<1>2. c.cumulativePay \in CoinSet
  BY DEF Contract
<1>3. Discount(c) \in CoinSet
  BY DiscountType
<1>4. Add(c.cumulativePay, Discounted(c)) \in CoinSet
  <2>1. Covers(t.amount, Discount(c))
    BY DEF PayDefined
  <2>2. Discounted(c) \in CoinSet
    BY <2>1, <1>1, <1>3, CoinTypes DEF Discounted
  <2> QED
    BY <2>2, <1>2, CoinTypes
<1>5. AtLeastMinimum(c, Add(c.cumulativePay, Discounted(c))) \in CoinSet
  BY <1>1, <1>4 DEF AtLeastMinimum, CoinSet
<1>6. AdjustedCumulative(c) \in CoinSet
  BY <1>1, <1>5 DEF AdjustedCumulative, AtMostMaximum, CoinSet
<1>7. Covers(AdjustedCumulative(c), c.cumulativePay)
  BY DEF PayDefined
<1>8. Pay(c) \in CoinSet
  BY <1>2, <1>6, <1>7, CoinTypes DEF Pay
<1>9. Add(c.cumulativePay, Pay(c)) = AdjustedCumulative(c)
  <2>1. \A d \in Denom : /\ c.cumulativePay[d] \in Nat
                         /\ AdjustedCumulative(c)[d] \in Nat
    BY <1>2, <1>6 DEF CoinSet
  <2>2. \A d \in Denom : c.cumulativePay[d] + Pay(c)[d] = AdjustedCumulative(c)[d]
    BY <2>1 DEF Pay, Sub
  <2>3. AdjustedCumulative(c) = [d \in Denom |-> AdjustedCumulative(c)[d]]
    BY <1>6 DEF CoinSet
  <2> QED
    BY <2>2, <2>3 DEF Add
<1>10. \A d \in Denom : t.maximum[d] # 0 => AdjustedCumulative(c)[d] <= t.maximum[d]
  <2> DEFINE cumulative == AtLeastMinimum(c, Add(c.cumulativePay, Discounted(c)))
  <2>1. \A d \in Denom : t.maximum[d] \in Nat /\ cumulative[d] \in Nat
    BY <1>1, <1>5 DEF CoinSet
  <2> HIDE DEF cumulative
  <2>2. \A d \in Denom : AtMostMaximum(c, cumulative)[d] =
          IF t.maximum[d] # 0 /\ t.maximum[d] < cumulative[d]
          THEN t.maximum[d] ELSE cumulative[d]
    BY DEF AtMostMaximum
  <2>3. AdjustedCumulative(c) = AtMostMaximum(c, cumulative)
    BY DEF AdjustedCumulative, cumulative
  <2> QED
    BY <2>1, <2>2, <2>3
<1> QED
  BY <1>6, <1>8, <1>9, <1>10

LEMMA OutputType ==
  ASSUME NEW c \in Contract, TemplateOf(c) \in Template,
         PayDefined(c), NEW i \in DOMAIN c.recipients, NEW d \in Denom
  PROVE  Output(c, i)[d] \in Nat
<1>1. c.currentRemainder \in CoinSet /\ c.recipients \in Seq(Share)
  BY DEF Contract
<1>2. TotalInput(c) \in CoinSet
  BY <1>1, PayFacts, CoinTypes DEF TotalInput
<1>3. c.recipients[i].percentage \in Nat
  <2>1. c.recipients[i] \in Share
    BY <1>1
  <2> QED
    BY <2>1 DEF Share
<1>4. TotalInput(c)[d] \in Nat
  BY <1>2 DEF CoinSet
<1> QED
  BY <1>3, <1>4, FractionType DEF Output

\* What is paid out and what is left over are numbers of coins.
LEMMA OutputFacts ==
  ASSUME NEW c \in Contract, TemplateOf(c) \in Template,
         PayDefined(c), CanTransfer(c)
  PROVE  /\ TotalInput(c) \in CoinSet /\ OutputToPayees(c) \in CoinSet
         /\ OutputToPool(c) \in CoinSet /\ RemainderAfter(c) = OutputToPool(c)
         /\ \A a : OutputToAccount(c, a) \in CoinSet
<1>1. c.currentRemainder \in CoinSet /\ c.recipients \in Seq(Share)
  BY DEF Contract
<1>2. TotalInput(c) \in CoinSet
  BY <1>1, PayFacts, CoinTypes DEF TotalInput
<1>3. \A i \in DOMAIN c.recipients, d \in Denom : Output(c, i)[d] \in Nat
  BY OutputType
<1>4. \A S \in SUBSET DOMAIN c.recipients, d \in Denom :
        SumOf([i \in DOMAIN c.recipients |-> Output(c, i)[d]], S) \in Nat
  <2> SUFFICES ASSUME NEW S \in SUBSET DOMAIN c.recipients, NEW d \in Denom
               PROVE  SumOf([i \in DOMAIN c.recipients |-> Output(c, i)[d]], S) \in Nat
    OBVIOUS
  <2>1. DOMAIN c.recipients = 1 .. Len(c.recipients) /\ Len(c.recipients) \in Nat
    BY <1>1
  <2>2. IsFiniteSet(1 .. Len(c.recipients))
    BY <2>1, FS_Interval, SMT
  <2>3. IsFiniteSet(DOMAIN c.recipients)
    BY <2>1, <2>2
  <2>4. IsFiniteSet(S)
    BY <2>3, FS_Subset
  <2>5. \A i \in S : [j \in DOMAIN c.recipients |-> Output(c, j)[d]][i] \in Nat
    BY <1>3
  <2> QED
    BY <2>4, <2>5, SumType
<1>5. OutputToPayees(c) \in CoinSet
  BY <1>4 DEF OutputToPayees, CoinSet
<1>6. \A a : OutputToAccount(c, a) \in CoinSet
  <2> SUFFICES ASSUME NEW a PROVE OutputToAccount(c, a) \in CoinSet
    OBVIOUS
  <2> DEFINE S == {i \in DOMAIN c.recipients : c.recipients[i].account = a}
  <2>1. S \in SUBSET DOMAIN c.recipients
    OBVIOUS
  <2>2. \A d \in Denom :
          SumOf([i \in DOMAIN c.recipients |-> Output(c, i)[d]], S) \in Nat
    BY <1>4, <2>1
  <2> QED
    BY <2>2 DEF OutputToAccount, CoinSet
<1>7. OutputToPool(c) \in CoinSet
  BY <1>2, <1>5, CoinTypes DEF OutputToPool, CanTransfer
<1>8. RemainderAfter(c) = OutputToPool(c)
  <2>1. \A d \in Denom : c.currentRemainder[d] \in Nat /\ OutputToPool(c)[d] \in Nat
    BY <1>1, <1>7 DEF CoinSet
  <2>2. \A d \in Denom : RemainderAfter(c)[d] = OutputToPool(c)[d]
    BY <2>1 DEF RemainderAfter, Add, Sub
  <2>3. OutputToPool(c) = [d \in Denom |-> OutputToPool(c)[d]]
    BY <1>7 DEF CoinSet
  <2>4. RemainderAfter(c) = [d \in Denom |-> RemainderAfter(c)[d]]
    BY DEF RemainderAfter, Sub
  <2> QED
    BY <2>2, <2>3, <2>4
<1> QED
  BY <1>2, <1>5, <1>6, <1>7, <1>8

-----------------------------------------------------------------------------
(***************************************************************************)
(* Steps that touch contracts                                              *)
(***************************************************************************)
LEMMA ContractFacts ==
  ASSUME TypeOK, StoresAgree, NEW id \in DOMAIN contracts
  PROVE  /\ contracts[id] \in Contract
         /\ TemplateOf(contracts[id]) \in Template
         /\ contracts[id].cumulativePay \in CoinSet
         /\ contracts[id].currentRemainder \in CoinSet
<1>1. contracts[id] \in Contract
  BY DEF TypeOK
<1>2. contracts[id].template \in DOMAIN templates
  BY DEF StoresAgree
<1>3. TemplateOf(contracts[id]) \in Template
  BY <1>2 DEF TypeOK, TemplateOf
<1> QED
  BY <1>1, <1>3 DEF Contract

LEMMA ContractsFinite ==
  ASSUME TypeOK PROVE IsFiniteSet(DOMAIN contracts)
<1>1. IsFiniteSet(ContractId)
  BY PaymentAssumption
<1> QED
  BY <1>1, FS_Subset DEF TypeOK

\* A step that adds templates at most and leaves what contracts have paid and
\* have left over alone keeps what is said of pool and maximum.
LEMMA PaidKept ==
  ASSUME StoresAgree, PoolIsRemainders, MaximumKept,
         \A i \in DOMAIN templates :
           i \in DOMAIN templates' /\ templates'[i] = templates[i],
         DOMAIN contracts' = DOMAIN contracts,
         \A i \in DOMAIN contracts :
           /\ contracts'[i].template = contracts[i].template
           /\ contracts'[i].cumulativePay = contracts[i].cumulativePay
           /\ contracts'[i].currentRemainder = contracts[i].currentRemainder,
         pool' = pool
  PROVE  /\ PoolIsRemainders' /\ MaximumKept'
         /\ \A i \in DOMAIN contracts' : contracts'[i].template \in DOMAIN templates'
<1>1. \A d \in Denom : Remainders(d)' = Remainders(d)
  BY DEF Remainders
<1>2. PoolIsRemainders'
  BY <1>1 DEF PoolIsRemainders
<1>3. \A i \in DOMAIN contracts : contracts[i].template \in DOMAIN templates
  BY DEF StoresAgree
<1>4. \A i \in DOMAIN contracts : TemplateOf(contracts[i])' = TemplateOf(contracts[i])
  BY <1>3 DEF TemplateOf
<1>5. MaximumKept'
  BY <1>4 DEF MaximumKept
<1> QED
  BY <1>2, <1>3, <1>5

\* A payment changes one contract, and pool and contract by the same amount.
LEMMA TransferFacts ==
  ASSUME TypeOK, StoresAgree, PoolIsRemainders, MaximumKept,
         NEW id \in DOMAIN contracts,
         Effected(contracts[id]), Transfer(id), templates' = templates
  PROVE  /\ DOMAIN contracts' = DOMAIN contracts
         /\ contracts' \in [DOMAIN contracts -> Contract]
         /\ \A i \in DOMAIN contracts : contracts'[i].template = contracts[i].template
         /\ funds' \in [Account -> CoinSet] /\ pool' \in CoinSet
         /\ PoolIsRemainders' /\ MaximumKept'
<1> DEFINE c == contracts[id]
<1>1. /\ c \in Contract /\ TemplateOf(c) \in Template
      /\ c.cumulativePay \in CoinSet /\ c.currentRemainder \in CoinSet
  BY ContractFacts
<1>2. PayDefined(c) /\ HasCoins(c) /\ CanTransfer(c)
  BY DEF Effected
<1>3. /\ Pay(c) \in CoinSet /\ AdjustedCumulative(c) \in CoinSet
      /\ Add(c.cumulativePay, Pay(c)) = AdjustedCumulative(c)
      /\ \A d \in Denom : TemplateOf(c).maximum[d] # 0 =>
           AdjustedCumulative(c)[d] <= TemplateOf(c).maximum[d]
  BY <1>1, <1>2, PayFacts
<1>4. /\ OutputToPool(c) \in CoinSet /\ RemainderAfter(c) = OutputToPool(c)
      /\ \A a : OutputToAccount(c, a) \in CoinSet
  BY <1>1, <1>2, OutputFacts
<1>5. contracts' = [contracts EXCEPT ![id] =
        [c EXCEPT !.cumulativePay = AdjustedCumulative(c),
                  !.currentRemainder = OutputToPool(c)]]
  <2>1. contracts' = [contracts EXCEPT ![id] = ContractAfter(c)]
    BY DEF Transfer
  <2>2. ContractAfter(c) = [c EXCEPT !.cumulativePay = AdjustedCumulative(c),
                                     !.currentRemainder = OutputToPool(c)]
    BY <1>1, <1>3, <1>4 DEF ContractAfter, Contract
  <2> QED
    BY <2>1, <2>2
<1>6. DOMAIN contracts' = DOMAIN contracts
  BY <1>5
<1>7. /\ contracts'[id].cumulativePay = AdjustedCumulative(c)
      /\ contracts'[id].currentRemainder = OutputToPool(c)
      /\ contracts'[id].template = c.template
      /\ contracts'[id] \in Contract
  BY <1>1, <1>3, <1>4, <1>5 DEF Contract
<1>8. \A i \in DOMAIN contracts : i # id => contracts'[i] = contracts[i]
  BY <1>5
<1>9. contracts' \in [DOMAIN contracts -> Contract]
  BY <1>5, <1>7, <1>8 DEF TypeOK
<1>10. funds' \in [Account -> CoinSet]
  <2> DEFINE rest(a) == IF a = c.payer THEN Sub(funds[a], Pay(c)) ELSE funds[a]
  <2>1. funds' = [a \in Account |-> Add(rest(a), OutputToAccount(c, a))]
    BY DEF Transfer, FundsAfter
  <2>2. ASSUME NEW a \in Account PROVE rest(a) \in CoinSet
    <3>1. funds[a] \in CoinSet
      BY DEF TypeOK
    <3>2. CASE a = c.payer
      <4>1. Covers(funds[a], Pay(c))
        BY <3>2, <1>2 DEF HasCoins
      <4>2. Sub(funds[a], Pay(c)) \in CoinSet
        BY <3>1, <4>1, <1>3, CoinTypes
      <4> QED
        BY <3>2, <4>2
    <3> QED
      BY <3>1, <3>2
  <2> HIDE DEF rest
  <2>3. \A a \in Account : Add(rest(a), OutputToAccount(c, a)) \in CoinSet
    BY <2>2, <1>4, CoinTypes
  <2> QED
    BY <2>1, <2>3
<1>11. pool' = Add(Sub(pool, c.currentRemainder), OutputToPool(c))
  BY DEF Transfer, PoolAfter
<1>12. pool' \in CoinSet
  <2>1. Covers(pool, c.currentRemainder) /\ pool \in CoinSet
    BY <1>2 DEF CanTransfer, TypeOK
  <2>2. Sub(pool, c.currentRemainder) \in CoinSet
    BY <2>1, <1>1, CoinTypes
  <2> QED
    BY <2>2, <1>4, <1>11, CoinTypes
<1>13. PoolIsRemainders'
  <2> SUFFICES ASSUME NEW d \in Denom
               PROVE  pool'[d] = SumOf(Remainders(d)', DOMAIN contracts)
    BY <1>6 DEF PoolIsRemainders
  <2>1. \A i \in DOMAIN contracts : contracts[i].currentRemainder[d] \in Nat
    BY ContractFacts DEF CoinSet
  <2>2. \A i \in DOMAIN contracts : contracts'[i].currentRemainder[d] \in Nat
    BY <2>1, <1>4, <1>7, <1>8 DEF CoinSet
  <2> DEFINE f == Remainders(d)
             g == [i \in DOMAIN contracts |-> contracts'[i].currentRemainder[d]]
  <2>3. Remainders(d)' = g
    BY <1>6 DEF Remainders
  <2>4. \A i \in DOMAIN contracts : f[i] \in Nat /\ g[i] \in Nat
    BY <2>1, <2>2 DEF Remainders
  <2>5. \A i \in DOMAIN contracts \ {id} : g[i] = f[i]
    BY <1>8 DEF Remainders
  <2>6. f[id] = c.currentRemainder[d] /\ g[id] = OutputToPool(c)[d]
    BY <1>7 DEF Remainders
  <2>7. IsFiniteSet(DOMAIN contracts)
    BY ContractsFinite
  <2> HIDE DEF f, g
  <2>8. SumOf(g, DOMAIN contracts) = (SumOf(f, DOMAIN contracts) - f[id]) + g[id]
    <3>1. SumOf(g, DOMAIN contracts) = SumOf(f, DOMAIN contracts) - f[id] + g[id]
      BY <2>4, <2>5, <2>7, SumUpdate
    <3>2. SumOf(f, DOMAIN contracts) \in Nat
      BY <2>4, <2>7, SumType
    <3> QED
      BY <3>1, <3>2, <2>4
  <2>9. pool[d] = SumOf(f, DOMAIN contracts)
    BY DEF PoolIsRemainders, f
  <2>10. pool'[d] = (pool[d] - c.currentRemainder[d]) + OutputToPool(c)[d]
    BY <1>11 DEF Add, Sub
  <2> QED
    BY <2>3, <2>6, <2>8, <2>9, <2>10
<1>14. MaximumKept'
  <2>1. \A i \in DOMAIN contracts : TemplateOf(contracts[i])' = TemplateOf(contracts[i])
    BY <1>7, <1>8 DEF TemplateOf
  <2>2. ASSUME NEW i \in DOMAIN contracts, NEW d \in Denom,
               TemplateOf(contracts[i]).maximum[d] # 0
        PROVE  contracts'[i].cumulativePay[d] <= TemplateOf(contracts[i]).maximum[d]
    <3>1. CASE i = id
      BY <2>2, <3>1, <1>3, <1>7
    <3>2. CASE i # id
      BY <2>2, <3>2, <1>8 DEF MaximumKept
    <3> QED
      BY <3>1, <3>2
  <2> QED
    BY <2>1, <2>2, <1>6 DEF MaximumKept
<1> QED
  BY <1>6, <1>7, <1>8, <1>9, <1>10, <1>12, <1>13, <1>14

-----------------------------------------------------------------------------
(***************************************************************************)
(* Steps that touch subscriptions                                          *)
(***************************************************************************)
\* What the three invariants about periods say of one subscription.
InOrder(s, h) ==
  /\ s.periodsAccumulated <= s.periodsSoFar /\ s.periodsSoFar <= s.maxPeriods
  /\ h.payments = s.periodsSoFar - s.periodsAccumulated
  /\ s.period.start = h.start + s.periodsSoFar * s.period.length
  /\ s.periodsSoFar # 0 =>
       IF s.period.unit = "block" THEN height >= s.period.start ELSE time > s.period.start

LEMMA PeriodsInOrder ==
  (\A id \in DOMAIN subscriptions : InOrder(subscriptions[id], history[id]))
    <=> PeriodsAccounted /\ PeriodsInPlace /\ NoPeriodBeforeItsEnd
BY DEF InOrder, PeriodsAccounted, PeriodsInPlace, NoPeriodBeforeItsEnd

LEMMA SubscriptionFields ==
  ASSUME NEW s \in Subscription
  PROVE  /\ s.periodsSoFar \in Nat /\ s.maxPeriods \in Nat /\ s.periodsAccumulated \in Nat
         /\ s.contract \in ContractId
         /\ s.period \in Period /\ s.period.start \in Nat /\ s.period.length \in Nat
         /\ s.period.unit \in {"block", "time"}
BY DEF Subscription, Period

\* The fields of a subscription that has moved to its next period.
LEMMA NextPeriodFields ==
  ASSUME NEW s \in Subscription, NEW paid \in BOOLEAN
  PROVE  LET n == NextPeriod(s, paid)
         IN  /\ n \in Subscription
             /\ n.contract = s.contract
             /\ n.periodsSoFar = s.periodsSoFar + 1 /\ n.maxPeriods = s.maxPeriods
             /\ n.periodsAccumulated
                  = IF paid THEN s.periodsAccumulated ELSE s.periodsAccumulated + 1
             /\ n.period = [s.period EXCEPT !.start = PeriodEnd(s.period)]
<1> DEFINE accumulated == IF paid THEN s.periodsAccumulated ELSE s.periodsAccumulated + 1
           period == [s.period EXCEPT !.start = PeriodEnd(s.period)]
<1>1. s.period \in Period /\ s.period.start \in Nat /\ s.period.length \in Nat
  BY SubscriptionFields
<1>2. PeriodEnd(s.period) \in Nat
  BY <1>1 DEF PeriodEnd
<1>3. period \in Period
  BY <1>1, <1>2 DEF Period
<1>4. accumulated \in Nat /\ s.periodsSoFar + 1 \in Nat
  BY SubscriptionFields
<1>5. NextPeriod(s, paid) = [s EXCEPT !.periodsSoFar = s.periodsSoFar + 1,
                                      !.periodsAccumulated = accumulated,
                                      !.period = period]
  BY DEF NextPeriod, Subscription
<1> HIDE DEF accumulated, period
<1>6. /\ NextPeriod(s, paid) \in Subscription
      /\ NextPeriod(s, paid).contract = s.contract
      /\ NextPeriod(s, paid).periodsSoFar = s.periodsSoFar + 1
      /\ NextPeriod(s, paid).maxPeriods = s.maxPeriods
      /\ NextPeriod(s, paid).periodsAccumulated = accumulated
      /\ NextPeriod(s, paid).period = period
  BY <1>3, <1>4, <1>5 DEF Subscription
<1> QED
  BY <1>6 DEF accumulated, period

\* A subscription that is due is in order after the payment too, whether the
\* payment was effected or not.
LEMMA AfterPaymentInOrder ==
  ASSUME TypeOK, NEW s \in Subscription, NEW h \in [start : Nat, payments : Nat],
         InOrder(s, h), ShouldEffect(s), NEW effected \in BOOLEAN,
         NEW p \in [start : Nat, payments : Nat], p.start = h.start,
         p.payments = IF effected THEN h.payments + 1 ELSE h.payments
  PROVE  /\ AfterPayment(s, effected) \in Subscription
         /\ AfterPayment(s, effected).contract = s.contract
         /\ InOrder(AfterPayment(s, effected), p)
<1> DEFINE n == AfterPayment(s, effected)
<1>1. /\ s.periodsSoFar \in Nat /\ s.maxPeriods \in Nat /\ s.periodsAccumulated \in Nat
      /\ s.period \in Period /\ s.period.start \in Nat /\ s.period.length \in Nat
      /\ h.start \in Nat /\ h.payments \in Nat
  BY SubscriptionFields
<1>2. height \in Nat /\ time \in Nat
  BY PaymentAssumption DEF TypeOK
<1>3. /\ s.periodsAccumulated <= s.periodsSoFar /\ s.periodsSoFar <= s.maxPeriods
      /\ h.payments = s.periodsSoFar - s.periodsAccumulated
      /\ s.period.start = h.start + s.periodsSoFar * s.period.length
  BY DEF InOrder
<1>4. CASE ~MaxPeriodsReached(s)
  <2>1. n = NextPeriod(s, effected)
    BY <1>4 DEF AfterPayment
  <2>2. PeriodEnd(s.period) \in Nat
    BY <1>1 DEF PeriodEnd
  <2> HIDE DEF n
  <2>3. /\ n \in Subscription /\ n.contract = s.contract
        /\ n.periodsSoFar = s.periodsSoFar + 1 /\ n.maxPeriods = s.maxPeriods
        /\ n.periodsAccumulated
             = IF effected THEN s.periodsAccumulated ELSE s.periodsAccumulated + 1
        /\ n.period = [s.period EXCEPT !.start = PeriodEnd(s.period)]
    BY <2>1, NextPeriodFields
  <2>4. /\ n.period.start = PeriodEnd(s.period)
        /\ n.period.length = s.period.length /\ n.period.unit = s.period.unit
    BY <1>1, <2>3 DEF Period
  <2>5. PeriodEnded(s.period)
    BY <1>4 DEF ShouldEffect
  <2>6. \A m \in Nat, l \in Nat : (m + 1) * l = (m * l) + l
    BY SMT
  <2>7. PeriodEnd(s.period) = h.start + (s.periodsSoFar + 1) * s.period.length
    <3>1. (s.periodsSoFar + 1) * s.period.length
            = (s.periodsSoFar * s.period.length) + s.period.length
      BY <1>1, <2>6
    <3>2. s.periodsSoFar * s.period.length \in Nat
      BY <1>1
    <3> QED
      BY <1>1, <1>3, <3>1, <3>2 DEF PeriodEnd
  <2>8. s.periodsSoFar + 1 <= s.maxPeriods
    BY <1>1, <1>4 DEF MaxPeriodsReached
  <2>9. IF n.period.unit = "block" THEN height >= n.period.start ELSE time > n.period.start
    BY <2>4, <2>5 DEF PeriodEnded
  <2>10. n.periodsAccumulated <= n.periodsSoFar
    BY <1>1, <1>3, <2>3
  <2>11. p.payments = n.periodsSoFar - n.periodsAccumulated
    <3>1. CASE effected
      BY <1>1, <1>3, <2>3, <3>1
    <3>2. CASE ~effected
      BY <1>1, <1>3, <2>3, <3>2
    <3> QED
      BY <3>1, <3>2
  <2>12. InOrder(n, p)
    <3>1. n.period.start = p.start + n.periodsSoFar * n.period.length
      BY <2>3, <2>4, <2>7
    <3> QED
      BY <2>3, <2>8, <2>9, <2>10, <2>11, <3>1 DEF InOrder
  <2> QED
    BY <2>3, <2>12 DEF n
<1>5. CASE MaxPeriodsReached(s) /\ effected
  <2>1. n = [s EXCEPT !.periodsAccumulated = s.periodsAccumulated - 1]
    BY <1>5 DEF AfterPayment
  <2>2. s.periodsAccumulated - 1 \in Nat
    BY <1>1, <1>5 DEF ShouldEffect
  <2> HIDE DEF n
  <2>3. /\ n \in Subscription /\ n.contract = s.contract
        /\ n.periodsSoFar = s.periodsSoFar /\ n.maxPeriods = s.maxPeriods
        /\ n.periodsAccumulated = s.periodsAccumulated - 1 /\ n.period = s.period
    BY <2>1, <2>2 DEF Subscription
  <2>4. n.periodsAccumulated <= n.periodsSoFar
    BY <1>1, <1>3, <2>3
  <2>5. p.payments = n.periodsSoFar - n.periodsAccumulated
    BY <1>1, <1>3, <1>5, <2>3
  <2>6. InOrder(n, p)
    BY <2>3, <2>4, <2>5 DEF InOrder
  <2> QED
    BY <2>3, <2>6 DEF n
<1>6. CASE MaxPeriodsReached(s) /\ ~effected
  <2>1. n = s
    BY <1>6 DEF AfterPayment
  <2>2. InOrder(s, p)
    BY <1>6 DEF InOrder
  <2> QED
    BY <2>1, <2>2
<1> QED
  BY <1>4, <1>5, <1>6

-----------------------------------------------------------------------------
(***************************************************************************)
(* The invariant holds at first and is kept by every step                  *)
(***************************************************************************)
LEMMA InitPaymentsInv == Init => PaymentsInv
<1> SUFFICES ASSUME Init PROVE PaymentsInv
  OBVIOUS
<1>1. /\ DOMAIN templates = {} /\ DOMAIN contracts = {}
      /\ DOMAIN subscriptions = {} /\ DOMAIN history = {}
  BY DEF Init, Empty
<1>2. /\ templates \in [DOMAIN templates -> Template]
      /\ contracts \in [DOMAIN contracts -> Contract]
      /\ subscriptions \in [DOMAIN subscriptions -> Subscription]
      /\ history \in [DOMAIN history -> [start : Nat, payments : Nat]]
  BY DEF Init, Empty
<1>3. pool \in CoinSet /\ \A d \in Denom : pool[d] = 0
  BY DEF Init, NoCoins, CoinSet
<1>4. /\ funds \in [Account -> CoinSet]
      /\ height \in 1 .. MaxClock /\ time \in 1 .. MaxClock
      /\ next \in 0 .. (Subscriptions + 1) /\ halted \in BOOLEAN
  <2>1. funds \in [Account -> CoinSet]
    BY PaymentAssumption DEF Init
  <2>2. MaxClock \in Nat \ {0} /\ Subscriptions \in Nat
    BY PaymentAssumption
  <2>3. height = 1 /\ time = 1 /\ next = 0 /\ halted = FALSE
    BY DEF Init
  <2>4. height \in 1 .. MaxClock /\ time \in 1 .. MaxClock
    BY <2>2, <2>3
  <2>5. next \in 0 .. (Subscriptions + 1)
    BY <2>2, <2>3
  <2> QED
    BY <2>1, <2>3, <2>4, <2>5
<1>5. TypeOK
  BY <1>1, <1>2, <1>3, <1>4 DEF TypeOK
<1>6. PoolIsRemainders
  BY <1>1, <1>3, SumEmpty DEF PoolIsRemainders
<1> QED
  BY <1>1, <1>5, <1>6 DEF PaymentsInv, StoresAgree, MaximumKept,
                          PeriodsAccounted, PeriodsInPlace, NoPeriodBeforeItsEnd

\* A step that leaves subscriptions and clock alone keeps what is said of periods.
LEMMA PeriodsKept ==
  ASSUME PaymentsInv, UNCHANGED <<subscriptions, history, height, time>>
  PROVE  /\ PeriodsAccounted' /\ PeriodsInPlace' /\ NoPeriodBeforeItsEnd'
BY DEF PaymentsInv, PeriodsAccounted, PeriodsInPlace, NoPeriodBeforeItsEnd

LEMMA CreatePaymentTemplateInv ==
  ASSUME PaymentsInv, NEW id \in TemplateId, NEW t \in TemplateTerms,
         CreatePaymentTemplate(id, t)
  PROVE  PaymentsInv'
<1>1. /\ UNCHANGED <<contracts, subscriptions, funds, pool>>
      /\ UNCHANGED <<height, time, next, halted, history>>
  BY DEF CreatePaymentTemplate, bank, clock
<1>2. TypeOK /\ StoresAgree /\ PoolIsRemainders /\ MaximumKept
  BY DEF PaymentsInv
<1>3. templates' = Store(templates, id, t) /\ id \notin DOMAIN templates
  BY DEF CreatePaymentTemplate
<1>4. t \in Template
  BY PaymentAssumption
<1>5. /\ DOMAIN templates' = DOMAIN templates \cup {id}
      /\ \A i \in DOMAIN templates : templates'[i] = templates[i]
  BY <1>3 DEF Store
<1>6. templates' \in [DOMAIN templates' -> Template]
  <2>1. templates \in [DOMAIN templates -> Template]
    BY <1>2 DEF TypeOK
  <2> QED
    BY <1>3, <1>4, <1>5, <2>1, StoreType
<1>7. TypeOK'
  BY <1>1, <1>2, <1>5, <1>6 DEF TypeOK
<1>8. /\ PoolIsRemainders' /\ MaximumKept'
      /\ \A i \in DOMAIN contracts' : contracts'[i].template \in DOMAIN templates'
  BY <1>1, <1>2, <1>5, PaidKept
<1>9. StoresAgree'
  BY <1>1, <1>2, <1>8 DEF StoresAgree
<1> QED
  BY <1>1, <1>7, <1>8, <1>9, PeriodsKept DEF PaymentsInv

\* A new contract has nothing left over, so the pool's sum stays what it is.
LEMMA CreatePaymentContractInv ==
  ASSUME PaymentsInv, NEW id \in ContractId, NEW t \in ContractTerms,
         CreatePaymentContract(id, t)
  PROVE  PaymentsInv'
<1> DEFINE c == [t EXCEPT !.authorised = FALSE,
                          !.cumulativePay = NoCoins, !.currentRemainder = NoCoins]
<1>1. /\ UNCHANGED <<templates, subscriptions, funds, pool>>
      /\ UNCHANGED <<height, time, next, halted, history>>
  BY DEF CreatePaymentContract, bank, clock
<1>2. TypeOK /\ StoresAgree /\ PoolIsRemainders /\ MaximumKept
  BY DEF PaymentsInv
<1>3. /\ contracts' = Store(contracts, id, c) /\ id \notin DOMAIN contracts
      /\ t.template \in DOMAIN templates
  BY DEF CreatePaymentContract
<1>4. t \in Contract /\ NoCoins \in CoinSet
  BY PaymentAssumption DEF NoCoins, CoinSet
<1>5. /\ c \in Contract /\ c.template = t.template
      /\ c.cumulativePay = NoCoins /\ c.currentRemainder = NoCoins
  BY <1>4 DEF Contract
<1> HIDE DEF c
<1>6. /\ DOMAIN contracts' = DOMAIN contracts \cup {id} /\ contracts'[id] = c
      /\ \A i \in DOMAIN contracts : contracts'[i] = contracts[i]
  BY <1>3 DEF Store
<1>7. contracts' \in [DOMAIN contracts' -> Contract]
  <2>1. contracts \in [DOMAIN contracts -> Contract]
    BY <1>2 DEF TypeOK
  <2> QED
    BY <1>3, <1>5, <1>6, <2>1, StoreType
<1>8. TypeOK'
  BY <1>1, <1>2, <1>6, <1>7 DEF TypeOK
<1>9. PoolIsRemainders'
  <2> SUFFICES ASSUME NEW d \in Denom
               PROVE  pool'[d] = SumOf(Remainders(d)', DOMAIN contracts')
    BY DEF PoolIsRemainders
  <2>1. IsFiniteSet(DOMAIN contracts) /\ IsFiniteSet(DOMAIN contracts')
    BY <1>2, <1>8, ContractsFinite, FS_AddElement, <1>6
  <2>2. \A i \in DOMAIN contracts' : Remainders(d)'[i] \in Nat
    BY <1>7 DEF Remainders, Contract, CoinSet
  <2>3. \A i \in DOMAIN contracts : Remainders(d)'[i] = Remainders(d)[i]
    BY <1>6 DEF Remainders
  <2>4. Remainders(d)'[id] = 0
    BY <1>5, <1>6 DEF Remainders, NoCoins
  <2>5. \A i \in DOMAIN contracts : Remainders(d)'[i] \in Nat
    BY <1>6, <2>2
  <2>6. SumOf(Remainders(d)', DOMAIN contracts \cup {id})
          = SumOf(Remainders(d)', DOMAIN contracts) + Remainders(d)'[id]
    <3> DEFINE f == Remainders(d)'
    <3> HIDE DEF f
    <3>1. \A i \in DOMAIN contracts \cup {id} : f[i] \in Nat
      BY <1>6, <2>2 DEF f
    <3>2. SumOf(f, DOMAIN contracts \cup {id}) = SumOf(f, DOMAIN contracts) + f[id]
      BY <1>3, <2>1, <3>1, SumAdd
    <3> QED
      BY <3>2 DEF f
  <2>7. SumOf(Remainders(d)', DOMAIN contracts) = SumOf(Remainders(d), DOMAIN contracts)
    BY <2>1, <2>3, <2>5, SumCongruence
  <2>8. SumOf(Remainders(d)', DOMAIN contracts) \in Nat
    BY <2>1, <2>5, SumType
  <2>9. pool[d] = SumOf(Remainders(d), DOMAIN contracts)
    BY <1>2 DEF PoolIsRemainders
  <2> QED
    BY <1>1, <1>6, <2>4, <2>6, <2>7, <2>8, <2>9
<1>10. \A i \in DOMAIN contracts : TemplateOf(contracts[i])' = TemplateOf(contracts[i])
  BY <1>1, <1>6 DEF TemplateOf
<1>11. MaximumKept'
  <2>1. ASSUME NEW i \in DOMAIN contracts', NEW d \in Denom,
               TemplateOf(contracts[i])'.maximum[d] # 0
        PROVE  contracts'[i].cumulativePay[d] <= TemplateOf(contracts[i])'.maximum[d]
    <3>1. CASE i = id
      <4>1. c.template \in DOMAIN templates
        BY <1>3, <1>5
      <4>2. TemplateOf(contracts[i])' \in Template
        BY <1>1, <1>2, <1>6, <3>1, <4>1 DEF TemplateOf, TypeOK
      <4>3. TemplateOf(contracts[i])'.maximum[d] \in Nat
        BY <4>2 DEF Template, CoinSet
      <4>4. contracts'[i].cumulativePay[d] = 0
        BY <1>5, <1>6, <3>1 DEF NoCoins
      <4> QED
        BY <4>3, <4>4
    <3>2. CASE i # id
      BY <1>2, <1>6, <1>10, <2>1, <3>2 DEF MaximumKept
    <3> QED
      BY <3>1, <3>2
  <2> QED
    BY <2>1 DEF MaximumKept
<1>12. StoresAgree'
  BY <1>1, <1>2, <1>3, <1>5, <1>6 DEF StoresAgree
<1> QED
  BY <1>1, <1>8, <1>9, <1>11, <1>12, PeriodsKept DEF PaymentsInv

\* Authorisation and discounts change neither what was paid nor what is left over.
LEMMA ContractEditInv ==
  ASSUME PaymentsInv, NEW id \in DOMAIN contracts, NEW c \in Contract,
         c.template = contracts[id].template,
         c.cumulativePay = contracts[id].cumulativePay,
         c.currentRemainder = contracts[id].currentRemainder,
         contracts' = [contracts EXCEPT ![id] = c],
         UNCHANGED <<templates, subscriptions, funds, pool>>,
         UNCHANGED <<height, time, next, halted, history>>
  PROVE  PaymentsInv'
<1>1. TypeOK /\ StoresAgree /\ PoolIsRemainders /\ MaximumKept
  BY DEF PaymentsInv
<1>2. /\ DOMAIN contracts' = DOMAIN contracts /\ contracts'[id] = c
      /\ \A i \in DOMAIN contracts : i # id => contracts'[i] = contracts[i]
  OBVIOUS
<1>3. contracts' \in [DOMAIN contracts' -> Contract]
  BY <1>1 DEF TypeOK
<1>4. TypeOK'
  BY <1>1, <1>2, <1>3 DEF TypeOK
<1>5. \A i \in DOMAIN contracts :
        /\ contracts'[i].template = contracts[i].template
        /\ contracts'[i].cumulativePay = contracts[i].cumulativePay
        /\ contracts'[i].currentRemainder = contracts[i].currentRemainder
  BY <1>2
<1>6. /\ PoolIsRemainders' /\ MaximumKept'
      /\ \A i \in DOMAIN contracts' : contracts'[i].template \in DOMAIN templates'
  BY <1>1, <1>2, <1>5, PaidKept
<1>7. StoresAgree'
  BY <1>1, <1>2, <1>6 DEF StoresAgree
<1> QED
  BY <1>4, <1>6, <1>7, PeriodsKept DEF PaymentsInv

LEMMA SetAuthorisationInv ==
  ASSUME PaymentsInv, NEW sender, NEW id \in ContractId, NEW b \in BOOLEAN,
         SetPaymentContractAuthorisation(sender, id, b)
  PROVE  PaymentsInv'
<1> DEFINE c == [contracts[id] EXCEPT !.authorised = b]
<1>1. id \in DOMAIN contracts /\ contracts[id] \in Contract
  BY DEF SetPaymentContractAuthorisation, PaymentsInv, TypeOK
<1>2. /\ c \in Contract /\ c.template = contracts[id].template
      /\ c.cumulativePay = contracts[id].cumulativePay
      /\ c.currentRemainder = contracts[id].currentRemainder
  BY <1>1 DEF Contract
<1>3. contracts' = [contracts EXCEPT ![id] = c]
  BY DEF SetPaymentContractAuthorisation
<1>4. /\ UNCHANGED <<templates, subscriptions, funds, pool>>
      /\ UNCHANGED <<height, time, next, halted, history>>
  BY DEF SetPaymentContractAuthorisation, bank, clock
<1> HIDE DEF c
<1> QED
  BY <1>1, <1>2, <1>3, <1>4, ContractEditInv

LEMMA DiscountInv ==
  ASSUME PaymentsInv, NEW id \in DOMAIN contracts, NEW discount \in Nat,
         contracts' = [contracts EXCEPT ![id].discountId = discount],
         UNCHANGED <<templates, subscriptions, bank, clock, next, halted, history>>
  PROVE  PaymentsInv'
<1> DEFINE c == [contracts[id] EXCEPT !.discountId = discount]
<1>1. contracts[id] \in Contract
  BY DEF PaymentsInv, TypeOK
<1>2. /\ c \in Contract /\ c.template = contracts[id].template
      /\ c.cumulativePay = contracts[id].cumulativePay
      /\ c.currentRemainder = contracts[id].currentRemainder
  BY <1>1 DEF Contract
<1>3. contracts' = [contracts EXCEPT ![id] = c]
  OBVIOUS
<1>4. /\ UNCHANGED <<templates, subscriptions, funds, pool>>
      /\ UNCHANGED <<height, time, next, halted, history>>
  BY DEF bank, clock
<1> HIDE DEF c
<1> QED
  BY <1>1, <1>2, <1>3, <1>4, ContractEditInv

LEMMA CreateSubscriptionInv ==
  ASSUME PaymentsInv, NEW sender, NEW id \in 1 .. Subscriptions,
         NEW t \in SubscriptionTerms, CreateSubscription(sender, id, t)
  PROVE  PaymentsInv'
<1> DEFINE s == [t EXCEPT !.periodsSoFar = 0, !.periodsAccumulated = 0]
           h == [start |-> t.period.start, payments |-> 0]
<1>1. /\ UNCHANGED <<templates, contracts, funds, pool>>
      /\ UNCHANGED <<height, time, next, halted>>
  BY DEF CreateSubscription, bank, clock
<1>2. TypeOK /\ StoresAgree /\ PoolIsRemainders /\ MaximumKept
  BY DEF PaymentsInv
<1>3. /\ subscriptions' = Store(subscriptions, id, s)
      /\ history' = Store(history, id, h)
      /\ id \notin DOMAIN subscriptions /\ t.contract \in DOMAIN contracts
  BY DEF CreateSubscription
<1>4. t \in Subscription
  BY PaymentAssumption
<1>5. /\ t.period \in Period /\ t.period.start \in Nat /\ t.period.length \in Nat
      /\ t.maxPeriods \in Nat
  BY <1>4, SubscriptionFields
<1>6. /\ s \in Subscription /\ s.contract = t.contract /\ s.period = t.period
      /\ s.periodsSoFar = 0 /\ s.periodsAccumulated = 0 /\ s.maxPeriods \in Nat
  BY <1>4, <1>5 DEF Subscription
<1>7. /\ h \in [start : Nat, payments : Nat]
      /\ h.start = t.period.start /\ h.payments = 0
  BY <1>5
<1> HIDE DEF s, h
<1>8. /\ DOMAIN subscriptions' = DOMAIN subscriptions \cup {id}
      /\ subscriptions'[id] = s
      /\ \A i \in DOMAIN subscriptions : subscriptions'[i] = subscriptions[i]
  BY <1>3 DEF Store
<1>9. /\ DOMAIN history' = DOMAIN subscriptions' /\ history'[id] = h
      /\ \A i \in DOMAIN subscriptions : history'[i] = history[i]
  <2>1. DOMAIN history = DOMAIN subscriptions
    BY <1>2 DEF TypeOK
  <2> QED
    BY <1>3, <1>8, <2>1 DEF Store
<1>10. subscriptions' \in [DOMAIN subscriptions' -> Subscription]
  <2>1. subscriptions \in [DOMAIN subscriptions -> Subscription]
    BY <1>2 DEF TypeOK
  <2> QED
    BY <1>3, <1>6, <1>8, <2>1, StoreType
<1>11. history' \in [DOMAIN history' -> [start : Nat, payments : Nat]]
  <2>1. /\ history \in [DOMAIN history -> [start : Nat, payments : Nat]]
        /\ DOMAIN history = DOMAIN subscriptions
    BY <1>2 DEF TypeOK
  <2> QED
    BY <1>3, <1>7, <2>1 DEF Store
<1>12. TypeOK'
  BY <1>1, <1>2, <1>8, <1>9, <1>10, <1>11 DEF TypeOK
<1>13. StoresAgree'
  BY <1>1, <1>2, <1>3, <1>6, <1>8 DEF StoresAgree
<1>14. PoolIsRemainders' /\ MaximumKept'
  BY <1>1, <1>2, PaidKept
<1>15. InOrder(subscriptions[id], history[id])'
  <2>1. s.period.start = h.start + s.periodsSoFar * s.period.length
    BY <1>5, <1>6, <1>7
  <2>2. s.periodsAccumulated <= s.periodsSoFar /\ s.periodsSoFar <= s.maxPeriods
    BY <1>6
  <2>3. h.payments = s.periodsSoFar - s.periodsAccumulated
    BY <1>6, <1>7
  <2> QED
    BY <1>6, <1>8, <1>9, <2>1, <2>2, <2>3 DEF InOrder
<1>16. \A i \in DOMAIN subscriptions : InOrder(subscriptions[i], history[i])'
  <2>1. \A i \in DOMAIN subscriptions : InOrder(subscriptions[i], history[i])
    BY PeriodsInOrder DEF PaymentsInv
  <2> QED
    BY <1>1, <1>8, <1>9, <2>1 DEF InOrder
<1>17. PeriodsAccounted' /\ PeriodsInPlace' /\ NoPeriodBeforeItsEnd'
  <2>1. \A i \in DOMAIN subscriptions' : InOrder(subscriptions[i], history[i])'
    BY <1>8, <1>15, <1>16
  <2> QED
    BY <2>1 DEF InOrder, PeriodsAccounted, PeriodsInPlace, NoPeriodBeforeItsEnd
<1> QED
  BY <1>12, <1>13, <1>14, <1>17 DEF PaymentsInv

LEMMA EffectPaymentInv ==
  ASSUME PaymentsInv, NEW sender, NEW id \in ContractId, EffectPayment(sender, id)
  PROVE  PaymentsInv'
<1>1. UNCHANGED <<templates, subscriptions, height, time, next, halted, history>>
  BY DEF EffectPayment, clock
<1>2. TypeOK /\ StoresAgree /\ PoolIsRemainders /\ MaximumKept
  BY DEF PaymentsInv
<1>3. id \in DOMAIN contracts /\ Effected(contracts[id]) /\ Transfer(id)
  BY DEF EffectPayment
<1>4. /\ DOMAIN contracts' = DOMAIN contracts
      /\ contracts' \in [DOMAIN contracts -> Contract]
      /\ \A i \in DOMAIN contracts : contracts'[i].template = contracts[i].template
      /\ funds' \in [Account -> CoinSet] /\ pool' \in CoinSet
      /\ PoolIsRemainders' /\ MaximumKept'
  BY <1>1, <1>2, <1>3, TransferFacts
<1>5. TypeOK'
  BY <1>1, <1>2, <1>4 DEF TypeOK
<1>6. StoresAgree'
  BY <1>1, <1>2, <1>4 DEF StoresAgree
<1> QED
  BY <1>1, <1>4, <1>5, <1>6, PeriodsKept DEF PaymentsInv

\* What EndBlocker does to a subscription that is due.
LEMMA SubscriptionStep ==
  ASSUME PaymentsInv, NEW id \in DOMAIN subscriptions,
         ShouldEffect(subscriptions[id]), NEW effected \in BOOLEAN,
         subscriptions' = [subscriptions EXCEPT ![id] = AfterPayment(@, effected)],
         DOMAIN history' = DOMAIN history,
         history' \in [DOMAIN history -> [start : Nat, payments : Nat]],
         history'[id].start = history[id].start,
         history'[id].payments
           = IF effected THEN history[id].payments + 1 ELSE history[id].payments,
         \A i \in DOMAIN history : i # id => history'[i] = history[i],
         UNCHANGED <<height, time>>
  PROVE  /\ DOMAIN subscriptions' = DOMAIN subscriptions
         /\ subscriptions' \in [DOMAIN subscriptions -> Subscription]
         /\ \A i \in DOMAIN subscriptions :
              subscriptions'[i].contract = subscriptions[i].contract
         /\ PeriodsAccounted' /\ PeriodsInPlace' /\ NoPeriodBeforeItsEnd'
<1> DEFINE s == subscriptions[id]
           n == AfterPayment(s, effected)
<1>1. TypeOK
  BY DEF PaymentsInv
<1>2. /\ subscriptions \in [DOMAIN subscriptions -> Subscription]
      /\ history \in [DOMAIN history -> [start : Nat, payments : Nat]]
      /\ DOMAIN history = DOMAIN subscriptions
  BY <1>1 DEF TypeOK
<1>3. \A i \in DOMAIN subscriptions : InOrder(subscriptions[i], history[i])
  BY PeriodsInOrder DEF PaymentsInv
<1>4. /\ n \in Subscription /\ n.contract = s.contract /\ InOrder(n, history'[id])
  <2>1. /\ s \in Subscription /\ history[id] \in [start : Nat, payments : Nat]
        /\ history'[id] \in [start : Nat, payments : Nat]
    BY <1>2
  <2>2. InOrder(s, history[id])
    BY <1>3
  <2> QED
    BY <1>1, <2>1, <2>2, AfterPaymentInOrder
<1>5. subscriptions' = [subscriptions EXCEPT ![id] = n]
  OBVIOUS
<1> HIDE DEF n
<1>6. /\ DOMAIN subscriptions' = DOMAIN subscriptions /\ subscriptions'[id] = n
      /\ \A i \in DOMAIN subscriptions : i # id => subscriptions'[i] = subscriptions[i]
  BY <1>5
<1>7. subscriptions' \in [DOMAIN subscriptions -> Subscription]
  BY <1>2, <1>4, <1>5
<1>8. \A i \in DOMAIN subscriptions : InOrder(subscriptions[i], history[i])'
  <2>1. InOrder(subscriptions[id], history[id])'
    BY <1>4, <1>6 DEF InOrder
  <2>2. ASSUME NEW i \in DOMAIN subscriptions, i # id
        PROVE  InOrder(subscriptions[i], history[i])'
    <3>1. history'[i] = history[i] /\ subscriptions'[i] = subscriptions[i]
      BY <1>2, <1>6, <2>2
    <3>2. InOrder(subscriptions[i], history[i])
      BY <1>3
    <3> QED
      BY <3>1, <3>2 DEF InOrder
  <2> QED
    BY <2>1, <2>2
<1>9. PeriodsAccounted' /\ PeriodsInPlace' /\ NoPeriodBeforeItsEnd'
  BY <1>6, <1>8 DEF InOrder, PeriodsAccounted, PeriodsInPlace, NoPeriodBeforeItsEnd
<1> QED
  BY <1>4, <1>6, <1>7, <1>9

LEMMA NextType ==
  ASSUME NEW id \in 1 .. Subscriptions
  PROVE  id + 1 \in 0 .. (Subscriptions + 1) /\ 1 \in 0 .. (Subscriptions + 1)
BY PaymentAssumption

LEMMA EffectSubscriptionPaymentInv ==
  ASSUME PaymentsInv, NEW id \in 1 .. Subscriptions, EffectSubscriptionPayment(id)
  PROVE  PaymentsInv'
<1> DEFINE contract == subscriptions[id].contract
<1>1. UNCHANGED <<templates, height, time, halted>> /\ next' = id + 1
  BY DEF EffectSubscriptionPayment, clock
<1>2. TypeOK /\ StoresAgree /\ PoolIsRemainders /\ MaximumKept
  BY DEF PaymentsInv
<1>3. /\ id \in DOMAIN subscriptions /\ ShouldEffect(subscriptions[id])
      /\ Effected(contracts[contract]) /\ Transfer(contract)
      /\ subscriptions' = [subscriptions EXCEPT ![id] = AfterPayment(@, TRUE)]
      /\ history' = [history EXCEPT ![id].payments = @ + 1]
  BY DEF EffectSubscriptionPayment, Due, ContractDue
<1>4. contract \in DOMAIN contracts
  BY <1>2, <1>3 DEF StoresAgree
<1>5. /\ DOMAIN contracts' = DOMAIN contracts
      /\ contracts' \in [DOMAIN contracts -> Contract]
      /\ \A i \in DOMAIN contracts : contracts'[i].template = contracts[i].template
      /\ funds' \in [Account -> CoinSet] /\ pool' \in CoinSet
      /\ PoolIsRemainders' /\ MaximumKept'
  BY <1>1, <1>2, <1>3, <1>4, TransferFacts
<1>6. /\ DOMAIN history' = DOMAIN history
      /\ history' \in [DOMAIN history -> [start : Nat, payments : Nat]]
      /\ history'[id].start = history[id].start
      /\ history'[id].payments = history[id].payments + 1
      /\ \A i \in DOMAIN history : i # id => history'[i] = history[i]
  <2>1. /\ history \in [DOMAIN history -> [start : Nat, payments : Nat]]
        /\ id \in DOMAIN history
    BY <1>2, <1>3 DEF TypeOK
  <2>2. history[id] \in [start : Nat, payments : Nat]
    BY <2>1
  <2>3. [history[id] EXCEPT !.payments = history[id].payments + 1]
          \in [start : Nat, payments : Nat]
    BY <2>2
  <2> QED
    BY <1>3, <2>1, <2>2, <2>3
<1>7. /\ DOMAIN subscriptions' = DOMAIN subscriptions
      /\ subscriptions' \in [DOMAIN subscriptions -> Subscription]
      /\ \A i \in DOMAIN subscriptions :
           subscriptions'[i].contract = subscriptions[i].contract
      /\ PeriodsAccounted' /\ PeriodsInPlace' /\ NoPeriodBeforeItsEnd'
  BY <1>1, <1>3, <1>6, SubscriptionStep
<1>8. TypeOK'
  BY <1>1, <1>2, <1>5, <1>6, <1>7, NextType DEF TypeOK
<1>9. StoresAgree'
  BY <1>1, <1>2, <1>5, <1>7 DEF StoresAgree
<1> QED
  BY <1>5, <1>7, <1>8, <1>9 DEF PaymentsInv

LEMMA MissSubscriptionPaymentInv ==
  ASSUME PaymentsInv, NEW id \in 1 .. Subscriptions, MissSubscriptionPayment(id)
  PROVE  PaymentsInv'
<1>1. /\ UNCHANGED <<templates, contracts, funds, pool, height, time, halted, history>>
      /\ next' = id + 1
  BY DEF MissSubscriptionPayment, bank, clock
<1>2. TypeOK /\ StoresAgree /\ PoolIsRemainders /\ MaximumKept
  BY DEF PaymentsInv
<1>3. /\ id \in DOMAIN subscriptions /\ ShouldEffect(subscriptions[id])
      /\ subscriptions' = [subscriptions EXCEPT ![id] = AfterPayment(@, FALSE)]
  BY DEF MissSubscriptionPayment, Due
<1>4. /\ DOMAIN subscriptions' = DOMAIN subscriptions
      /\ subscriptions' \in [DOMAIN subscriptions -> Subscription]
      /\ \A i \in DOMAIN subscriptions :
           subscriptions'[i].contract = subscriptions[i].contract
      /\ PeriodsAccounted' /\ PeriodsInPlace' /\ NoPeriodBeforeItsEnd'
  <2>1. history \in [DOMAIN history -> [start : Nat, payments : Nat]]
    BY <1>2 DEF TypeOK
  <2> QED
    BY <1>1, <1>3, <2>1, SubscriptionStep
<1>5. TypeOK'
  BY <1>1, <1>2, <1>4, NextType DEF TypeOK
<1>6. StoresAgree'
  BY <1>1, <1>2, <1>4 DEF StoresAgree
<1>7. PoolIsRemainders' /\ MaximumKept'
  BY <1>1, <1>2, PaidKept
<1> QED
  BY <1>4, <1>5, <1>6, <1>7 DEF PaymentsInv

\* Steps that only move EndBlocker on.
LEMMA StoresAndBankKept ==
  ASSUME PaymentsInv, UNCHANGED <<stores, bank, clock, history>>,
         next' \in 0 .. (Subscriptions + 1), halted' \in BOOLEAN
  PROVE  PaymentsInv'
<1>1. UNCHANGED <<templates, contracts, subscriptions, funds, pool, height, time, history>>
  BY DEF stores, bank, clock
<1>2. TypeOK /\ StoresAgree /\ PoolIsRemainders /\ MaximumKept
  BY DEF PaymentsInv
<1>3. TypeOK'
  BY <1>1, <1>2 DEF TypeOK
<1>4. StoresAgree'
  BY <1>1, <1>2 DEF StoresAgree
<1>5. PoolIsRemainders' /\ MaximumKept'
  BY <1>1, <1>2, PaidKept
<1> QED
  BY <1>1, <1>3, <1>4, <1>5, PeriodsKept DEF PaymentsInv

\* The clock only moves forward, so a period that has ended stays ended.
LEMMA NextBlockInv ==
  ASSUME PaymentsInv, NEW later \in BlockTimes, NextBlock(later)
  PROVE  PaymentsInv'
<1>1. UNCHANGED <<templates, contracts, subscriptions, funds, pool, halted, history>>
  BY DEF NextBlock, stores, bank
<1>2. TypeOK /\ StoresAgree /\ PoolIsRemainders /\ MaximumKept
  BY DEF PaymentsInv
<1>3. /\ height \in 1 .. MaxClock /\ time \in 1 .. MaxClock /\ MaxClock \in Nat
      /\ later \in Nat /\ Subscriptions \in Nat
  BY <1>2, PaymentAssumption DEF TypeOK
<1>4. /\ height' \in 1 .. MaxClock /\ height' >= height
      /\ time' \in 1 .. MaxClock /\ time' >= time
  BY <1>3 DEF NextBlock, Advance
<1>5. TypeOK'
  <2>1. next' = 0
    BY DEF NextBlock
  <2>2. next' \in 0 .. (Subscriptions + 1)
    BY <1>3, <2>1
  <2> QED
    BY <1>1, <1>2, <1>4, <2>2 DEF TypeOK
<1>6. StoresAgree'
  BY <1>1, <1>2 DEF StoresAgree
<1>7. PoolIsRemainders' /\ MaximumKept'
  BY <1>1, <1>2, PaidKept
<1>8. \A i \in DOMAIN subscriptions : InOrder(subscriptions[i], history[i])'
  <2> SUFFICES ASSUME NEW i \in DOMAIN subscriptions
               PROVE  InOrder(subscriptions[i], history[i])'
    OBVIOUS
  <2>1. InOrder(subscriptions[i], history[i])
    BY PeriodsInOrder DEF PaymentsInv
  <2>2. subscriptions[i].period.start \in Nat
    BY <1>2, SubscriptionFields DEF TypeOK
  <2>3. height \in Nat /\ height' \in Nat /\ time \in Nat /\ time' \in Nat
    BY <1>3, <1>4
  <2> QED
    BY <1>1, <1>4, <2>1, <2>2, <2>3 DEF InOrder
<1>9. PeriodsAccounted' /\ PeriodsInPlace' /\ NoPeriodBeforeItsEnd'
  BY <1>1, <1>8 DEF InOrder, PeriodsAccounted, PeriodsInPlace, NoPeriodBeforeItsEnd
<1> QED
  BY <1>5, <1>6, <1>7, <1>9 DEF PaymentsInv

LEMMA StutterInv ==
  ASSUME PaymentsInv, UNCHANGED vars
  PROVE  PaymentsInv'
<1>1. UNCHANGED <<stores, bank, clock, history>> /\ next' = next /\ halted' = halted
  BY DEF vars
<1>2. next' \in 0 .. (Subscriptions + 1) /\ halted' \in BOOLEAN
  BY <1>1 DEF PaymentsInv, TypeOK
<1> QED
  BY <1>1, <1>2, StoresAndBankKept

LEMMA TransactionInv ==
  ASSUME PaymentsInv, Transaction
  PROVE  PaymentsInv'
<1>1. ASSUME NEW id \in TemplateId, NEW t \in TemplateTerms, CreatePaymentTemplate(id, t)
      PROVE  PaymentsInv'
  BY <1>1, CreatePaymentTemplateInv
<1>2. ASSUME NEW id \in ContractId, NEW t \in ContractTerms, CreatePaymentContract(id, t)
      PROVE  PaymentsInv'
  BY <1>2, CreatePaymentContractInv
<1>3. ASSUME NEW a \in Account, NEW id \in ContractId, NEW b \in BOOLEAN,
             SetPaymentContractAuthorisation(a, id, b)
      PROVE  PaymentsInv'
  BY <1>3, SetAuthorisationInv
<1>4. ASSUME NEW a \in Account, NEW id \in 1 .. Subscriptions,
             NEW t \in SubscriptionTerms, CreateSubscription(a, id, t)
      PROVE  PaymentsInv'
  BY <1>4, CreateSubscriptionInv
<1>5. ASSUME NEW a \in Account, NEW id \in ContractId, NEW i \in DiscountId,
             GrantDiscount(a, id, i)
      PROVE  PaymentsInv'
  <2>1. i \in Nat /\ id \in DOMAIN contracts
    BY <1>5, PaymentAssumption DEF GrantDiscount
  <2> QED
    BY <1>5, <2>1, DiscountInv DEF GrantDiscount
<1>6. ASSUME NEW a \in Account, NEW id \in ContractId, RevokeDiscount(a, id)
      PROVE  PaymentsInv'
  <2>1. 0 \in Nat /\ id \in DOMAIN contracts
    BY <1>6 DEF RevokeDiscount
  <2> QED
    BY <1>6, <2>1, DiscountInv DEF RevokeDiscount
<1>7. ASSUME NEW a \in Account, NEW id \in ContractId, EffectPayment(a, id)
      PROVE  PaymentsInv'
  BY <1>7, EffectPaymentInv
<1> QED
  BY <1>1, <1>2, <1>3, <1>4, <1>5, <1>6, <1>7 DEF Transaction

LEMMA EndBlockerInv ==
  ASSUME PaymentsInv, EndBlocker
  PROVE  PaymentsInv'
<1>1. halted \in BOOLEAN /\ next \in 0 .. (Subscriptions + 1)
  BY DEF PaymentsInv, TypeOK
<1>2. CASE BeginEndBlock
  <2>1. next' \in 0 .. (Subscriptions + 1)
    BY <1>2, PaymentAssumption DEF BeginEndBlock
  <2> QED
    BY <1>1, <1>2, <2>1, StoresAndBankKept DEF BeginEndBlock
<1>3. ASSUME NEW id \in 1 .. Subscriptions, SkipSubscription(id)
      PROVE  PaymentsInv'
  <2>1. next' \in 0 .. (Subscriptions + 1)
    BY <1>3, NextType DEF SkipSubscription
  <2> QED
    BY <1>1, <1>3, <2>1, StoresAndBankKept DEF SkipSubscription
<1>4. ASSUME NEW id \in 1 .. Subscriptions, EffectSubscriptionPayment(id)
      PROVE  PaymentsInv'
  BY <1>4, EffectSubscriptionPaymentInv
<1>5. ASSUME NEW id \in 1 .. Subscriptions, MissSubscriptionPayment(id)
      PROVE  PaymentsInv'
  BY <1>5, MissSubscriptionPaymentInv
<1>6. ASSUME NEW id \in 1 .. Subscriptions, Panic(id)
      PROVE  PaymentsInv'
  BY <1>1, <1>6, StoresAndBankKept DEF Panic
<1>7. ASSUME NEW later \in BlockTimes, NextBlock(later)
      PROVE  PaymentsInv'
  BY <1>7, NextBlockInv
<1> QED
  BY <1>2, <1>3, <1>4, <1>5, <1>6, <1>7 DEF EndBlocker

-----------------------------------------------------------------------------
(***************************************************************************)
(* The theorems                                                            *)
(***************************************************************************)
\* The invariant holds in every state that transactions and EndBlocker reach.
THEOREM PaymentsInvariant == Spec => []PaymentsInv
<1>1. PaymentsInv /\ [Next]_vars => PaymentsInv'
  BY TransactionInv, EndBlockerInv, StutterInv DEF Next
<1> QED
  BY InitPaymentsInv, <1>1, PTL DEF Spec

\* Amounts never go below zero, neither in contracts nor in the pool, and the
\* records of the stores keep their types (types/payments.go, types/subscriptions.go).
THEOREM PaymentsTypeCorrect == Spec => []TypeOK
<1>1. PaymentsInv => TypeOK
  BY DEF PaymentsInv
<1> QED
  BY <1>1, PaymentsInvariant, PTL

\* However many contracts share PayRemainderPool, it holds the sum of what they
\* record as their remainders (keeper/payments.go, EffectPayment).
THEOREM PoolCorrect == Spec => []PoolIsRemainders
<1>1. PaymentsInv => PoolIsRemainders
  BY DEF PaymentsInv
<1> QED
  BY <1>1, PaymentsInvariant, PTL

\* No sequence of payments, by transactions or by subscriptions, exceeds the
\* maximum of a template (keeper/payments.go, adjustForMaximums).
THEOREM MaximumCorrect == Spec => []MaximumKept
<1>1. PaymentsInv => MaximumKept
  BY DEF PaymentsInv
<1> QED
  BY <1>1, PaymentsInvariant, PTL

\* A subscription takes one payment for each of its periods, at once or later,
\* and never one more (keeper/subscriptions.go, EffectSubscriptionPayment).
THEOREM PeriodsCorrect == Spec => []PeriodsAccounted
<1>1. PaymentsInv => PeriodsAccounted
  BY DEF PaymentsInv
<1> QED
  BY <1>1, PaymentsInvariant, PTL

\* No period is paid or counted before it has ended (types/subscriptions.go,
\* ShouldEffect and NextPeriod).
THEOREM NoEarlyPayment == Spec => []NoPeriodBeforeItsEnd
<1>1. PaymentsInv => NoPeriodBeforeItsEnd
  BY DEF PaymentsInv
<1> QED
  BY <1>1, PaymentsInvariant, PTL

=============================================================================
