-------------------------- MODULE Agreement_proofs --------------------------
(***************************************************************************)
(* What the parties of a contract can rely on, for every set of accounts,  *)
(* templates, contracts and subscriptions: Payments implements Agreement,  *)
(* no coin is lost, and coins leave an account only with authorisation.    *)
(***************************************************************************)
EXTENDS Payments_proofs

-----------------------------------------------------------------------------
(***************************************************************************)
(* One payment                                                             *)
(***************************************************************************)
LEMMA ContractAfterFacts ==
  ASSUME NEW c \in Contract, TemplateOf(c) \in Template,
         PayDefined(c), CanTransfer(c)
  PROVE  ContractAfter(c) = [c EXCEPT !.cumulativePay = AdjustedCumulative(c),
                                      !.currentRemainder = OutputToPool(c)]
<1>1. /\ Add(c.cumulativePay, Pay(c)) = AdjustedCumulative(c)
      /\ RemainderAfter(c) = OutputToPool(c)
  BY PayFacts, OutputFacts
<1> QED
  BY <1>1 DEF ContractAfter, Contract

\* A discount below 100 % leaves something of every amount, one of 100 % leaves
\* nothing of any.
LEMMA DiscountInAll ==
  ASSUME NEW c \in Contract, TemplateOf(c) \in Template, PayDefined(c),
         NEW d \in Denom, TemplateOf(c).amount[d] # 0, Discounted(c)[d] = 0
  PROVE  Discounted(c) = NoCoins
<1> DEFINE t == TemplateOf(c)
           p == t.discounts[c.discountId]
<1>1. \A e \in Denom : t.amount[e] \in Nat
  BY DEF Template, CoinSet
<1>2. \A e \in Denom : Discounted(c)[e] = t.amount[e] - Discount(c)[e]
  BY DEF Discounted, Sub
<1>3. c.discountId # 0
  BY <1>1, <1>2 DEF Discount, NoCoins
<1>4. p \in Nat
  <2>1. c.discountId \in DOMAIN t.discounts
    BY <1>3 DEF PayDefined, DiscountKnown, DiscountIdExists
  <2>2. t.discounts \in Seq(Nat)
    BY DEF Template
  <2> QED
    BY <2>1, <2>2
<1> DEFINE F == Fraction(p)
<1>5. F \in Nat
  BY <1>4, HundredPositive, QuoType DEF Fraction
<1>6. \A e \in Denom : Discount(c)[e] = (t.amount[e] * F) \div Unit
  <2>1. \A e \in Denom : FractionOf(t.amount[e], p) = t.amount[e] * F
    BY <1>1, <1>5, MulByInteger DEF FractionOf
  <2>2. \A e \in Denom : Discount(c)[e] = TruncateInt(FractionOf(t.amount[e], p))
    BY <1>3 DEF Discount
  <2> HIDE DEF F
  <2> QED
    BY <2>1, <2>2 DEF TruncateInt
<1> HIDE DEF F, p
<1>7. Unit <= F
  <2>1. t.amount[d] \in Nat \ {0} /\ Unit \in Nat \ {0}
    BY <1>1, UnitAssumption
  <2>2. t.amount[d] = (t.amount[d] * F) \div Unit
    <3>1. t.amount[d] * F \in Nat
      BY <2>1, <1>5
    <3>2. (t.amount[d] * F) \div Unit \in Nat
      BY <3>1, <2>1, Division
    <3> QED
      BY <1>2, <1>6, <2>1, <3>2
  <2> DEFINE n == t.amount[d]
  <2> HIDE DEF n
  <2>3. n \in Nat \ {0} /\ n * F \in Nat
    BY <1>5, <2>1 DEF n
  <2>4. Unit * n <= n * F
    BY <2>1, <2>2, <2>3, Division DEF n
  <2> QED
    BY <1>5, <2>1, <2>3, <2>4
<1>8. ASSUME NEW e \in Denom PROVE Discounted(c)[e] = 0
  <2> DEFINE n == t.amount[e]
  <2>1. n \in Nat /\ Unit \in Nat \ {0}
    BY <1>1, UnitAssumption
  <2>2. n >= (n * F) \div Unit
    BY <1>6 DEF PayDefined, Covers
  <2>3. Discounted(c)[e] = n - ((n * F) \div Unit)
    BY <1>2, <1>6
  <2> HIDE DEF n
  <2>4. n * F \in Nat /\ (n * F) \div Unit \in Nat /\ Unit * n <= n * F
    <3>1. n * F \in Nat
      BY <1>5, <2>1
    <3>2. Unit * n <= n * F
      BY <1>5, <1>7, <2>1
    <3> QED
      BY <2>1, <3>1, <3>2, Division
  <2>5. n <= (n * F) \div Unit
    <3>1. /\ n * F = Unit * ((n * F) \div Unit) + ((n * F) % Unit)
          /\ (n * F) % Unit \in 0 .. (Unit - 1)
      BY <2>1, <2>4, Division
    <3>2. Unit * n < Unit * (((n * F) \div Unit) + 1)
      <4> DEFINE q == (n * F) \div Unit
                 r == (n * F) % Unit
                 k == n * F
      <4>1. k = Unit * q + r /\ r < Unit /\ q \in Nat /\ r \in Nat /\ Unit * n <= k
        BY <3>1, <2>1, <2>4
      <4> HIDE DEF q, r, k
      <4>2. Unit * (q + 1) = Unit * q + Unit /\ Unit * q \in Nat /\ Unit * n \in Nat
        BY <4>1, <2>1
      <4>3. Unit * n < Unit * (q + 1)
        BY <4>1, <4>2, <2>1
      <4> QED
        BY <4>3 DEF q
    <3> DEFINE q == (n * F) \div Unit
    <3>3. q \in Nat
      BY <2>4
    <3> HIDE DEF q
    <3>4. SUFFICES ASSUME q < n PROVE FALSE
      BY <2>1, <3>3 DEF q
    <3>5. Unit * (q + 1) <= Unit * n
      BY <2>1, <3>3, <3>4
    <3> QED
      BY <2>1, <3>2, <3>3, <3>5 DEF q
  <2> QED
    BY <2>1, <2>2, <2>3, <2>4, <2>5
<1> QED
  BY <1>8 DEF Discounted, Sub, NoCoins

\* The first payment reaches the minimum, whatever the discount, and later
\* ones add to it.
LEMMA MinimumReached ==
  ASSUME NEW c \in Contract, TemplateOf(c) \in Template, ValidTemplate(TemplateOf(c)),
         PayDefined(c), Pay(c) # NoCoins,
         c.cumulativePay = NoCoins \/ Covers(c.cumulativePay, TemplateOf(c).minimum)
  PROVE  Covers(AdjustedCumulative(c), TemplateOf(c).minimum)
<1> DEFINE t == TemplateOf(c)
           paid == c.cumulativePay
           adjusted == AdjustedCumulative(c)
<1>1. /\ adjusted \in CoinSet /\ Covers(adjusted, paid) /\ paid \in CoinSet
      /\ t.minimum \in CoinSet /\ t.maximum \in CoinSet /\ t.amount \in CoinSet
  BY PayFacts DEF PayDefined, Contract, Template
<1>2. \A d \in Denom : /\ adjusted[d] \in Nat /\ paid[d] \in Nat /\ t.minimum[d] \in Nat
                       /\ t.maximum[d] \in Nat /\ t.amount[d] \in Nat
  BY <1>1 DEF CoinSet
<1>3. CASE Covers(paid, t.minimum)
  <2>1. \A d \in Denom : adjusted[d] >= paid[d] /\ paid[d] >= t.minimum[d]
    BY <1>1, <1>3 DEF Covers
  <2> HIDE DEF adjusted, paid, t
  <2> QED
    BY <1>2, <2>1 DEF Covers, adjusted, paid, t
<1>4. CASE paid = NoCoins
  <2> DEFINE cumulative == Add(paid, Discounted(c))
             low == AtLeastMinimum(c, cumulative)
  <2>1. \A d \in Denom : cumulative[d] = Discounted(c)[d]
    <3>1. \A d \in Denom : Discounted(c)[d] \in Int
      <4>1. \A d \in Denom : t.amount[d] >= Discount(c)[d] /\ Discounted(c)[d] = t.amount[d] - Discount(c)[d]
        BY DEF PayDefined, Covers, Discounted, Sub
      <4>2. \A d \in Denom : Discount(c)[d] \in Int
        BY DiscountType DEF CoinSet
      <4> QED
        BY <1>2, <4>1, <4>2
    <3> QED
      BY <1>4, <3>1 DEF Add, NoCoins
  <2>2. \A d \in Denom : low[d] =
          IF cumulative[d] # 0 /\ t.minimum[d] > cumulative[d]
          THEN t.minimum[d] ELSE cumulative[d]
    BY <1>4 DEF AtLeastMinimum
  <2>3. \A d \in Denom : adjusted[d] =
          IF t.maximum[d] # 0 /\ t.maximum[d] < low[d] THEN t.maximum[d] ELSE low[d]
    BY DEF AdjustedCumulative, AtMostMaximum
  <2>4. \A d \in Denom : /\ t.maximum[d] # 0 => t.minimum[d] <= t.maximum[d]
                         /\ t.minimum[d] # 0 => t.amount[d] # 0
    BY DEF ValidTemplate
  <2>5. Discounted(c) # NoCoins
    <3> SUFFICES ASSUME Discounted(c) = NoCoins PROVE FALSE
      OBVIOUS
    <3>1. \A d \in Denom : Discounted(c)[d] = 0
      BY DEF NoCoins
    <3> HIDE DEF adjusted, cumulative, low, t, paid
    <3>2. \A d \in Denom : adjusted[d] = 0
      BY <1>2, <2>1, <2>2, <2>3, <3>1
    <3>3. \A d \in Denom : paid[d] = 0
      BY <1>4 DEF NoCoins
    <3>4. \A d \in Denom : Pay(c)[d] = 0
      BY <3>2, <3>3 DEF Pay, Sub, adjusted, paid
    <3>5. Pay(c) = NoCoins
      BY <3>4 DEF Pay, Sub, NoCoins
    <3> QED
      BY <3>5
  <2>6. \A d \in Denom : t.amount[d] # 0 => cumulative[d] # 0
    BY <2>1, <2>5, DiscountInAll
  <2>7. \A d \in Denom : cumulative[d] \in Nat
    <3>1. \A d \in Denom : t.amount[d] >= Discount(c)[d] /\ Discount(c)[d] \in Nat
      BY DiscountType DEF PayDefined, Covers, CoinSet
    <3>2. \A d \in Denom : Discounted(c)[d] = t.amount[d] - Discount(c)[d]
      BY DEF Discounted, Sub
    <3> HIDE DEF t, cumulative
    <3> QED
      BY <1>2, <2>1, <3>1, <3>2
  <2> HIDE DEF adjusted, cumulative, low, t
  <2>8. \A d \in Denom : adjusted[d] >= t.minimum[d]
    BY <1>2, <2>2, <2>3, <2>4, <2>6, <2>7
  <2> QED
    BY <2>8 DEF Covers, adjusted, t
<1> QED
  BY <1>3, <1>4

\* Every recipient gets his share but for less than one coin.
LEMMA RemainderBound ==
  ASSUME NEW c \in Contract, TemplateOf(c) \in Template,
         PayDefined(c), CanTransfer(c), NEW d \in Denom
  PROVE  OutputToPool(c)[d] < Len(c.recipients) \/ OutputToPool(c)[d] = 0
<1> DEFINE D == DOMAIN c.recipients
           total == TotalInput(c)[d]
           exact == [i \in D |-> FractionOf(total, c.recipients[i].percentage)]
           out == [i \in D |-> Output(c, i)[d]]
           whole == [i \in D |-> Unit * out[i]]
           rest == [i \in D |-> Unit - 1]
           upper == [i \in D |-> whole[i] + rest[i]]
<1>1. /\ D = 1 .. Len(c.recipients) /\ Len(c.recipients) \in Nat
      /\ \A i \in D : c.recipients[i].percentage \in Nat
  <2>1. c.recipients \in Seq(Share)
    BY DEF Contract
  <2>2. D = 1 .. Len(c.recipients) /\ Len(c.recipients) \in Nat
    BY <2>1
  <2>3. \A i \in D : c.recipients[i] \in Share
    BY <2>1
  <2> QED
    BY <2>2, <2>3 DEF Share
<1>2. IsFiniteSet(D) /\ Cardinality(D) = Len(c.recipients)
  <2>1. /\ IsFiniteSet(1 .. Len(c.recipients))
        /\ Cardinality(1 .. Len(c.recipients)) = Len(c.recipients)
    BY <1>1, FS_Interval, SMT
  <2> QED
    BY <1>1, <2>1
<1>3. total \in Nat /\ OutputToPayees(c)[d] \in Nat /\ OutputToPool(c)[d] \in Nat
  BY OutputFacts DEF CoinSet
<1>4. Unit \in Nat \ {0}
  BY UnitAssumption
<1>5. \A i \in D : exact[i] \in Nat /\ out[i] = exact[i] \div Unit
  BY <1>1, <1>3, FractionType DEF Output, TruncateInt
<1>6. SumOf(exact, D) = total * Unit
  BY DEF CanTransfer, ExactDistribution, ToDec
<1>7. SumOf(out, D) = OutputToPayees(c)[d]
  BY DEF OutputToPayees
<1>8. OutputToPool(c)[d] = total - OutputToPayees(c)[d]
  BY DEF OutputToPool, Sub
<1> HIDE DEF total, exact, out, D
<1>9. ASSUME NEW i \in D
      PROVE  /\ out[i] \in Nat /\ whole[i] \in Nat /\ rest[i] \in Nat
             /\ whole[i] = Unit * out[i] /\ rest[i] = Unit - 1
             /\ upper[i] = whole[i] + rest[i] /\ upper[i] \in Nat
             /\ exact[i] <= upper[i]
  <2>1. /\ exact[i] \div Unit \in Nat /\ exact[i] % Unit \in 0 .. (Unit - 1)
        /\ exact[i] = Unit * (exact[i] \div Unit) + (exact[i] % Unit)
    BY <1>4, <1>5, Division
  <2>2. out[i] \in Nat /\ out[i] = exact[i] \div Unit
    BY <1>5, <2>1
  <2> DEFINE r == exact[i] % Unit
  <2>3. r \in 0 .. (Unit - 1) /\ exact[i] = Unit * out[i] + r
    BY <2>1, <2>2
  <2> HIDE DEF r
  <2>4. Unit * out[i] \in Nat
    BY <1>4, <2>2
  <2>5. whole[i] = Unit * out[i] /\ rest[i] = Unit - 1 /\ upper[i] = whole[i] + rest[i]
    OBVIOUS
  <2> QED
    BY <1>4, <2>2, <2>3, <2>4, <2>5
<1> HIDE DEF whole, rest, upper
<1>10. SumOf(exact, D) <= SumOf(upper, D)
  BY <1>2, <1>5, <1>9, SumMonotone
<1>11. SumOf(upper, D) = SumOf(whole, D) + SumOf(rest, D)
  BY <1>2, <1>9, SumPlus
<1>12. SumOf(whole, D) = Unit * SumOf(out, D)
  BY <1>2, <1>4, <1>9, SumTimes
<1>13. SumOf(rest, D) = Len(c.recipients) * (Unit - 1)
  <2>1. Unit - 1 \in Nat
    BY <1>4
  <2>2. \A i \in D : rest[i] = Unit - 1
    BY <1>9
  <2>3. SumOf(rest, D) = Cardinality(D) * (Unit - 1)
    BY <1>2, <2>1, <2>2, SumConstant
  <2> QED
    BY <1>2, <2>3
<1>14. SumOf(whole, D) \in Nat /\ SumOf(out, D) \in Nat
  BY <1>2, <1>9, SumType
<1> DEFINE m == Len(c.recipients)
           o == OutputToPayees(c)[d]
           s == SumOf(whole, D)
<1>15. /\ m \in Nat /\ o \in Nat /\ s \in Nat /\ total \in Nat
       /\ total * Unit <= s + m * (Unit - 1) /\ s <= Unit * o
  BY <1>1, <1>3, <1>6, <1>7, <1>10, <1>11, <1>12, <1>13, <1>14
<1> HIDE DEF m, o, s
<1>16. Unit * (total - o) <= m * (Unit - 1)
  BY <1>4, <1>15
<1>17. total - o < m \/ total - o <= 0
  <2> DEFINE k == total - o
  <2>1. k \in Int /\ Unit * k <= m * (Unit - 1)
    BY <1>15, <1>16
  <2> HIDE DEF k
  <2>2. SUFFICES ASSUME k >= m, k > 0 PROVE FALSE
    BY <1>15, <2>1 DEF k
  <2>3. Unit * m <= Unit * k
    BY <1>4, <1>15, <2>1, <2>2
  <2>4. m * (Unit - 1) = (Unit * m) - m /\ Unit * m \in Nat
    BY <1>4, <1>15
  <2>5. m <= 0
    BY <1>4, <1>15, <2>1, <2>3, <2>4
  <2>6. m = 0
    BY <1>15, <2>5
  <2>7. Unit * k <= 0
    BY <1>4, <2>1, <2>6
  <2>8. Unit * k > 0
    BY <1>4, <2>1, <2>2
  <2>9. Unit * k \in Int
    BY <1>4, <2>1
  <2> QED
    BY <2>7, <2>8, <2>9
<1> QED
  BY <1>3, <1>8, <1>15, <1>17 DEF m, o

-----------------------------------------------------------------------------
(***************************************************************************)
(* The invariant                                                           *)
(***************************************************************************)
TemplatesValid == \A id \in DOMAIN templates : ValidTemplate(templates[id])
MinimumPaid ==
  \A id \in DOMAIN contracts :
    \/ contracts[id].cumulativePay = NoCoins
    \/ Covers(contracts[id].cumulativePay, TemplateOf(contracts[id]).minimum)
PromiseInv ==
  PaymentsInv /\ TemplatesValid /\ MinimumPaid /\ RemainderIsSmall /\ CoinsConserved

\* The fields of a contract that its agreement, the pool and the limits are
\* about.
SameTerms(c, e) ==
  /\ c.template = e.template /\ c.payer = e.payer /\ c.recipients = e.recipients
  /\ c.canDeauthorise = e.canDeauthorise
  /\ c.cumulativePay = e.cumulativePay /\ c.currentRemainder = e.currentRemainder

LEMMA TermsUntouched ==
  ASSUME StoresAgree, MinimumPaid, RemainderIsSmall,
         \A i \in DOMAIN templates :
           i \in DOMAIN templates' /\ templates'[i] = templates[i],
         DOMAIN contracts' = DOMAIN contracts,
         \A i \in DOMAIN contracts : SameTerms(contracts'[i], contracts[i])
  PROVE  /\ MinimumPaid' /\ RemainderIsSmall'
         /\ \A i \in DOMAIN contracts : TemplateOf(contracts[i])' = TemplateOf(contracts[i])
<1>1. \A i \in DOMAIN contracts : TemplateOf(contracts[i])' = TemplateOf(contracts[i])
  BY DEF StoresAgree, TemplateOf, SameTerms
<1>2. MinimumPaid'
  BY <1>1 DEF MinimumPaid, SameTerms
<1>3. RemainderIsSmall'
  BY DEF RemainderIsSmall, SameTerms
<1> QED
  BY <1>1, <1>2, <1>3

\* If the authorisations stay as well, nobody has done anything.
LEMMA NothingAgreed ==
  ASSUME StoresAgree, MinimumPaid, RemainderIsSmall,
         \A i \in DOMAIN templates :
           i \in DOMAIN templates' /\ templates'[i] = templates[i],
         DOMAIN contracts' = DOMAIN contracts,
         \A i \in DOMAIN contracts :
           /\ SameTerms(contracts'[i], contracts[i])
           /\ contracts'[i].authorised = contracts[i].authorised
  PROVE  MinimumPaid' /\ RemainderIsSmall' /\ AllAgreements' = AllAgreements
<1>1. /\ MinimumPaid' /\ RemainderIsSmall'
      /\ \A i \in DOMAIN contracts : TemplateOf(contracts[i])' = TemplateOf(contracts[i])
  BY TermsUntouched
<1>2. \A i \in DOMAIN contracts : AgreementOf(contracts[i])' = AgreementOf(contracts[i])
  BY <1>1 DEF AgreementOf, SameTerms
<1> QED
  BY <1>1, <1>2 DEF AllAgreements

\* A payment keeps the terms of the agreement.
LEMMA PaymentKeepsTerms ==
  ASSUME PromiseInv, NEW id \in DOMAIN contracts,
         Effected(contracts[id]), Transfer(id), templates' = templates
  PROVE  MinimumPaid' /\ RemainderIsSmall' /\ Agreements!Pay(id)
<1> DEFINE c == contracts[id]
           t == TemplateOf(c)
<1>1. TypeOK /\ StoresAgree /\ TemplatesValid /\ MinimumPaid /\ RemainderIsSmall
  BY DEF PromiseInv, PaymentsInv
<1>2. /\ c \in Contract /\ t \in Template
      /\ c.cumulativePay \in CoinSet /\ c.currentRemainder \in CoinSet
  BY <1>1, ContractFacts
<1>3. /\ c.authorised /\ PayDefined(c) /\ CanTransfer(c) /\ Pay(c) # NoCoins
  BY DEF Effected, CanEffectPayment, CanTransfer
<1>4. ValidTemplate(t)
  BY <1>1 DEF TemplatesValid, StoresAgree, TemplateOf
<1>5. contracts' = [contracts EXCEPT ![id] =
        [c EXCEPT !.cumulativePay = AdjustedCumulative(c),
                  !.currentRemainder = OutputToPool(c)]]
  BY <1>2, <1>3, ContractAfterFacts DEF Transfer
<1>6. /\ DOMAIN contracts' = DOMAIN contracts
      /\ \A i \in DOMAIN contracts : i # id => contracts'[i] = contracts[i]
      /\ contracts'[id] = [c EXCEPT !.cumulativePay = AdjustedCumulative(c),
                                    !.currentRemainder = OutputToPool(c)]
  BY <1>5
<1>7. /\ contracts'[id].cumulativePay = AdjustedCumulative(c)
      /\ contracts'[id].currentRemainder = OutputToPool(c)
      /\ contracts'[id].template = c.template /\ contracts'[id].payer = c.payer
      /\ contracts'[id].recipients = c.recipients
      /\ contracts'[id].canDeauthorise = c.canDeauthorise
      /\ contracts'[id].authorised = c.authorised
  BY <1>2, <1>6 DEF Contract
<1>8. \A i \in DOMAIN contracts : TemplateOf(contracts[i])' = TemplateOf(contracts[i])
  BY <1>6, <1>7 DEF TemplateOf
<1>9. Covers(AdjustedCumulative(c), t.minimum)
  BY <1>1, <1>2, <1>3, <1>4, MinimumReached DEF MinimumPaid
<1>10. MinimumPaid'
  BY <1>1, <1>6, <1>7, <1>8, <1>9 DEF MinimumPaid
<1>11. \A d \in Denom : OutputToPool(c)[d] < Len(c.recipients) \/ OutputToPool(c)[d] = 0
  BY <1>2, <1>3, RemainderBound
<1>12. RemainderIsSmall'
  <2>1. ASSUME NEW i \in DOMAIN contracts, NEW d \in Denom
        PROVE  \/ contracts'[i].currentRemainder[d] < Len(contracts'[i].recipients)
               \/ contracts'[i].currentRemainder[d] = 0
    <3>1. CASE i = id
      BY <3>1, <1>7, <1>11
    <3>2. CASE i # id
      BY <3>2, <1>1, <1>6 DEF RemainderIsSmall
    <3> QED
      BY <3>1, <3>2
  <2> QED
    BY <2>1, <1>6 DEF RemainderIsSmall
<1> DEFINE before == AgreementOf(c)
           after == AllAgreements'[id]
<1>13. /\ DOMAIN AllAgreements = DOMAIN contracts /\ DOMAIN AllAgreements' = DOMAIN contracts
       /\ AllAgreements[id] = before
       /\ \A i \in DOMAIN contracts : i # id => AllAgreements'[i] = AllAgreements[i]
  BY <1>6, <1>8 DEF AllAgreements, AgreementOf
<1>14. after =
         [payer |-> c.payer, shares |-> Len(c.recipients), revocable |-> c.canDeauthorise,
          minimum |-> t.minimum, maximum |-> t.maximum,
          authorised |-> c.authorised, paid |-> AdjustedCumulative(c),
          received |-> Sub(AdjustedCumulative(c), OutputToPool(c))]
  <2>1. after = AgreementOf(contracts[id])'
    BY <1>6 DEF AllAgreements
  <2>2. TemplateOf(contracts[id])' = t
    BY <1>8
  <2> QED
    BY <1>7, <2>1, <2>2 DEF AgreementOf, Sub
<1>15. /\ before.paid = c.cumulativePay /\ before.authorised = c.authorised
       /\ before.received = Sub(c.cumulativePay, c.currentRemainder)
       /\ before.minimum = t.minimum /\ before.maximum = t.maximum
       /\ before.shares = Len(c.recipients)
  BY DEF AgreementOf
<1>16. /\ after.paid = AdjustedCumulative(c)
       /\ after.received = Sub(AdjustedCumulative(c), OutputToPool(c))
       /\ after.minimum = t.minimum /\ after.maximum = t.maximum
       /\ after.shares = Len(c.recipients)
       /\ DOMAIN after = DOMAIN before
       /\ \A f \in DOMAIN before \ {"paid", "received"} : after[f] = before[f]
  BY <1>14 DEF AgreementOf
<1>17. \A d \in Denom :
         /\ AdjustedCumulative(c)[d] \in Nat /\ c.cumulativePay[d] \in Nat
         /\ Pay(c)[d] \in Nat /\ OutputToPool(c)[d] \in Nat
         /\ c.currentRemainder[d] \in Nat /\ OutputToPayees(c)[d] \in Nat
         /\ AdjustedCumulative(c)[d] = c.cumulativePay[d] + Pay(c)[d]
         /\ OutputToPool(c)[d]
              = (Pay(c)[d] + c.currentRemainder[d]) - OutputToPayees(c)[d]
  <2>1. /\ AdjustedCumulative(c) \in CoinSet /\ Pay(c) \in CoinSet
        /\ Add(c.cumulativePay, Pay(c)) = AdjustedCumulative(c)
    BY <1>2, <1>3, PayFacts
  <2>2. OutputToPool(c) \in CoinSet /\ OutputToPayees(c) \in CoinSet
    BY <1>2, <1>3, OutputFacts
  <2>3. \A d \in Denom : AdjustedCumulative(c)[d] = c.cumulativePay[d] + Pay(c)[d]
    BY <2>1 DEF Add
  <2>4. \A d \in Denom : OutputToPool(c)[d]
              = (Pay(c)[d] + c.currentRemainder[d]) - OutputToPayees(c)[d]
    BY DEF OutputToPool, TotalInput, Add, Sub
  <2> QED
    BY <1>2, <2>1, <2>2, <2>3, <2>4 DEF CoinSet
<1> HIDE DEF before, after, c, t
<1>18. Covers(after.paid, before.paid) /\ Covers(after.received, before.received)
  <2>1. \A d \in Denom : after.paid[d] >= before.paid[d]
    BY <1>15, <1>16, <1>17
  <2>2. \A d \in Denom : /\ after.received[d] = AdjustedCumulative(c)[d] - OutputToPool(c)[d]
                         /\ before.received[d] = c.cumulativePay[d] - c.currentRemainder[d]
    BY <1>15, <1>16 DEF Sub
  <2>3. \A d \in Denom : after.received[d] >= before.received[d]
    BY <1>17, <2>2
  <2> QED
    BY <2>1, <2>3 DEF Covers
<1>19. after.paid # before.paid
  <2>1. PICK d \in Denom : Pay(c)[d] # 0
    BY <1>3 DEF Pay, Sub, NoCoins
  <2>2. after.paid[d] # before.paid[d]
    BY <1>15, <1>16, <1>17, <2>1
  <2> QED
    BY <2>2
<1>20. /\ Covers(after.paid, after.minimum) /\ Covers(after.paid, after.received)
       /\ \A d \in Denom : after.maximum[d] # 0 => after.paid[d] <= after.maximum[d]
       /\ \A d \in Denom : after.paid[d] # after.received[d] =>
            after.paid[d] - after.received[d] < after.shares
  <2>1. Covers(after.paid, after.minimum)
    BY <1>9, <1>16
  <2>2. \A d \in Denom : after.received[d] = AdjustedCumulative(c)[d] - OutputToPool(c)[d]
    BY <1>16 DEF Sub
  <2>3. \A d \in Denom : /\ after.paid[d] >= after.received[d]
                         /\ after.paid[d] - after.received[d] = OutputToPool(c)[d]
    BY <1>16, <1>17, <2>2
  <2>4. \A d \in Denom : after.paid[d] # after.received[d] =>
            after.paid[d] - after.received[d] < after.shares
    BY <1>11, <1>16, <1>17, <2>2, <2>3
  <2>5. \A d \in Denom : after.maximum[d] # 0 => after.paid[d] <= after.maximum[d]
    BY <1>2, <1>3, <1>16, PayFacts DEF t
  <2> QED
    BY <2>1, <2>3, <2>4, <2>5 DEF Covers
<1>21. Agreements!OnlyChanges(id)
  BY <1>13 DEF Agreements!OnlyChanges
<1>22. Agreements!OnlyFields({"paid", "received"}, id)
  BY <1>13, <1>16 DEF Agreements!OnlyFields, after
<1>23. Agreements!KeepsTerms(after)
  BY <1>20 DEF Agreements!KeepsTerms, Agreements!Covers, Covers
<1>24. Agreements!Pay(id)
  BY <1>3, <1>13, <1>15, <1>18, <1>19, <1>21, <1>23, <1>22
  DEF Agreements!Pay, Agreements!Covers, Covers, after, c
<1> QED
  BY <1>10, <1>12, <1>24

\* The step of OnlyAuthorisedPayments.
PaidByAuthority ==
  \A a \in Account, d \in Denom : funds'[a][d] < funds[a][d] =>
    \E id \in DOMAIN contracts :
      /\ contracts[id].payer = a /\ contracts[id].authorised
      /\ funds[a][d] - funds'[a][d]
           <= contracts'[id].cumulativePay[d] - contracts[id].cumulativePay[d]

LEMMA BankUntouched ==
  ASSUME PromiseInv, funds' = funds, pool' = pool
  PROVE  CoinsConserved' /\ PaidByAuthority
<1>1. CoinsConserved /\ TypeOK
  BY DEF PromiseInv, PaymentsInv
<1>2. \A a \in Account, d \in Denom : funds[a][d] \in Nat
  BY <1>1 DEF TypeOK, CoinSet
<1>3. PaidByAuthority
  BY <1>2 DEF PaidByAuthority
<1> QED
  BY <1>1, <1>3 DEF CoinsConserved

\* Coins move from the payer and the pool to the recipients and the pool.
LEMMA PaymentConserves ==
  ASSUME PromiseInv, NEW id \in DOMAIN contracts,
         Effected(contracts[id]), Transfer(id), templates' = templates
  PROVE  CoinsConserved' /\ PaidByAuthority
<1> DEFINE c == contracts[id]
<1>1. /\ TypeOK /\ StoresAgree /\ PoolIsRemainders /\ MaximumKept /\ CoinsConserved
  BY DEF PromiseInv, PaymentsInv
<1>2. /\ c \in Contract /\ TemplateOf(c) \in Template
      /\ c.cumulativePay \in CoinSet /\ c.currentRemainder \in CoinSet
  BY <1>1, ContractFacts
<1>3. c.authorised /\ PayDefined(c) /\ HasCoins(c) /\ CanTransfer(c)
  BY DEF Effected, CanEffectPayment
<1>4. /\ Pay(c) \in CoinSet /\ OutputToPool(c) \in CoinSet
      /\ OutputToPayees(c) \in CoinSet
      /\ \A a : OutputToAccount(c, a) \in CoinSet
      /\ contracts'[id].cumulativePay = AdjustedCumulative(c)
  <2>1. contracts' = [contracts EXCEPT ![id] =
          [c EXCEPT !.cumulativePay = AdjustedCumulative(c),
                    !.currentRemainder = OutputToPool(c)]]
    BY <1>2, <1>3, ContractAfterFacts DEF Transfer
  <2>2. contracts'[id].cumulativePay = AdjustedCumulative(c)
    BY <1>2, <2>1 DEF Contract
  <2> QED
    BY <1>2, <1>3, <2>2, PayFacts, OutputFacts
<1>5. c.payer \in Account /\ IsFiniteSet(Account) /\ Covers(pool, c.currentRemainder)
  BY <1>2, <1>3, PaymentAssumption DEF Contract, CanTransfer
<1>6. ASSUME NEW a \in Account, NEW d \in Denom
      PROVE  /\ funds[a][d] \in Nat /\ OutputToAccount(c, a)[d] \in Nat
             /\ funds'[a][d] =
                  (IF a = c.payer THEN funds[a][d] - Pay(c)[d] ELSE funds[a][d])
                     + OutputToAccount(c, a)[d]
             /\ a = c.payer => funds[a][d] - Pay(c)[d] \in Nat
             /\ Pay(c)[d] \in Nat
  <2>1. funds[a][d] \in Nat
    BY <1>1 DEF TypeOK, CoinSet
  <2>2. funds'[a] = Add(IF a = c.payer THEN Sub(funds[a], Pay(c)) ELSE funds[a],
                        OutputToAccount(c, a))
    BY DEF Transfer, FundsAfter
  <2>3. Pay(c)[d] \in Nat /\ OutputToAccount(c, a)[d] \in Nat
    BY <1>4 DEF CoinSet
  <2>4. a = c.payer => funds[a][d] >= Pay(c)[d]
    BY <1>3 DEF HasCoins, Covers
  <2>5. funds'[a][d] = (IF a = c.payer THEN Sub(funds[a], Pay(c))[d] ELSE funds[a][d])
                          + OutputToAccount(c, a)[d]
    BY <2>2 DEF Add
  <2>6. Sub(funds[a], Pay(c))[d] = funds[a][d] - Pay(c)[d]
    BY DEF Sub
  <2> HIDE DEF c
  <2> QED
    BY <2>1, <2>3, <2>4, <2>5, <2>6
<1>7. PaidByAuthority
  <2>1. ASSUME NEW a \in Account, NEW d \in Denom, funds'[a][d] < funds[a][d]
        PROVE  /\ contracts[id].payer = a /\ contracts[id].authorised
               /\ funds[a][d] - funds'[a][d]
                    <= contracts'[id].cumulativePay[d] - contracts[id].cumulativePay[d]
    <3>1. c.payer = a /\ funds[a][d] - funds'[a][d] <= Pay(c)[d]
      <4> HIDE DEF c
      <4> QED
        BY <1>6, <2>1
    <3>2. Pay(c)[d] = contracts'[id].cumulativePay[d] - contracts[id].cumulativePay[d]
      BY <1>4 DEF Pay, Sub
    <3> QED
      BY <1>3, <3>1, <3>2
  <2> QED
    BY <2>1 DEF PaidByAuthority
<1>8. ASSUME NEW d \in Denom
      PROVE  SumOf([a \in Account |-> funds[a][d]], Account)'
               = (SumOf([a \in Account |-> funds[a][d]], Account) - Pay(c)[d])
                    + OutputToPayees(c)[d]
  <2> DEFINE before == [a \in Account |-> funds[a][d]]
             rest == [a \in Account |-> IF a = c.payer THEN funds[a][d] - Pay(c)[d]
                                         ELSE funds[a][d]]
             received == [a \in Account |-> OutputToAccount(c, a)[d]]
             after == [a \in Account |-> funds'[a][d]]
             out == [i \in DOMAIN c.recipients |-> Output(c, i)[d]]
             holder == [i \in DOMAIN c.recipients |-> c.recipients[i].account]
  <2>1. \A a \in Account :
          /\ before[a] \in Nat /\ rest[a] \in Nat /\ received[a] \in Nat
          /\ after[a] = rest[a] + received[a]
    BY <1>6
  <2>2. /\ before[c.payer] = funds[c.payer][d]
        /\ rest[c.payer] = funds[c.payer][d] - Pay(c)[d]
        /\ \A a \in Account \ {c.payer} : rest[a] = before[a]
    BY <1>5
  <2>3. SumOf(received, Account) = OutputToPayees(c)[d]
    <3>1. IsFiniteSet(DOMAIN c.recipients) /\ \A i \in DOMAIN c.recipients : holder[i] \in Account
      <4>1. c.recipients \in Seq(Share)
        BY <1>2 DEF Contract
      <4>2. \A i \in DOMAIN c.recipients : c.recipients[i] \in Share
        BY <4>1
      <4>3. DOMAIN c.recipients = 1 .. Len(c.recipients) /\ Len(c.recipients) \in Nat
        BY <4>1
      <4>4. IsFiniteSet(1 .. Len(c.recipients))
        BY <4>3, FS_Interval, SMT
      <4> QED
        BY <4>2, <4>3, <4>4 DEF Share
    <3>2. \A i \in DOMAIN c.recipients : out[i] \in Nat
      BY <1>2, <1>3, OutputType
    <3>3. \A a \in Account : received[a] = SumOf(out, {i \in DOMAIN c.recipients : holder[i] = a})
      <4>1. ASSUME NEW a \in Account
            PROVE  received[a] = SumOf(out, {i \in DOMAIN c.recipients : c.recipients[i].account = a})
        BY DEF OutputToAccount
      <4>2. ASSUME NEW a \in Account
            PROVE  {i \in DOMAIN c.recipients : c.recipients[i].account = a}
                     = {i \in DOMAIN c.recipients : holder[i] = a}
        OBVIOUS
      <4> HIDE DEF out, holder, received
      <4> QED
        BY <4>1, <4>2
    <3>4. SumOf(out, DOMAIN c.recipients) = OutputToPayees(c)[d]
      BY DEF OutputToPayees
    <3> DEFINE D == DOMAIN c.recipients
               group == [a \in Account |-> {i \in D : holder[i] = a}]
    <3>5. /\ IsFiniteSet(D)
          /\ \A i \in D : holder[i] \in Account
          /\ \A i \in D : out[i] \in Nat
          /\ \A a \in Account : \A i : i \in group[a] <=> i \in D /\ holder[i] = a
          /\ \A a \in Account : received[a] = SumOf(out, group[a])
          /\ SumOf(out, D) = OutputToPayees(c)[d]
      BY <3>1, <3>2, <3>3, <3>4
    <3> HIDE DEF before, rest, after, out, holder, received, c, D, group
    <3>6. SumOf(received, Account) = SumOf(out, D)
      BY <1>5, <3>5, SumByGroup
    <3> QED
      BY <3>5, <3>6
  <2>4. SumOf(after, Account) = SumOf([a \in Account |-> funds[a][d]], Account)'
    OBVIOUS
  <2>5. Pay(c)[d] \in Nat /\ funds[c.payer][d] \in Nat
    BY <1>5, <1>6
  <2> DEFINE p == c.payer
             b == SumOf(before, Account)
             r == SumOf(rest, Account)
  <2>6. p \in Account /\ rest[p] = funds[p][d] - Pay(c)[d] /\ before[p] = funds[p][d]
    BY <1>5, <2>2
  <2>7. \A a \in Account \ {p} : rest[a] = before[a]
    BY <2>2
  <2>8. funds[p][d] \in Nat
    BY <2>5
  <2> HIDE DEF before, rest, received, after, c, p
  <2>9. r = b - before[p] + rest[p]
    BY <1>5, <2>1, <2>6, <2>7, SumUpdate
  <2>10. SumOf(after, Account) = r + SumOf(received, Account)
    BY <1>5, <2>1, SumPlus
  <2>11. b \in Nat /\ r \in Nat
    BY <1>5, <2>1, SumType
  <2>12. OutputToPayees(c)[d] \in Nat
    BY <1>4 DEF CoinSet, c
  <2> HIDE DEF b, r
  <2>13. r = b - Pay(c)[d]
    BY <2>5, <2>6, <2>8, <2>9, <2>11
  <2>14. SumOf(after, Account) = (b - Pay(c)[d]) + OutputToPayees(c)[d]
    BY <2>3, <2>10, <2>13
  <2> QED
    BY <2>4, <2>14 DEF b, before
<1>9. ASSUME NEW d \in Denom
      PROVE  /\ pool'[d] = (pool[d] - c.currentRemainder[d]) + OutputToPool(c)[d]
             /\ OutputToPool(c)[d] = (Pay(c)[d] + c.currentRemainder[d]) - OutputToPayees(c)[d]
             /\ pool[d] \in Nat /\ c.currentRemainder[d] \in Nat /\ Pay(c)[d] \in Nat
             /\ OutputToPayees(c)[d] \in Nat
             /\ SumOf([a \in Account |-> funds[a][d]], Account) \in Nat
  <2>1. pool'[d] = (pool[d] - c.currentRemainder[d]) + OutputToPool(c)[d]
    BY DEF Transfer, PoolAfter, Add, Sub
  <2>2. OutputToPool(c)[d] = (Pay(c)[d] + c.currentRemainder[d]) - OutputToPayees(c)[d]
    BY DEF OutputToPool, TotalInput, Add, Sub
  <2>3. pool[d] \in Nat
    BY <1>1 DEF TypeOK, CoinSet
  <2>4. SumOf([a \in Account |-> funds[a][d]], Account) \in Nat
    <3> DEFINE f == [a \in Account |-> funds[a][d]]
    <3>1. \A a \in Account : f[a] \in Nat
      BY <1>6
    <3> HIDE DEF f
    <3>2. SumOf(f, Account) \in Nat
      BY <1>5, <3>1, SumType
    <3> QED
      BY <3>2 DEF f
  <2> QED
    BY <1>2, <1>4, <2>1, <2>2, <2>3, <2>4 DEF CoinSet
<1>10. ASSUME NEW d \in Denom
       PROVE  SumOf([a \in Account |-> funds[a][d]], Account)' + pool'[d]
                = SumOf([a \in Account |-> InitialFunds[a][d]], Account)
  <2>1. SumOf([a \in Account |-> funds[a][d]], Account) + pool[d]
          = SumOf([a \in Account |-> InitialFunds[a][d]], Account)
    BY <1>1 DEF CoinsConserved
  <2> DEFINE b == SumOf([a \in Account |-> funds[a][d]], Account)
             e == SumOf([a \in Account |-> funds[a][d]], Account)'
  <2>2. e = (b - Pay(c)[d]) + OutputToPayees(c)[d] /\ b \in Nat
    BY <1>8, <1>9
  <2>3. b + pool[d] = SumOf([a \in Account |-> InitialFunds[a][d]], Account)
    BY <2>1
  <2> DEFINE k == c.currentRemainder[d]
             o == OutputToPayees(c)[d]
             q == OutputToPool(c)[d]
             m == Pay(c)[d]
  <2>4. /\ pool'[d] = (pool[d] - k) + q /\ q = (m + k) - o /\ e = (b - m) + o
        /\ pool[d] \in Nat /\ k \in Nat /\ m \in Nat /\ o \in Nat /\ b \in Nat
    BY <1>9, <2>2
  <2> HIDE DEF b, e, k, o, q, m
  <2>5. e + pool'[d] = b + pool[d]
    BY <2>4
  <2> QED
    BY <2>3, <2>5 DEF e
<1> QED
  BY <1>7, <1>10 DEF CoinsConserved

-----------------------------------------------------------------------------
(***************************************************************************)
(* Every step is a step of the agreements, or none                         *)
(***************************************************************************)
\* What has to be shown of a step, the invariant of Payments_proofs apart.
Promised ==
  /\ TemplatesValid' /\ MinimumPaid' /\ RemainderIsSmall' /\ CoinsConserved'
  /\ Agreements!Next \/ UNCHANGED AllAgreements
  /\ PaidByAuthority

LEMMA UntouchedPromised ==
  ASSUME PromiseInv, templates' = templates, contracts' = contracts,
         funds' = funds, pool' = pool
  PROVE  Promised
<1>1. StoresAgree /\ TemplatesValid /\ MinimumPaid /\ RemainderIsSmall
  BY DEF PromiseInv, PaymentsInv
<1>2. \A i \in DOMAIN contracts :
        /\ SameTerms(contracts'[i], contracts[i])
        /\ contracts'[i].authorised = contracts[i].authorised
  BY DEF SameTerms
<1>3. MinimumPaid' /\ RemainderIsSmall' /\ AllAgreements' = AllAgreements
  BY <1>1, <1>2, NothingAgreed
<1> QED
  BY <1>1, <1>3, BankUntouched DEF Promised, TemplatesValid

LEMMA CreatePaymentTemplatePromised ==
  ASSUME PromiseInv, NEW id \in TemplateId, NEW t \in TemplateTerms,
         CreatePaymentTemplate(id, t)
  PROVE  Promised
<1>1. StoresAgree /\ TemplatesValid /\ MinimumPaid /\ RemainderIsSmall
  BY DEF PromiseInv, PaymentsInv
<1>2. /\ templates' = Store(templates, id, t) /\ id \notin DOMAIN templates
      /\ ValidTemplate(t) /\ contracts' = contracts
  BY DEF CreatePaymentTemplate
<1>3. /\ DOMAIN templates' = DOMAIN templates \cup {id} /\ templates'[id] = t
      /\ \A i \in DOMAIN templates : templates'[i] = templates[i]
  <2>1. /\ DOMAIN Store(templates, id, t) = DOMAIN templates \cup {id}
        /\ Store(templates, id, t)[id] = t
        /\ \A i \in DOMAIN templates : i # id => Store(templates, id, t)[i] = templates[i]
    BY DEF Store
  <2> QED
    BY <1>2, <2>1
<1>4. TemplatesValid'
  <2>1. ASSUME NEW i \in DOMAIN templates' PROVE ValidTemplate(templates'[i])
    BY <1>1, <1>2, <1>3 DEF TemplatesValid
  <2> QED
    BY <2>1 DEF TemplatesValid, ValidTemplate
<1>5. \A i \in DOMAIN contracts :
        /\ SameTerms(contracts'[i], contracts[i])
        /\ contracts'[i].authorised = contracts[i].authorised
  BY <1>2 DEF SameTerms
<1>6. MinimumPaid' /\ RemainderIsSmall' /\ AllAgreements' = AllAgreements
  BY <1>1, <1>2, <1>3, <1>5, NothingAgreed
<1>7. CoinsConserved' /\ PaidByAuthority
  BY BankUntouched DEF CreatePaymentTemplate, bank
<1> QED
  BY <1>4, <1>6, <1>7 DEF Promised

LEMMA CreatePaymentContractPromised ==
  ASSUME PromiseInv, NEW id \in ContractId, NEW t \in ContractTerms,
         CreatePaymentContract(id, t)
  PROVE  Promised
<1> DEFINE c == [t EXCEPT !.authorised = FALSE,
                          !.cumulativePay = NoCoins, !.currentRemainder = NoCoins]
<1>1. StoresAgree /\ TemplatesValid /\ MinimumPaid /\ RemainderIsSmall
  BY DEF PromiseInv, PaymentsInv
<1>2. /\ contracts' = Store(contracts, id, c) /\ id \notin DOMAIN contracts
      /\ templates' = templates
  BY DEF CreatePaymentContract
<1>3. t \in Contract
  BY PaymentAssumption
<1>4. /\ ~c.authorised
      /\ c.cumulativePay = NoCoins /\ c.currentRemainder = NoCoins
  BY <1>3 DEF Contract
<1> HIDE DEF c
<1>5. /\ DOMAIN contracts' = DOMAIN contracts \cup {id} /\ contracts'[id] = c
      /\ \A i \in DOMAIN contracts : contracts'[i] = contracts[i]
  <2>1. /\ DOMAIN Store(contracts, id, c) = DOMAIN contracts \cup {id}
        /\ Store(contracts, id, c)[id] = c
        /\ \A i \in DOMAIN contracts : i # id => Store(contracts, id, c)[i] = contracts[i]
    BY DEF Store
  <2> QED
    BY <1>2, <2>1
<1>6. TemplatesValid'
  BY <1>1, <1>2 DEF TemplatesValid
<1>7. MinimumPaid'
  <2>1. ASSUME NEW i \in DOMAIN contracts'
        PROVE  \/ contracts'[i].cumulativePay = NoCoins
               \/ Covers(contracts'[i].cumulativePay, TemplateOf(contracts[i])'.minimum)
    <3>1. CASE i = id
      BY <3>1, <1>4, <1>5
    <3>2. CASE i # id
      <4>1. contracts'[i] = contracts[i] /\ i \in DOMAIN contracts
        BY <3>2, <1>5
      <4>2. TemplateOf(contracts[i])' = TemplateOf(contracts[i])
        BY <4>1, <1>2 DEF TemplateOf
      <4> QED
        BY <4>1, <4>2, <1>1 DEF MinimumPaid
    <3> QED
      BY <3>1, <3>2
  <2> QED
    BY <2>1 DEF MinimumPaid, Covers
<1>8. RemainderIsSmall'
  <2>1. ASSUME NEW i \in DOMAIN contracts', NEW d \in Denom
        PROVE  \/ contracts'[i].currentRemainder[d] < Len(contracts'[i].recipients)
               \/ contracts'[i].currentRemainder[d] = 0
    <3>1. CASE i = id
      BY <3>1, <1>4, <1>5 DEF NoCoins
    <3>2. CASE i # id
      BY <3>2, <1>1, <1>5 DEF RemainderIsSmall
    <3> QED
      BY <3>1, <3>2
  <2> QED
    BY <2>1 DEF RemainderIsSmall
<1>9. Agreements!Agree(id)
  <2>1. /\ DOMAIN AllAgreements = DOMAIN contracts
        /\ DOMAIN AllAgreements' = DOMAIN AllAgreements \cup {id}
    BY <1>5 DEF AllAgreements
  <2>2. \A i \in DOMAIN contracts : AllAgreements'[i] = AllAgreements[i]
    <3>1. \A i \in DOMAIN contracts : TemplateOf(contracts[i])' = TemplateOf(contracts[i])
      BY <1>2, <1>5 DEF TemplateOf
    <3> QED
      BY <1>5, <3>1 DEF AllAgreements, AgreementOf
  <2>3. /\ ~AllAgreements'[id].authorised
        /\ AllAgreements'[id].paid = NoCoins /\ AllAgreements'[id].received = NoCoins
    <3>1. AllAgreements'[id] = AgreementOf(contracts[id])'
      BY <1>5 DEF AllAgreements
    <3>2. Sub(NoCoins, NoCoins) = NoCoins
      BY DEF Sub, NoCoins
    <3> QED
      BY <1>4, <1>5, <3>1, <3>2 DEF AgreementOf, Sub
  <2> QED
    BY <1>2, <2>1, <2>2, <2>3
    DEF Agreements!Agree, Agreements!OnlyChanges, Agreements!NoCoins, NoCoins
<1>10. CoinsConserved' /\ PaidByAuthority
  BY BankUntouched DEF CreatePaymentContract, bank
<1> QED
  BY <1>6, <1>7, <1>8, <1>9, <1>10 DEF Promised, Agreements!Next

LEMMA SetAuthorisationPromised ==
  ASSUME PromiseInv, NEW sender, NEW id \in ContractId, NEW b \in BOOLEAN,
         SetPaymentContractAuthorisation(sender, id, b)
  PROVE  Promised
<1>1. TypeOK /\ StoresAgree /\ TemplatesValid /\ MinimumPaid /\ RemainderIsSmall
  BY DEF PromiseInv, PaymentsInv
<1>2. /\ id \in DOMAIN contracts /\ (b \/ contracts[id].canDeauthorise)
      /\ contracts' = [contracts EXCEPT ![id].authorised = b]
      /\ templates' = templates /\ funds' = funds /\ pool' = pool
  BY DEF SetPaymentContractAuthorisation, bank
<1>3. contracts[id] \in Contract
  BY <1>1, <1>2 DEF TypeOK
<1>4. /\ DOMAIN contracts' = DOMAIN contracts
      /\ SameTerms(contracts'[id], contracts[id]) /\ contracts'[id].authorised = b
      /\ \A i \in DOMAIN contracts : i # id => contracts'[i] = contracts[i]
  BY <1>2, <1>3 DEF Contract, SameTerms
<1>5. \A i \in DOMAIN contracts : SameTerms(contracts'[i], contracts[i])
  BY <1>4 DEF SameTerms
<1>6. /\ MinimumPaid' /\ RemainderIsSmall'
      /\ \A i \in DOMAIN contracts : TemplateOf(contracts[i])' = TemplateOf(contracts[i])
  BY <1>1, <1>2, <1>4, <1>5, TermsUntouched
<1>7. CoinsConserved' /\ PaidByAuthority
  BY <1>2, BankUntouched
<1>8. Agreements!Next \/ UNCHANGED AllAgreements
  <2>1. CASE contracts[id].authorised /\ ~contracts[id].canDeauthorise
    <3>1. \A i \in DOMAIN contracts :
            /\ SameTerms(contracts'[i], contracts[i])
            /\ contracts'[i].authorised = contracts[i].authorised
      BY <1>2, <1>3, <1>4, <1>5, <2>1 DEF Contract
    <3> QED
      BY <1>1, <1>2, <1>4, <3>1, NothingAgreed
  <2>2. CASE contracts[id].authorised => contracts[id].canDeauthorise
    <3>1. /\ DOMAIN AllAgreements = DOMAIN contracts
          /\ DOMAIN AllAgreements' = DOMAIN contracts
          /\ AllAgreements[id] = AgreementOf(contracts[id])
          /\ AllAgreements'[id] = AgreementOf(contracts[id])'
      BY <1>2, <1>4 DEF AllAgreements
    <3>2. \A i \in DOMAIN contracts : i # id => AllAgreements'[i] = AllAgreements[i]
      <4>1. \A i \in DOMAIN contracts : i # id => AgreementOf(contracts[i])' = AgreementOf(contracts[i])
        BY <1>4, <1>6 DEF AgreementOf
      <4> QED
        BY <1>4, <4>1 DEF AllAgreements
    <3>3. /\ AllAgreements[id].authorised = contracts[id].authorised
          /\ AllAgreements[id].revocable = contracts[id].canDeauthorise
      BY <3>1 DEF AgreementOf
    <3>4. Agreements!OnlyFields({"authorised"}, id)
      <4>1. DOMAIN AgreementOf(contracts[id])' = DOMAIN AgreementOf(contracts[id])
        BY DEF AgreementOf
      <4>2. \A f \in DOMAIN AgreementOf(contracts[id]) \ {"authorised"} :
              AgreementOf(contracts[id])'[f] = AgreementOf(contracts[id])[f]
        BY <1>2, <1>4, <1>6 DEF AgreementOf, SameTerms
      <4> QED
        BY <3>1, <4>1, <4>2 DEF Agreements!OnlyFields
    <3>5. Agreements!OnlyChanges(id)
      BY <1>2, <3>1, <3>2 DEF Agreements!OnlyChanges
    <3>6. Agreements!Authorise(id)
      BY <1>2, <2>2, <3>1, <3>3, <3>4, <3>5 DEF Agreements!Authorise
    <3> QED
      BY <3>6 DEF Agreements!Next
  <2> QED
    BY <2>1, <2>2
<1> QED
  BY <1>1, <1>2, <1>6, <1>7, <1>8 DEF Promised, TemplatesValid

\* A discount changes what is paid, not what was agreed.
LEMMA DiscountPromised ==
  ASSUME PromiseInv, NEW id \in DOMAIN contracts, NEW discount,
         contracts' = [contracts EXCEPT ![id].discountId = discount],
         templates' = templates, funds' = funds, pool' = pool
  PROVE  Promised
<1>1. TypeOK /\ StoresAgree /\ TemplatesValid /\ MinimumPaid /\ RemainderIsSmall
  BY DEF PromiseInv, PaymentsInv
<1>2. contracts[id] \in Contract
  BY <1>1 DEF TypeOK
<1>3. /\ DOMAIN contracts' = DOMAIN contracts
      /\ \A i \in DOMAIN contracts :
           /\ SameTerms(contracts'[i], contracts[i])
           /\ contracts'[i].authorised = contracts[i].authorised
  BY <1>2 DEF Contract, SameTerms
<1>4. MinimumPaid' /\ RemainderIsSmall' /\ AllAgreements' = AllAgreements
  BY <1>1, <1>3, NothingAgreed
<1> QED
  BY <1>1, <1>4, BankUntouched DEF Promised, TemplatesValid

LEMMA PaymentPromised ==
  ASSUME PromiseInv, NEW id \in DOMAIN contracts,
         Effected(contracts[id]), Transfer(id), templates' = templates
  PROVE  Promised
<1>1. id \in ContractId /\ TemplatesValid
  BY DEF PromiseInv, PaymentsInv, TypeOK
<1>2. MinimumPaid' /\ RemainderIsSmall' /\ Agreements!Pay(id)
  BY PaymentKeepsTerms
<1>3. CoinsConserved' /\ PaidByAuthority
  BY PaymentConserves
<1> QED
  BY <1>1, <1>2, <1>3 DEF Promised, TemplatesValid, Agreements!Next

LEMMA TransactionPromised ==
  ASSUME PromiseInv, Transaction
  PROVE  Promised
<1>1. ASSUME NEW id \in TemplateId, NEW t \in TemplateTerms, CreatePaymentTemplate(id, t)
      PROVE  Promised
  BY <1>1, CreatePaymentTemplatePromised
<1>2. ASSUME NEW id \in ContractId, NEW t \in ContractTerms, CreatePaymentContract(id, t)
      PROVE  Promised
  BY <1>2, CreatePaymentContractPromised
<1>3. ASSUME NEW a \in Account, NEW id \in ContractId, NEW b \in BOOLEAN,
             SetPaymentContractAuthorisation(a, id, b)
      PROVE  Promised
  BY <1>3, SetAuthorisationPromised
<1>4. ASSUME NEW a \in Account, NEW id \in 1 .. Subscriptions,
             NEW t \in SubscriptionTerms, CreateSubscription(a, id, t)
      PROVE  Promised
  BY <1>4, UntouchedPromised DEF CreateSubscription, bank
<1>5. ASSUME NEW a \in Account, NEW id \in ContractId, NEW i \in DiscountId,
             GrantDiscount(a, id, i)
      PROVE  Promised
  BY <1>5, DiscountPromised DEF GrantDiscount, bank
<1>6. ASSUME NEW a \in Account, NEW id \in ContractId, RevokeDiscount(a, id)
      PROVE  Promised
  BY <1>6, DiscountPromised DEF RevokeDiscount, bank
<1>7. ASSUME NEW a \in Account, NEW id \in ContractId, EffectPayment(a, id)
      PROVE  Promised
  BY <1>7, PaymentPromised DEF EffectPayment
<1> QED
  BY <1>1, <1>2, <1>3, <1>4, <1>5, <1>6, <1>7 DEF Transaction

LEMMA EndBlockerPromised ==
  ASSUME PromiseInv, EndBlocker
  PROVE  Promised
<1>1. CASE BeginEndBlock
  BY <1>1, UntouchedPromised DEF BeginEndBlock, stores, bank
<1>2. ASSUME NEW id \in 1 .. Subscriptions, SkipSubscription(id)
      PROVE  Promised
  BY <1>2, UntouchedPromised DEF SkipSubscription, stores, bank
<1>3. ASSUME NEW id \in 1 .. Subscriptions, EffectSubscriptionPayment(id)
      PROVE  Promised
  <2>1. subscriptions[id].contract \in DOMAIN contracts
    BY <1>3 DEF EffectSubscriptionPayment, Due, PromiseInv, PaymentsInv, StoresAgree
  <2> QED
    BY <1>3, <2>1, PaymentPromised DEF EffectSubscriptionPayment, ContractDue
<1>4. ASSUME NEW id \in 1 .. Subscriptions, MissSubscriptionPayment(id)
      PROVE  Promised
  BY <1>4, UntouchedPromised DEF MissSubscriptionPayment, bank
<1>5. ASSUME NEW id \in 1 .. Subscriptions, Panic(id)
      PROVE  Promised
  BY <1>5, UntouchedPromised DEF Panic, stores, bank
<1>6. ASSUME NEW later \in BlockTimes, NextBlock(later)
      PROVE  Promised
  BY <1>6, UntouchedPromised DEF NextBlock, stores, bank
<1> QED
  BY <1>1, <1>2, <1>3, <1>4, <1>5, <1>6 DEF EndBlocker

LEMMA StepPromised ==
  ASSUME PromiseInv, [Next]_vars
  PROVE  PromiseInv' /\ Promised
<1>1. PaymentsInv'
  BY TransactionInv, EndBlockerInv, StutterInv DEF PromiseInv, Next
<1>2. ASSUME UNCHANGED vars PROVE Promised
  BY <1>2, UntouchedPromised DEF vars, stores, bank
<1>3. Promised
  BY <1>2, TransactionPromised, EndBlockerPromised DEF Next
<1> QED
  BY <1>1, <1>3 DEF Promised, PromiseInv

LEMMA InitPromise == Init => PromiseInv /\ Agreements!Init
<1> SUFFICES ASSUME Init PROVE PromiseInv /\ Agreements!Init
  OBVIOUS
<1>1. PaymentsInv
  BY InitPaymentsInv
<1>2. TemplatesValid /\ MinimumPaid /\ RemainderIsSmall
  BY DEF Init, Empty, TemplatesValid, MinimumPaid, RemainderIsSmall
<1>3. CoinsConserved
  <2>1. ASSUME NEW d \in Denom
        PROVE  /\ SumOf([a \in Account |-> InitialFunds[a][d]], Account) \in Nat
               /\ pool[d] = 0
    <3> DEFINE f == [a \in Account |-> InitialFunds[a][d]]
    <3>1. \A a \in Account : f[a] \in Nat
      BY PaymentAssumption DEF CoinSet
    <3> HIDE DEF f
    <3>2. SumOf(f, Account) \in Nat
      BY <3>1, PaymentAssumption, SumType
    <3> QED
      BY <3>2 DEF f, Init, NoCoins
  <2>2. funds = InitialFunds
    BY DEF Init
  <2> QED
    BY <2>1, <2>2 DEF CoinsConserved
<1>4. Agreements!Init
  BY DEF Init, Empty, AllAgreements, Agreements!Init, Agreements!Empty
<1> QED
  BY <1>1, <1>2, <1>3, <1>4 DEF PromiseInv

-----------------------------------------------------------------------------
(***************************************************************************)
(* What EndBlocker can fail on                                             *)
(***************************************************************************)
\* A percentage is at most the whole.
LEMMA FractionBelowOne ==
  ASSUME NEW p \in 1 .. HundredPercent
  PROVE  Fraction(p) \in 0 .. Unit
<1> DEFINE h == HundredPercent
           w == Unit * Unit
           m == (p * w) \div h
<1>1. h \in Nat \ {0} /\ Unit \in Nat \ {0} /\ w \in Nat \ {0} /\ p \in Nat /\ p <= h
  BY HundredPositive, UnitAssumption
<1>2. p * w \in Nat /\ p * w <= h * w
  <2> HIDE DEF w, h
  <2>1. h - p \in Nat
    BY <1>1
  <2>2. (h - p) * w \in Nat
    BY <1>1, <2>1
  <2>3. (h - p) * w = h * w - p * w
    BY <1>1
  <2>4. p * w \in Nat /\ h * w \in Nat
    BY <1>1
  <2> QED
    BY <2>2, <2>3, <2>4
<1>3. m \in Nat /\ m <= w
  <2> DEFINE n == p * w
  <2>1. n \in Nat /\ n <= h * w
    BY <1>2
  <2> HIDE DEF n, h, w
  <2>2. n \div h \in Nat /\ h * (n \div h) <= n
    BY <1>1, <2>1, Division
  <2> DEFINE q == n \div h
  <2>3. q \in Nat /\ h * q <= h * w
    BY <1>1, <2>1, <2>2
  <2> HIDE DEF q
  <2>4. SUFFICES ASSUME w < q PROVE FALSE
    BY <1>1, <2>3 DEF q, n
  <2>5. q - w \in Nat \ {0}
    BY <1>1, <2>3, <2>4
  <2>6. h * (q - w) > 0 /\ h * (q - w) = h * q - h * w
    BY <1>1, <2>3, <2>5
  <2>7. h * q \in Nat /\ h * w \in Nat
    BY <1>1, <2>3
  <2> QED
    BY <2>3, <2>6, <2>7
<1>4. Fraction(p) = RoundHalfEven(m)
  <2>1. p * Unit * Unit = p * w /\ p * Unit * Unit >= 0
    BY <1>1, <1>2
  <2>2. QuoTrunc(p * Unit * Unit, h) = m
    BY <2>1 DEF QuoTrunc
  <2> HIDE DEF m, h, w
  <2> QED
    BY <1>3, <2>2 DEF Fraction, Quo, ChopPrecisionAndRound, h
<1>5. RoundHalfEven(m) \in 0 .. Unit
  <2> DEFINE q == m \div Unit
             r == m % Unit
  <2>1. q \in Nat /\ r \in 0 .. (Unit - 1) /\ m = Unit * q + r
    BY <1>1, <1>3, Division
  <2>2. RoundHalfEven(m) \in {q, q + 1} /\ (r = 0 => RoundHalfEven(m) = q)
    BY <1>1, <2>1 DEF RoundHalfEven
  <2>3. Unit * q + r <= Unit * Unit
    BY <1>3, <2>1
  <2> HIDE DEF q, r, m
  <2>4. q <= Unit
    <3>1. SUFFICES ASSUME Unit < q PROVE FALSE
      BY <1>1, <2>1
    <3>2. q - Unit \in Nat \ {0}
      BY <1>1, <2>1, <3>1
    <3>3. Unit * (q - Unit) > 0 /\ Unit * (q - Unit) = Unit * q - Unit * Unit
      BY <1>1, <2>1, <3>2
    <3>4. Unit * q \in Nat /\ Unit * Unit \in Nat
      BY <1>1, <2>1
    <3> QED
      BY <2>1, <2>3, <3>3, <3>4
  <2>5. q = Unit => r = 0
    BY <1>1, <2>1, <2>3
  <2> QED
    BY <1>1, <2>1, <2>2, <2>4, <2>5
<1> QED
  BY <1>4, <1>5

\* No discount exceeds the amount.
LEMMA DiscountBelowAmount ==
  ASSUME NEW c \in Contract, TemplateOf(c) \in Template, ValidTemplate(TemplateOf(c)),
         DiscountKnown(c), NEW d \in Denom
  PROVE  Discount(c)[d] \in Nat /\ Discount(c)[d] <= TemplateOf(c).amount[d]
<1> DEFINE t == TemplateOf(c)
           n == t.amount[d]
<1>1. n \in Nat
  BY DEF Template, CoinSet
<1>2. CASE c.discountId = 0
  BY <1>1, <1>2 DEF Discount, NoCoins
<1>3. CASE c.discountId # 0
  <2> DEFINE p == t.discounts[c.discountId]
             F == Fraction(p)
  <2>1. p \in 1 .. HundredPercent
    BY <1>3 DEF DiscountKnown, DiscountIdExists, ValidTemplate
  <2>2. F \in Nat /\ F <= Unit /\ Unit \in Nat \ {0}
    BY <2>1, FractionBelowOne, UnitAssumption
  <2>3. Discount(c)[d] = TruncateInt(Mul(ToDec(n), F))
    BY <1>3 DEF Discount, FractionOf
  <2> HIDE DEF n, F, p
  <2>4. Mul(ToDec(n), F) = n * F /\ n * F \in Nat
    BY <1>1, <2>2, MulByInteger
  <2>5. Unit * TruncateInt(n * F) <= n * F /\ TruncateInt(n * F) \in Nat
    BY <2>4, TruncateBelow, CeilType
  <2>6. n * F <= n * Unit
    <3>1. Unit - F \in Nat
      BY <2>2
    <3>2. n * (Unit - F) \in Nat /\ n * (Unit - F) = n * Unit - n * F
      BY <1>1, <2>2, <3>1
    <3>3. n * F \in Nat /\ n * Unit \in Nat
      BY <1>1, <2>2
    <3> QED
      BY <3>2, <3>3
  <2> DEFINE v == TruncateInt(n * F)
  <2>7. v \in Nat /\ Unit * v <= n * Unit
    BY <1>1, <2>2, <2>4, <2>5, <2>6
  <2> HIDE DEF v
  <2>8. v <= n
    <3>1. SUFFICES ASSUME n < v PROVE FALSE
      BY <1>1, <2>7
    <3>2. v - n \in Nat \ {0}
      BY <1>1, <2>7, <3>1
    <3>3. Unit * (v - n) > 0 /\ Unit * (v - n) = Unit * v - n * Unit
      BY <1>1, <2>2, <2>7, <3>2
    <3>4. Unit * v \in Nat /\ n * Unit \in Nat
      BY <1>1, <2>2, <2>7
    <3> QED
      BY <2>7, <3>3, <3>4
  <2> QED
    BY <2>3, <2>4, <2>7, <2>8 DEF v, n
<1> QED
  BY <1>2, <1>3

\* Something can be paid as long as the maximum has not been reached and the
\* discount leaves something.
LEMMA SomethingToPay ==
  ASSUME NEW c \in Contract, TemplateOf(c) \in Template, ValidTemplate(TemplateOf(c)),
         CanEffectPayment(c), DiscountKnown(c), Discounted(c) # NoCoins,
         \A d \in Denom : TemplateOf(c).maximum[d] # 0 =>
           c.cumulativePay[d] <= TemplateOf(c).maximum[d]
  PROVE  PayDefined(c) /\ Pay(c) # NoCoins
<1> DEFINE t == TemplateOf(c)
           paid == c.cumulativePay
           cumulative == Add(paid, Discounted(c))
           low == AtLeastMinimum(c, cumulative)
           adjusted == AdjustedCumulative(c)
<1>1. \A d \in Denom : /\ paid[d] \in Nat /\ t.minimum[d] \in Nat
                       /\ t.maximum[d] \in Nat /\ t.amount[d] \in Nat
  BY DEF Contract, Template, CoinSet
<1>2. \A d \in Denom : /\ Discounted(c)[d] \in Nat /\ t.amount[d] >= Discount(c)[d]
                       /\ cumulative[d] = paid[d] + Discounted(c)[d]
  <2>1. \A d \in Denom : Discounted(c)[d] = t.amount[d] - Discount(c)[d]
    BY DEF Discounted, Sub
  <2>2. \A d \in Denom : Discount(c)[d] \in Nat /\ Discount(c)[d] <= t.amount[d]
    BY DiscountBelowAmount
  <2>3. \A d \in Denom : cumulative[d] = paid[d] + Discounted(c)[d]
    BY DEF Add
  <2> HIDE DEF t, paid, cumulative
  <2> QED
    BY <1>1, <2>1, <2>2, <2>3
<1>3. \A d \in Denom : \/ low[d] = t.minimum[d] /\ t.minimum[d] > cumulative[d]
                       \/ low[d] = cumulative[d]
  BY DEF AtLeastMinimum
<1>4. \A d \in Denom : adjusted[d] =
        IF t.maximum[d] # 0 /\ t.maximum[d] < low[d] THEN t.maximum[d] ELSE low[d]
  BY DEF AdjustedCumulative, AtMostMaximum
<1>5. \A d \in Denom : t.maximum[d] # 0 => paid[d] <= t.maximum[d] /\ paid[d] # t.maximum[d]
  <2> SUFFICES ASSUME NEW d \in Denom, t.maximum[d] # 0
               PROVE  paid[d] <= t.maximum[d] /\ paid[d] # t.maximum[d]
    OBVIOUS
  <2>1. MaximumLeft(c)
    BY DEF CanEffectPayment, NoCoins
  <2>2. paid[d] # 0 => t.maximum[d] > paid[d]
    BY <2>1 DEF MaximumLeft
  <2> HIDE DEF t, paid
  <2>3. paid[d] # t.maximum[d]
    BY <1>1, <2>2
  <2> QED
    BY <2>3 DEF t, paid
<1> HIDE DEF t, paid, cumulative, low, adjusted
<1>6. \A d \in Denom : /\ adjusted[d] >= paid[d]
                       /\ Discounted(c)[d] # 0 => adjusted[d] # paid[d]
  BY <1>1, <1>2, <1>3, <1>4, <1>5
<1>7. PayDefined(c)
  BY <1>2, <1>6 DEF PayDefined, Covers, t, paid, adjusted
<1>8. PICK d \in Denom : Discounted(c)[d] # 0
  BY DEF Discounted, Sub, NoCoins
<1>9. Pay(c)[d] = adjusted[d] - paid[d]
  BY DEF Pay, Sub, adjusted, paid
<1>10. adjusted[d] \in Nat
  BY <1>1, <1>2, <1>3, <1>4
<1>11. Pay(c)[d] # 0
  BY <1>1, <1>6, <1>8, <1>9, <1>10
<1> QED
  BY <1>7, <1>11 DEF NoCoins

\* Shares that make up the whole make up the whole of every amount, and what
\* they come to in coins does not exceed it.
LEMMA SharesAddUp ==
  ASSUME NEW c \in Contract, TemplateOf(c) \in Template, PayDefined(c),
         SumOf([i \in DOMAIN c.recipients |-> Fraction(c.recipients[i].percentage)],
               DOMAIN c.recipients) = Unit
  PROVE  ExactDistribution(c) /\ Covers(TotalInput(c), OutputToPayees(c))
<1> DEFINE D == DOMAIN c.recipients
           fraction == [i \in D |-> Fraction(c.recipients[i].percentage)]
<1>1. /\ IsFiniteSet(D) /\ \A i \in D : fraction[i] \in Nat
      /\ SumOf(fraction, D) = Unit
  <2>1. c.recipients \in Seq(Share)
    BY DEF Contract
  <2>2. D = 1 .. Len(c.recipients) /\ Len(c.recipients) \in Nat
    BY <2>1
  <2>3. IsFiniteSet(1 .. Len(c.recipients))
    BY <2>2, FS_Interval, SMT
  <2>4. \A i \in D : c.recipients[i].percentage \in Nat
    <3>1. \A i \in D : c.recipients[i] \in Share
      BY <2>1
    <3> QED
      BY <3>1 DEF Share
  <2>5. \A i \in D : fraction[i] \in Nat
    BY <2>4, HundredPositive, QuoType DEF Fraction
  <2> QED
    BY <2>2, <2>3, <2>5
<1>2. ASSUME NEW d \in Denom
      PROVE  /\ SumOf([i \in D |-> FractionOf(TotalInput(c)[d], c.recipients[i].percentage)], D)
                   = ToDec(TotalInput(c)[d])
             /\ TotalInput(c)[d] >= OutputToPayees(c)[d]
  <2> DEFINE total == TotalInput(c)[d]
             exact == [i \in D |-> FractionOf(total, c.recipients[i].percentage)]
             out == [i \in D |-> Output(c, i)[d]]
             whole == [i \in D |-> Unit * out[i]]
  <2>1. total \in Nat
    <3>1. TotalInput(c) \in CoinSet
      BY PayFacts, CoinTypes DEF TotalInput, Contract
    <3> QED
      BY <3>1 DEF CoinSet
  <2>2. \A i \in D : exact[i] = total * fraction[i] /\ exact[i] \in Nat
    <3>1. \A i \in D : exact[i] = Mul(ToDec(total), fraction[i])
      BY DEF FractionOf
    <3> HIDE DEF exact, total, fraction, D
    <3> QED
      BY <1>1, <2>1, <3>1, MulByInteger
  <2>3. Unit \in Nat \ {0}
    BY UnitAssumption
  <2>4. \A i \in D : /\ out[i] = TruncateInt(exact[i]) /\ whole[i] = Unit * out[i]
    BY DEF Output
  <2>5. SumOf(out, D) = OutputToPayees(c)[d]
    BY DEF OutputToPayees
  <2> HIDE DEF exact, total, fraction, D, out, whole
  <2>6. SumOf(exact, D) = total * Unit
    <3>1. CASE total = 0
      <4>1. \A i \in D : exact[i] = 0
        BY <1>1, <2>2, <3>1
      <4>2. SumOf(exact, D) = Cardinality(D) * 0
        BY <1>1, <4>1, SumConstant
      <4>3. Cardinality(D) \in Nat
        BY <1>1, FS_CardinalityType
      <4> QED
        BY <2>3, <3>1, <4>2, <4>3
    <3>2. CASE total # 0
      <4>1. total \in Nat \ {0}
        BY <2>1, <3>2
      <4>2. SumOf(exact, D) = total * SumOf(fraction, D)
        BY <1>1, <2>2, <4>1, SumTimes
      <4> QED
        BY <1>1, <4>2
    <3> QED
      BY <3>1, <3>2
  <2>7. \A i \in D : out[i] \in Nat /\ whole[i] \in Nat /\ whole[i] <= exact[i]
    <3>1. \A i \in D : TruncateInt(exact[i]) \in Nat /\ Unit * TruncateInt(exact[i]) <= exact[i]
      BY <2>2, TruncateBelow, CeilType
    <3> QED
      BY <2>3, <2>4, <3>1
  <2>8. SumOf(whole, D) <= SumOf(exact, D)
    BY <1>1, <2>2, <2>7, SumMonotone
  <2>9. SumOf(whole, D) = Unit * SumOf(out, D)
    BY <1>1, <2>3, <2>4, <2>7, SumTimes
  <2> DEFINE o == SumOf(out, D)
  <2>10. o \in Nat
    BY <1>1, <2>7, SumType
  <2>11. Unit * o <= total * Unit
    BY <2>6, <2>8, <2>9
  <2> HIDE DEF o
  <2>12. o <= total
    <3>1. SUFFICES ASSUME total < o PROVE FALSE
      BY <2>1, <2>10
    <3>2. o - total \in Nat \ {0}
      BY <2>1, <2>10, <3>1
    <3>3. Unit * (o - total) > 0 /\ Unit * (o - total) = Unit * o - total * Unit
      BY <2>1, <2>3, <2>10, <3>2
    <3>4. Unit * o \in Nat /\ total * Unit \in Nat
      BY <2>1, <2>3, <2>10
    <3> QED
      BY <2>11, <3>3, <3>4
  <2> QED
    BY <2>1, <2>5, <2>6, <2>10, <2>12 DEF o, total, exact, ToDec, D
<1> QED
  BY <1>2 DEF ExactDistribution, Covers

\* A payment that is authorised and within the maximum fails on bad terms and on
\* coins that are still vesting only.
LEMMA FailsOnBadTerms ==
  ASSUME PromiseInv, NEW id \in DOMAIN contracts, Failed(contracts[id])
  PROVE  BadTerms(contracts[id]) \/ StillVesting(contracts[id])
<1> DEFINE c == contracts[id]
<1> SUFFICES ASSUME ~BadTerms(c), ~StillVesting(c) PROVE FALSE
  OBVIOUS
<1>1. /\ TypeOK /\ StoresAgree /\ PoolIsRemainders /\ MaximumKept /\ TemplatesValid
  BY DEF PromiseInv, PaymentsInv
<1>2. /\ c \in Contract /\ TemplateOf(c) \in Template /\ ValidTemplate(TemplateOf(c))
  BY <1>1, ContractFacts DEF TemplatesValid, StoresAgree, TemplateOf
<1>3. /\ CanEffectPayment(c)
      /\ PayDefined(c) => HasCoins(c)
  BY DEF Failed, NotEffected
<1>4. /\ DiscountKnown(c) /\ Discounted(c) # NoCoins
      /\ SumOf([i \in DOMAIN c.recipients |-> Fraction(c.recipients[i].percentage)],
               DOMAIN c.recipients) = Unit
  BY DEF BadTerms
<1>5. PayDefined(c) /\ Pay(c) # NoCoins
  <2>1. \A d \in Denom : TemplateOf(c).maximum[d] # 0 =>
          c.cumulativePay[d] <= TemplateOf(c).maximum[d]
    BY <1>1 DEF MaximumKept
  <2> HIDE DEF c
  <2> QED
    BY <1>2, <1>3, <1>4, <2>1, SomethingToPay
<1>6. ExactDistribution(c) /\ Covers(TotalInput(c), OutputToPayees(c))
  <2> HIDE DEF c
  <2> QED
    BY <1>2, <1>4, <1>5, SharesAddUp
<1>7. Covers(pool, c.currentRemainder)
  <2>1. ASSUME NEW d \in Denom PROVE pool[d] >= c.currentRemainder[d]
    <3> DEFINE f == Remainders(d)
               S == DOMAIN contracts
    <3>1. IsFiniteSet(S) /\ id \in S /\ pool[d] = SumOf(f, S)
      BY <1>1, ContractsFinite DEF PoolIsRemainders
    <3>2. \A i \in S : f[i] \in Nat
      BY <1>1 DEF TypeOK, Remainders, Contract, CoinSet
    <3>3. f[id] = c.currentRemainder[d]
      BY DEF Remainders
    <3>4. IsFiniteSet(S \ {id})
      BY <3>1, FS_RemoveElement
    <3> HIDE DEF f, S, c
    <3>5. SumOf(f, S) = SumOf(f, S \ {id}) + f[id] /\ SumOf(f, S \ {id}) \in Nat
      BY <3>1, <3>2, <3>4, SumRemove, SumType
    <3> QED
      BY <3>1, <3>2, <3>3, <3>5
  <2> QED
    BY <2>1 DEF Covers
<1>8. Effected(c)
  BY <1>3, <1>5, <1>6, <1>7 DEF Effected, CanTransfer, StillVesting
<1> QED
  BY <1>8 DEF Failed

\* What a contract asks for does not change unless stores, coins or time do.
LEMMA SameContractDue ==
  UNCHANGED <<stores, bank, clock, next>> =>
    /\ BadTerms(ContractDue(next)) => BadTerms(ContractDue(next))'
    /\ StillVesting(ContractDue(next)) => StillVesting(ContractDue(next))'
<1> SUFFICES ASSUME UNCHANGED <<stores, bank, clock, next>>
             PROVE  /\ BadTerms(ContractDue(next)) => BadTerms(ContractDue(next))'
                    /\ StillVesting(ContractDue(next)) => StillVesting(ContractDue(next))'
  OBVIOUS
<1> DEFINE c == ContractDue(next)
<1>1. templates' = templates /\ funds' = funds /\ time' = time
  BY DEF stores, bank, clock
<1>2. c' = c
  BY DEF stores, ContractDue
<1> HIDE DEF c
<1>3. TemplateOf(c)' = TemplateOf(c) /\ Discounted(c)' = Discounted(c)
  BY <1>1, <1>2 DEF Discounted, Discount, TemplateOf
<1>4. Pay(c)' = Pay(c)
  BY <1>1, <1>2, <1>3 DEF Pay, AdjustedCumulative, AtMostMaximum, AtLeastMinimum, TemplateOf
<1>5. BadTerms(c) => BadTerms(c)'
  BY <1>1, <1>2, <1>3 DEF BadTerms, DiscountKnown, DiscountIdExists, TemplateOf
<1>6. StillVesting(c) => StillVesting(c)'
  BY <1>1, <1>2, <1>4 DEF StillVesting, HasCoins, CanSpend, Locked
<1> QED
  BY <1>5, <1>6 DEF c

LEMMA HaltStep ==
  ASSUME PromiseInv, HaltsOnlyOnBadTerms, [Next]_vars
  PROVE  HaltsOnlyOnBadTerms'
<1>1. CASE UNCHANGED vars
  BY <1>1, SameContractDue DEF vars, HaltsOnlyOnBadTerms
<1>2. ASSUME NEW id \in 1 .. Subscriptions, Panic(id)
      PROVE  HaltsOnlyOnBadTerms'
  <2>1. /\ next = id /\ next' = next /\ Failed(ContractDue(id))
        /\ UNCHANGED <<stores, bank, clock>> /\ subscriptions' = subscriptions
        /\ contracts' = contracts
    BY <1>2 DEF Panic, EndBlockAt, stores
  <2>2. subscriptions[id].contract \in DOMAIN contracts
    BY <1>2 DEF Panic, Due, PromiseInv, PaymentsInv, StoresAgree
  <2>3. BadTerms(ContractDue(next)) \/ StillVesting(ContractDue(next))
    BY <2>1, <2>2, FailsOnBadTerms DEF ContractDue
  <2> QED
    BY <2>1, <2>3, SameContractDue DEF HaltsOnlyOnBadTerms
<1>3. ASSUME Next, \A id \in 1 .. Subscriptions : ~Panic(id)
      PROVE  ~halted'
  <2>1. CASE Transaction
    BY <2>1 DEF Transaction, DeliverTx, CreatePaymentTemplate, CreatePaymentContract,
       SetPaymentContractAuthorisation, CreateSubscription, GrantDiscount, RevokeDiscount,
       EffectPayment
  <2>2. CASE EndBlocker
    BY <1>3, <2>2 DEF EndBlocker, DeliverTx, EndBlockAt, BeginEndBlock, SkipSubscription,
       EffectSubscriptionPayment, MissSubscriptionPayment, NextBlock
  <2> QED
    BY <1>3, <2>1, <2>2 DEF Next
<1> QED
  BY <1>1, <1>2, <1>3 DEF HaltsOnlyOnBadTerms

-----------------------------------------------------------------------------
(***************************************************************************)
(* The theorems                                                            *)
(***************************************************************************)
\* In every state, what was paid has reached the minimum, the remainders are
\* small and all coins are accounted for.
THEOREM PromiseInvariant == Spec => []PromiseInv
<1>1. PromiseInv /\ [Next]_vars => PromiseInv'
  BY StepPromised
<1> QED
  BY InitPromise, <1>1, PTL DEF Spec

\* Whatever transactions and subscriptions do is a step of the agreements or
\* none: nothing without authorisation, the minimum with the first payment,
\* never more than the maximum, all of it for the recipients but for what
\* rounding leaves (keeper/payments.go, EffectPayment).
THEOREM AgreementImplemented == Spec => ImplementsAgreement
<1>1. PromiseInv /\ [Next]_vars => [Agreements!Next]_AllAgreements
  BY StepPromised DEF Promised
<1> QED
  BY InitPromise, PromiseInvariant, <1>1, PTL DEF Spec, ImplementsAgreement, Agreements!Spec

\* Payments make and lose no coins, and what rounding leaves in the pool stays
\* below one coin per recipient (keeper/payments.go, EffectPayment).
THEOREM CoinsCorrect == Spec => []CoinsAccounted
<1>1. PromiseInv => CoinsAccounted
  BY DEF PromiseInv, CoinsAccounted
<1> QED
  BY <1>1, PromiseInvariant, PTL

\* Nobody loses coins but the payer of a contract that he has authorised, and
\* the contract records them (keeper/payments.go, EffectPayment).
THEOREM PaymentsAuthorised == Spec => OnlyAuthorisedPayments
<1>1. PromiseInv /\ [Next]_vars => [PaidByAuthority]_vars
  BY StepPromised DEF Promised
<1>2. Spec => [][PaidByAuthority]_vars
  BY PromiseInvariant, <1>1, PTL DEF Spec
<1> QED
  BY <1>2 DEF OnlyAuthorisedPayments, PaidByAuthority

\* However contracts, discounts, funds and authorisations change, EndBlocker
\* fails only on a subscription whose contract has a discount id that does not
\* exist, nothing to pay or shares that are not the whole, or whose payer has the
\* coins but cannot spend them yet (keeper/payments.go and module.go, EndBlocker).
THEOREM HaltsCorrect == Spec => []HaltsOnlyOnBadTerms
<1>1. Init => HaltsOnlyOnBadTerms
  BY DEF Init, HaltsOnlyOnBadTerms
<1>2. PromiseInv /\ HaltsOnlyOnBadTerms /\ [Next]_vars => HaltsOnlyOnBadTerms'
  BY HaltStep
<1> QED
  BY PromiseInvariant, <1>1, <1>2, PTL DEF Spec

=============================================================================
