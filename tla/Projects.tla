------------------------------ MODULE Projects ------------------------------
(***************************************************************************)
(* The project module: a project is created against a fee, funded,         *)
(* started and stopped; while it is started, agents claim and oracles      *)
(* evaluate, and every evaluation pays through contracts of the payments   *)
(* module; when it is paid out, the fees go to ixo and the rest can be     *)
(* withdrawn.  A project has accounts of its own in the bank, which have   *)
(* no key: only the handlers below move their coins.                       *)
(*                                                                         *)
(* A transaction is one action, the payments within it included: a handler *)
(* that returns an error or panics is rolled back, except for what the     *)
(* ante handler has already charged.                                       *)
(*                                                                         *)
(* A definition whose comment begins with "Mutant" is a plausible mistake  *)
(* in the definition it precedes; the properties below tell them apart.    *)
(***************************************************************************)
EXTENDS Coins, Decimals, Sequences, Sums

CONSTANTS
  Did,               \* of persons and of ixo
  Project,           \* the DIDs of projects
  ClaimId,
  Registered,        \* the DIDs that have a DidDoc
  Native,            \* ixo.IxoNativeToken
  IxoFees, IxoPayFees, InitiatingNodePayFees,  \* internal account ids
  FeeCollector,      \* the account of the transaction fees
  Templates,         \* the store of payment templates
  TotalFee, TransactionFee,  \* of MsgCreateProject
  Agents,            \* bound: the persons who claim, evaluate and withdraw
  FeesMaps,          \* bound: the fees that projects propose
  ParamChoices,      \* bound: the parameters that governance sets
  SendTargets,       \* bound: the accounts that others send coins to
  SendAmounts,       \* bound: the coins they send
  Amounts,           \* bound: the amounts that are withdrawn
  MaxWithdrawals,    \* bound: the withdrawals of a project, its payout included
  InitialFunds       \* the coins of each account at the start

FeeAccounts == {IxoFees, IxoPayFees, InitiatingNodePayFees}
InternalId == FeeAccounts \cup Project \cup Did
Internal(p, id) == <<p, id>>
Account == Did \cup Project \cup {FeeCollector} \cup (Project \X InternalId)

\* The two fees that are charged; a fees map has a template for some of them.
FeeType == {"OracleFee", "FeeForService"}
Status == {"", "CREATED", "PENDING", "FUNDED", "STARTED", "STOPPED", "PAIDOUT"}
ClaimStatus == {"pending", "approved", "rejected"}
ContractId == Project \X (Did \cup Project) \X FeeType

Params == [ixoDid : Did, minimumFunding : CoinSet,
           oracleFeePercentage : Nat, nodeFeePercentage : Nat]
Withdrawal == [recipient : Did \cup Project, amount : Nat]
Claim == [claimer : Did \cup Project, status : ClaimStatus]

ASSUME ProjectAssumption ==
  /\ IsFiniteSet(Did) /\ IsFiniteSet(Project) /\ IsFiniteSet(ClaimId)
  \* the addresses of persons, of projects and of modules are hashes of different
  \* things, and no DID is the id of a fee account
  /\ FeeCollector \notin Did
  /\ (Did \cup Project) \cap (Project \X InternalId) = {}
  /\ FeeAccounts \cap (Did \cup Project) = {}
  /\ Native \in Denom
  /\ \A t \in DOMAIN Templates :
       /\ Templates[t].amount \in CoinSet
       /\ Templates[t].minimum \in CoinSet /\ Templates[t].maximum \in CoinSet
  /\ Registered \subseteq Did \cup Project
  /\ Agents \subseteq Did \cup Project
  /\ TransactionFee \in Nat /\ TotalFee \in Nat /\ TransactionFee <= TotalFee
  /\ ParamChoices \subseteq Params
  /\ SendTargets \subseteq Account /\ SendAmounts \subseteq CoinSet
  /\ Amounts \subseteq Nat \ {0} /\ MaxWithdrawals \in Nat
  /\ InitialFunds \in [Account -> CoinSet]

VARIABLES
  projects,     \* the project docs, by DID
  accounts,     \* the ids in the account map of each project
  claims,       \* by project and id
  withdrawals,  \* the withdrawals of each project
  contracts,    \* the contracts in the store of the payments module
  funds, pool,  \* the bank, and its account PayRemainderPool
  exists,       \* the accounts that the auth module has
  params        \* the parameters of the project module

docs == <<projects, accounts, claims, withdrawals>>
bank == <<funds, pool, exists>>
vars == <<docs, contracts, bank, params>>

\* The payments module, with the coins and contracts of some point within a
\* transaction.
Payments(l) == INSTANCE Payments WITH
  funds <- l.funds, pool <- l.pool, contracts <- l.contracts,
  templates <- Templates, subscriptions <- Empty, history <- Empty,
  height <- 1, time <- 1, next <- 0, halted <- FALSE,
  TemplateId <- DOMAIN Templates, Subscriptions <- 0, TemplateTerms <- {},
  ContractTerms <- {}, SubscriptionTerms <- {}, DiscountId <- {},
  BlockTimes <- {}, MaxClock <- 1,
  Vesting <- [a \in Account |-> NoCoins], VestingEnd <- 0

ledger == [funds |-> funds, pool |-> pool, contracts |-> contracts]

-----------------------------------------------------------------------------
(***************************************************************************)
(* Accounts                                                                *)
(***************************************************************************)
Coin(amount) == [d \in Denom |-> IF d = Native THEN amount ELSE 0]

\* bank.SendCoins
CanSend(from, coins) == coins # NoCoins /\ Covers(funds[from], coins)
Sent(from, to, coins) ==
  [a \in Account |->
     LET rest == IF a = from THEN Sub(funds[a], coins) ELSE funds[a]
     IN  IF a = to THEN Add(rest, coins) ELSE rest]

\* An account that receives coins exists from then on.
Move(newFunds, created) ==
  /\ funds' = newFunds
  /\ exists' = exists \cup created \cup {a \in Account : funds'[a] # funds[a]}

CanCreate(p, id) == Internal(p, id) \notin exists

\* getAccountInProjectAccounts creates the account if the map does not have it.
CanGet(p, id) == id \in accounts[p] \/ CanCreate(p, id)
Get(p, ids) == accounts' = [accounts EXCEPT ![p] = @ \cup ids]

\* getIxoAmount: an account that the map does not have holds nothing.
IxoAmount(p, id) == IF id \in accounts[p] THEN funds[Internal(p, id)][Native] ELSE 0

-----------------------------------------------------------------------------
(***************************************************************************)
(* Creation                                                                *)
(***************************************************************************)
\* The ante handler: the project's own address must be new, the sender pays.
CanCharge(sender, p) ==
  /\ p \notin exists
  /\ sender \in Registered /\ sender \in exists
  /\ funds[sender][Native] >= TotalFee

Charged(sender, p) ==
  [a \in Account |->
     CASE a = sender -> Sub(funds[a], Coin(TotalFee))
       [] a = FeeCollector -> Add(funds[a], Coin(TransactionFee))
       [] a = p -> Add(funds[a], Coin(TotalFee - TransactionFee))
       [] OTHER -> funds[a]]

CanCreateProject(p, fees) ==
  /\ p \notin DOMAIN projects
  /\ \A type \in DOMAIN fees : fees[type] \in DOMAIN Templates
  /\ \A id \in FeeAccounts : CanCreate(p, id)

\* An error in the creation of the fourth account is dropped.
InitialAccounts(p) == FeeAccounts \cup {id \in {p} : CanCreate(p, id)}

\* Mutant of CreateProject: the list of withdrawals is not initialised.
CreateProjectWithoutList(sender, p, fees) ==
  /\ CanCharge(sender, p) /\ CanCreateProject(p, fees)
  /\ projects' = Store(projects, p, [creator |-> sender, status |-> "", fees |-> fees])
  /\ accounts' = Store(accounts, p, InitialAccounts(p))
  /\ Move(Charged(sender, p), {p} \cup {Internal(p, id) : id \in InitialAccounts(p)})
  /\ UNCHANGED <<claims, withdrawals, contracts, pool, params>>

CreateProject(sender, p, fees) ==
  /\ CanCharge(sender, p) /\ CanCreateProject(p, fees)
  /\ projects' = Store(projects, p, [creator |-> sender, status |-> "", fees |-> fees])
  /\ accounts' = Store(accounts, p, InitialAccounts(p))
  /\ withdrawals' = Store(withdrawals, p, <<>>)
  /\ Move(Charged(sender, p), {p} \cup {Internal(p, id) : id \in InitialAccounts(p)})
  /\ UNCHANGED <<claims, contracts, pool, params>>

\* The fee is gone, and so is the address: the project cannot be created again.
FailToCreateProject(sender, p, fees) ==
  /\ CanCharge(sender, p) /\ ~CanCreateProject(p, fees)
  /\ Move(Charged(sender, p), {p})
  /\ UNCHANGED <<docs, contracts, pool, params>>

-----------------------------------------------------------------------------
(***************************************************************************)
(* Status                                                                  *)
(***************************************************************************)
StateTransitions ==
  {<<"", "CREATED">>, <<"CREATED", "PENDING">>, <<"PENDING", "CREATED">>,
   <<"PENDING", "FUNDED">>, <<"FUNDED", "STARTED">>, <<"STARTED", "STOPPED">>,
   <<"STOPPED", "PAIDOUT">>}

IsValidProgression(p, new) ==
  p \in DOMAIN projects /\ <<projects[p].status, new>> \in StateTransitions

SetStatus(p, new) == projects' = [projects EXCEPT ![p].status = new]

UpdateProjectStatus(p, new) ==
  /\ IsValidProgression(p, new) /\ new \notin {"FUNDED", "PAIDOUT"}
  /\ SetStatus(p, new)
  /\ UNCHANGED <<accounts, claims, withdrawals, contracts, bank, params>>

\* sdk.Coins.IsAnyGT does not look at what y has nothing of.
IsAnyGT(x, y) == \E d \in Denom : y[d] # 0 /\ x[d] > y[d]

\* Mutant of FundProject: the address is computed, not taken from the map.
FundProjectByAddress(p) ==
  /\ IsValidProgression(p, "FUNDED")
  /\ ~IsAnyGT(params.minimumFunding, funds[Internal(p, p)])
  /\ SetStatus(p, "FUNDED")
  /\ UNCHANGED <<accounts, claims, withdrawals, contracts, bank, params>>

FundProject(p) ==
  /\ IsValidProgression(p, "FUNDED")
  /\ CanGet(p, p)
  /\ ~IsAnyGT(params.minimumFunding, funds[Internal(p, p)])
  /\ SetStatus(p, "FUNDED")
  /\ Get(p, {p}) /\ Move(funds, {Internal(p, p)})
  /\ UNCHANGED <<claims, withdrawals, contracts, pool, params>>

\* payoutFees: the two fee accounts are emptied into the third, and it to ixo.
FeesHeld(p) == SumOf([id \in FeeAccounts |-> IxoAmount(p, id)], FeeAccounts)

PaidOut(p) ==
  [a \in Account |->
     IF a \in {Internal(p, id) : id \in FeeAccounts} THEN [funds[a] EXCEPT ![Native] = 0]
     ELSE IF a = params.ixoDid THEN Add(funds[a], Coin(FeesHeld(p))) ELSE funds[a]]

CanPayOut(p) ==
  /\ \A id \in FeeAccounts : CanGet(p, id)
  /\ params.ixoDid \in Registered
  /\ FeesHeld(p) # 0

\* Mutant of AddWithdrawal: only the last withdrawal is kept.
AddWithdrawalAlone(p, recipient, amount) ==
  withdrawals' = [withdrawals EXCEPT ![p] = <<[recipient |-> recipient, amount |-> amount]>>]

AddWithdrawal(p, recipient, amount) ==
  withdrawals' = [withdrawals EXCEPT ![p] =
                    Append(@, [recipient |-> recipient, amount |-> amount])]

PayOutProject(p) ==
  /\ IsValidProgression(p, "PAIDOUT")
  /\ CanPayOut(p)
  /\ SetStatus(p, "PAIDOUT")
  /\ AddWithdrawal(p, params.ixoDid, FeesHeld(p))
  /\ Get(p, FeeAccounts) /\ Move(PaidOut(p), {Internal(p, id) : id \in FeeAccounts})
  /\ UNCHANGED <<claims, contracts, pool, params>>

-----------------------------------------------------------------------------
(***************************************************************************)
(* Agents and claims                                                       *)
(***************************************************************************)
\* An error in the creation of the account is dropped.
CreateAgent(p, agent) ==
  /\ p \in DOMAIN projects /\ CanCreate(p, agent)
  /\ Get(p, {agent}) /\ Move(funds, {Internal(p, agent)})
  /\ UNCHANGED <<projects, claims, withdrawals, contracts, pool, params>>

Started(p) == p \in DOMAIN projects /\ projects[p].status = "STARTED"

\* Mutant of CanClaim: an id that exists already is taken again.
CanClaimAgain(p, id) == Started(p)

CanClaim(p, id) == Started(p) /\ <<p, id>> \notin DOMAIN claims

CreateClaim(p, claimer, id) ==
  /\ CanClaim(p, id)
  /\ claims' = Store(claims, <<p, id>>, [claimer |-> claimer, status |-> "pending"])
  /\ UNCHANGED <<projects, accounts, withdrawals, contracts, bank, params>>

-----------------------------------------------------------------------------
(***************************************************************************)
(* Evaluations and what they pay                                           *)
(***************************************************************************)
NodeFeeShare == Mul(params.oracleFeePercentage, QuoInt(params.nodeFeePercentage, 100))
OraclePayRecipients(p, oracle) ==
  << [account |-> Internal(p, IxoPayFees),
      percentage |-> params.oracleFeePercentage - NodeFeeShare],
     [account |-> Internal(p, InitiatingNodePayFees), percentage |-> NodeFeeShare],
     [account |-> oracle, percentage |-> ToDec(100) - params.oracleFeePercentage] >>
ClaimerOnly(claimer) == << [account |-> claimer, percentage |-> ToDec(100)] >>

Payment(p, payee, type, recipients) ==
  [id |-> <<p, payee, type>>, recipients |-> recipients,
   template |-> projects[p].fees[type]]

ServiceDue(p, status) ==
  "FeeForService" \in DOMAIN projects[p].fees /\ status = "approved"

OracleDue(p) == "OracleFee" \in DOMAIN projects[p].fees

OraclePayment(p, oracle) ==
  Payment(p, oracle, "OracleFee", OraclePayRecipients(p, oracle))
ServicePayment(p, claimer) ==
  Payment(p, claimer, "FeeForService", ClaimerOnly(claimer))

\* The DIDs among the recipients need a DidDoc.
PayeesKnown(p, oracle, claimer, status) ==
  /\ OracleDue(p) => oracle \in Registered
  /\ ServiceDue(p, status) => claimer \in Registered

NewContract(p, payment) ==
  [template |-> payment.template,
   creator |-> Internal(p, p), payer |-> Internal(p, p),
   recipients |-> payment.recipients, canDeauthorise |-> FALSE, authorised |-> TRUE,
   discountId |-> 0, cumulativePay |-> NoCoins, currentRemainder |-> NoCoins]

\* Mutant of WithContract: the recipients follow the parameters.
WithContractUpdated(l, p, payment) ==
  [l EXCEPT !.contracts =
     IF payment.id \in DOMAIN @ THEN [@ EXCEPT ![payment.id].recipients = payment.recipients]
     ELSE Store(@, payment.id, NewContract(p, payment))]

\* The first payment of an id makes the contract, and its recipients stay.
WithContract(l, p, payment) ==
  IF payment.id \in DOMAIN l.contracts THEN l
  ELSE [l EXCEPT !.contracts = Store(@, payment.id, NewContract(p, payment))]

\* Mutant of ProcessPay: the contract is not stored, and is new the next time.
ProcessPayUnrecorded(l, p, payment) ==
  LET m == WithContract(l, p, payment)
      c == m.contracts[payment.id]
  IN  [funds |-> Payments(m)!FundsAfter(c), pool |-> Payments(m)!PoolAfter(c),
       contracts |-> m.contracts]

\* processPay, when it succeeds.
ProcessPay(l, p, payment) ==
  LET m == WithContract(l, p, payment)
      c == m.contracts[payment.id]
  IN  [funds |-> Payments(m)!FundsAfter(c), pool |-> Payments(m)!PoolAfter(c),
       contracts |-> [m.contracts EXCEPT ![payment.id] = Payments(m)!ContractAfter(c)]]

\* Mutant of PayAttempted: the balance of the project is not looked at.
PayAttemptedUnfunded(l, p, payment) ==
  LET m == WithContract(l, p, payment)
  IN  /\ Payments(m)!ValidRecipients(payment.recipients)
      /\ CanGet(p, p)
      /\ Payments(m)!CanEffectPayment(m.contracts[payment.id])

\* Up to the payment, and the three ways in which that can end.
PayAttempted(l, p, payment) ==
  LET m == WithContract(l, p, payment)
      c == m.contracts[payment.id]
  IN  /\ Payments(m)!ValidRecipients(payment.recipients)
      /\ CanGet(p, p)
      /\ Payments(m)!CanEffectPayment(c)
      /\ Covers(m.funds[c.payer], Templates[payment.template].amount)
PaySucceeds(l, p, payment) ==
  LET m == WithContract(l, p, payment)
  IN  PayAttempted(l, p, payment) /\ Payments(m)!Effected(m.contracts[payment.id])
PayPanics(l, p, payment) ==
  LET m == WithContract(l, p, payment)
  IN  PayAttempted(l, p, payment) /\ Payments(m)!NotEffected(m.contracts[payment.id])

\* The ledger after the first payment of an evaluation, and after both.
AfterOraclePay(p, oracle) ==
  IF OracleDue(p) THEN ProcessPay(ledger, p, OraclePayment(p, oracle)) ELSE ledger
AfterServicePay(l, p, claimer, status) ==
  IF ServiceDue(p, status) THEN ProcessPay(l, p, ServicePayment(p, claimer)) ELSE l

Pending(p, id) == <<p, id>> \in DOMAIN claims /\ claims[<<p, id>>].status = "pending"

CanEvaluate(p, id) == Started(p) /\ Pending(p, id)

\* The status can be "pending" again: the message is not validated.
CreateEvaluation(p, oracle, id, status) ==
  /\ CanEvaluate(p, id)
  /\ LET claimer == claims[<<p, id>>].claimer
         first == AfterOraclePay(p, oracle)
         last == AfterServicePay(first, p, claimer, status)
         ids == (IF OracleDue(p) THEN {IxoPayFees, InitiatingNodePayFees, p} ELSE {})
                  \cup (IF ServiceDue(p, status) THEN {p} ELSE {})
     IN  /\ PayeesKnown(p, oracle, claimer, status)
         /\ \A i \in ids : CanGet(p, i)
         /\ OracleDue(p) => PaySucceeds(ledger, p, OraclePayment(p, oracle))
         /\ ServiceDue(p, status) => PaySucceeds(first, p, ServicePayment(p, claimer))
         /\ contracts' = last.contracts /\ pool' = last.pool
         /\ Get(p, ids) /\ Move(last.funds, {Internal(p, i) : i \in ids})
  /\ claims' = [claims EXCEPT ![<<p, id>>].status = status]
  /\ UNCHANGED <<projects, withdrawals, params>>

-----------------------------------------------------------------------------
(***************************************************************************)
(* Withdrawals                                                             *)
(***************************************************************************)
\* payoutAndRecon
CanWithdraw(p, from, recipient, amount) ==
  /\ IxoAmount(p, from) >= amount
  /\ CanGet(p, from)
  /\ recipient \in Registered

MayWithdraw(p, recipient, isRefund) ==
  /\ p \in DOMAIN projects /\ projects[p].status = "PAIDOUT"
  /\ isRefund => recipient = projects[p].creator

\* Mutant of WithdrawFrom: whoever withdraws, it is from the project's account.
WithdrawFromProject(p, recipient, isRefund) == p

WithdrawFrom(p, recipient, isRefund) == IF isRefund THEN p ELSE recipient

WithdrawFunds(p, recipient, amount, isRefund) ==
  /\ MayWithdraw(p, recipient, isRefund)
  /\ Len(withdrawals[p]) < MaxWithdrawals
  /\ LET from == WithdrawFrom(p, recipient, isRefund)
     IN  /\ CanWithdraw(p, from, recipient, amount)
         /\ CanSend(Internal(p, from), Coin(amount))
         /\ Get(p, {from})
         /\ Move(Sent(Internal(p, from), recipient, Coin(amount)), {Internal(p, from)})
  /\ AddWithdrawal(p, recipient, amount)
  /\ UNCHANGED <<projects, claims, contracts, pool, params>>

-----------------------------------------------------------------------------
(***************************************************************************)
(* Everything else that touches this state                                 *)
(***************************************************************************)
\* Anyone can send coins to any account, before the project exists as well.
Send(from, to, coins) ==
  /\ CanSend(from, coins) /\ from \in exists
  /\ Move(Sent(from, to, coins), {})
  /\ UNCHANGED <<docs, contracts, pool, params>>

\* A parameter change proposal of the governance module.
ChangeParams(new) ==
  /\ params' = new
  /\ UNCHANGED <<docs, contracts, bank>>

Init ==
  /\ projects = Empty /\ accounts = Empty /\ claims = Empty /\ withdrawals = Empty
  /\ contracts = Empty /\ funds = InitialFunds /\ pool = NoCoins
  /\ exists = {FeeCollector} \cup {a \in Account : InitialFunds[a] # NoCoins}
  /\ params \in ParamChoices

Next ==
  \/ \E s \in Did, p \in Project, f \in FeesMaps : CreateProject(s, p, f)
  \/ \E s \in Did, p \in Project, f \in FeesMaps : FailToCreateProject(s, p, f)
  \/ \E p \in Project, s \in Status : UpdateProjectStatus(p, s)
  \/ \E p \in Project : FundProject(p)
  \/ \E p \in Project : PayOutProject(p)
  \/ \E p \in Project, a \in Agents : CreateAgent(p, a)
  \/ \E p \in Project, c \in Agents, i \in ClaimId : CreateClaim(p, c, i)
  \/ \E p \in Project, o \in Agents, i \in ClaimId, s \in ClaimStatus :
       CreateEvaluation(p, o, i, s)
  \/ \E p \in Project, r \in Agents, n \in Amounts, b \in BOOLEAN :
       WithdrawFunds(p, r, n, b)
  \/ \E a \in Did, b \in SendTargets, c \in SendAmounts : Send(a, b, c)
  \/ \E new \in ParamChoices : ChangeParams(new)

Spec == Init /\ [][Next]_vars

-----------------------------------------------------------------------------
(***************************************************************************)
(* Properties                                                              *)
(***************************************************************************)
\* Every variable has its type: the records of types/types.go and types/docs.go
\* and coins that are never negative.
TypeOK ==
  /\ DOMAIN projects \subseteq Project
  /\ DOMAIN accounts = DOMAIN projects /\ DOMAIN withdrawals = DOMAIN projects
  /\ DOMAIN claims \subseteq (DOMAIN projects) \X ClaimId
  /\ DOMAIN contracts \subseteq ContractId
  /\ \A p \in DOMAIN projects :
       /\ projects[p].creator \in Did /\ projects[p].status \in Status
       /\ projects[p].fees \in FeesMaps
       /\ accounts[p] \subseteq InternalId
       /\ withdrawals[p] \in Seq(Withdrawal)
  /\ claims \in [DOMAIN claims -> Claim]
  /\ funds \in [Account -> CoinSet] /\ pool \in CoinSet
  /\ exists \subseteq Account /\ params \in Params

\* The account maps and the bank agree: whatever order accounts come into being
\* in, every project has its fee accounts, and every account of a map exists.
AccountsAgree ==
  \A p \in DOMAIN projects :
    /\ p \in exists /\ FeeAccounts \subseteq accounts[p]
    /\ \A id \in accounts[p] : Internal(p, id) \in exists

\* The error that creation drops does no harm: a project without its own
\* account never gets as far as being funded.
OwnAccountWhenFunded ==
  \A p \in DOMAIN projects :
    projects[p].status \in {"FUNDED", "STARTED", "STOPPED", "PAIDOUT"} => p \in accounts[p]

\* The accounts that a project works with are there when it needs them.
AccountsInOrder == AccountsAgree /\ OwnAccountWhenFunded

\* Creation, payments, payouts and withdrawals make and lose no coins.
CoinsConserved ==
  \A d \in Denom :
    SumOf([a \in Account |-> funds[a][d]], Account) + pool[d]
      = SumOf([a \in Account |-> InitialFunds[a][d]], Account)

\* The pool of the payments module holds what the contracts of all projects say
\* is left over, although evaluations make several payments in one transaction.
PoolIsRemainders ==
  \A d \in Denom :
    pool[d] = SumOf([id \in DOMAIN contracts |-> contracts[id].currentRemainder[d]],
                    DOMAIN contracts)

\* Coins are where the books of the payments module say, and none are missing.
CoinsAccounted == CoinsConserved /\ PoolIsRemainders

Unlimited(template) ==
  Templates[template].minimum = NoCoins /\ Templates[template].maximum = NoCoins
PaidFor(p, type, d) ==
  LET ids == {id \in DOMAIN contracts : id[1] = p /\ id[3] = type}
  IN  SumOf([id \in ids |-> contracts[id].cumulativePay[d]], ids)
ClaimsOf(p, statuses) ==
  {i \in ClaimId : <<p, i>> \in DOMAIN claims /\ claims[<<p, i>>].status \in statuses}

\* Over all claimers, oracles and evaluations: the claimers have been paid once
\* for each claim that is approved and for no other, and the oracles at least
\* once for each claim that is evaluated.
EvaluationsArePaid ==
  \A p \in DOMAIN projects, d \in Denom :
    LET fees == projects[p].fees
    IN  /\ "FeeForService" \in DOMAIN fees /\ Unlimited(fees["FeeForService"]) =>
             PaidFor(p, "FeeForService", d) =
               Templates[fees["FeeForService"]].amount[d]
                 * Cardinality(ClaimsOf(p, {"approved"}))
        /\ "OracleFee" \in DOMAIN fees /\ Unlimited(fees["OracleFee"]) =>
             PaidFor(p, "OracleFee", d) >=
               Templates[fees["OracleFee"]].amount[d]
                 * Cardinality(ClaimsOf(p, {"approved", "rejected"}))

\* What the stores hold of a project fits its status: claims and payments
\* belong to a project that has been started, withdrawals to one that is paid
\* out, and the first of them is the payout of the fees.
StoresFitStatus ==
  \A p \in DOMAIN projects :
    /\ ClaimsOf(p, ClaimStatus) # {} \/ (\E id \in DOMAIN contracts : id[1] = p) =>
         projects[p].status \in {"STARTED", "STOPPED", "PAIDOUT"}
    /\ withdrawals[p] # <<>> <=> projects[p].status = "PAIDOUT"

\* processPay expects a payment that it has found possible to be effected; the
\* only exception is a first payment whose minimum the project cannot afford.
BelowMinimum(l, p, payment) ==
  LET c == WithContract(l, p, payment).contracts[payment.id]
  IN  /\ c.cumulativePay = NoCoins
      /\ ~Covers(l.funds[c.payer], Templates[c.template].minimum)
PanicsOnlyBelowMinimum ==
  \A p \in DOMAIN projects, o \in Agents, i \in ClaimId :
    CanEvaluate(p, i) =>
      LET oracle == OraclePayment(p, o)
          first == AfterOraclePay(p, o)
          service == ServicePayment(p, claims[<<p, i>>].claimer)
      IN  /\ OracleDue(p) /\ PayPanics(ledger, p, oracle) => BelowMinimum(ledger, p, oracle)
          /\ /\ OracleDue(p) => PaySucceeds(ledger, p, oracle)
             /\ ServiceDue(p, "approved") /\ PayPanics(first, p, service)
             => BelowMinimum(first, p, service)

\* A payment that nothing can be said against: the project has the amount and the
\* minimum, the maximum has not been reached, nobody's share is zero by today's
\* parameters, and the shares that the payee started with are the whole as fractions.
Unobjectionable(l, p, payment) ==
  LET template == Templates[payment.template]
      known == payment.id \in DOMAIN l.contracts
      paid == IF known THEN l.contracts[payment.id].cumulativePay ELSE NoCoins
      shares == IF known THEN l.contracts[payment.id].recipients ELSE payment.recipients
  IN  /\ template.amount # NoCoins
      /\ Covers(l.funds[Internal(p, p)], template.amount)
      /\ Covers(l.funds[Internal(p, p)], template.minimum)
      /\ \/ template.maximum = NoCoins
         \/ \A d \in Denom : paid[d] # 0 => template.maximum[d] > paid[d]
      /\ \A i \in DOMAIN payment.recipients : payment.recipients[i].percentage > 0
      /\ SumOf([i \in DOMAIN shares |-> Quo(shares[i].percentage, ToDec(100))],
               DOMAIN shares) = Unit

\* Whatever evaluations, changes of the parameters and transfers have come before,
\* such a payment is made: neither the accounts of the project nor the pool that
\* all contracts share nor the fees of today, where a contract is older, stop it.
EvaluationsCanBePaid ==
  \A p \in DOMAIN projects, o \in Agents, i \in ClaimId :
    CanEvaluate(p, i) =>
      LET oracle == OraclePayment(p, o)
          first == AfterOraclePay(p, o)
          service == ServicePayment(p, claims[<<p, i>>].claimer)
      IN  /\ OracleDue(p) /\ Unobjectionable(ledger, p, oracle) => PaySucceeds(ledger, p, oracle)
          /\ /\ OracleDue(p) => PaySucceeds(ledger, p, oracle)
             /\ ServiceDue(p, "approved") /\ Unobjectionable(first, p, service)
             => PaySucceeds(first, p, service)

InternalTotal(p) ==
  SumOf([id \in InternalId |-> funds[Internal(p, id)][Native]], InternalId)
PaidBy(p) == PaidFor(p, "OracleFee", Native) + PaidFor(p, "FeeForService", Native)
Withdrawn(p) ==
  SumOf([i \in DOMAIN withdrawals[p] |-> withdrawals[p][i].amount], DOMAIN withdrawals[p])

\* Coins leave the accounts of a project by payments while it is started, and
\* by payouts and withdrawals when it is paid out, and the records of the
\* contracts and of the withdrawals account for all of them.
OnlyRecordedPayouts ==
  [][\A p \in DOMAIN projects : InternalTotal(p)' < InternalTotal(p) =>
       \/ /\ Started(p)
          /\ InternalTotal(p) - InternalTotal(p)' <= PaidBy(p)' - PaidBy(p)
       \/ /\ projects'[p].status = "PAIDOUT"
          /\ InternalTotal(p) - InternalTotal(p)' = Withdrawn(p)' - Withdrawn(p)]_vars

\* After the work nobody gets what is another's: the account of an agent is
\* emptied by the agent, the account of the project by its creator or under
\* the project's own DID.
WithdrawnByOwner ==
  [][\A p \in DOMAIN projects, id \in Did \cup Project :
       LET left == funds[Internal(p, id)][Native] - funds'[Internal(p, id)][Native]
           owners == IF id = p THEN {p, projects[p].creator} ELSE {id}
       IN  left > 0 /\ ~Started(p) =>
             \E o \in owners : funds'[o][Native] - funds[o][Native] = left]_vars

-----------------------------------------------------------------------------
(***************************************************************************)
(* What the repository says of the project module and the code does not do *)
(***************************************************************************)
\* "Project has not reached minimum funding" (handler.go).
FundedWithMinimum ==
  [][\A p \in DOMAIN projects :
       projects[p].status # "FUNDED" /\ projects'[p].status = "FUNDED" =>
         Covers(funds[Internal(p, p)], params.minimumFunding)]_vars

\* Fees are optional (spec/02_messages.md), and StateTransitions lets a stopped
\* project be paid out.  (When it cannot be, only coins that somebody sends to the
\* address of one of its fee accounts help.)
StoppedCanBePaidOut ==
  \A p \in DOMAIN projects :
    projects[p].status = "STOPPED" /\ params.ixoDid \in Registered => CanPayOut(p)

=============================================================================
