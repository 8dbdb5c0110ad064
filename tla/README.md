# A verification project for ixo-blockchain

TLA+ specifications of the modules of this chain, model-checked with TLC and,
where a statement should hold for every number of accounts, every curve and
every parameter, proved with TLAPS. The specifications are written from the Go
source; each definition is listed with the lines it models in `PROJECT.json`
("map"). Paths below are relative to the repository.

Contents: 1 the system; 2 how the modules are layered; 3 the bonds module;
4 swapper bonds; 5 the payments module; 6 the project module, with its genesis;
7 transactions: messages, ante handlers, did and treasury; 8 the runs; 9 the
proofs; 10 what is not modelled; 11 the plan.

## 1. The system

A Cosmos SDK (v0.37) application. A block is a sequence of transactions,
each with one message, followed by the end blockers of the modules in the
order crisis, gov, staking, bonds, payments (`app/app.go`). A handler that
returns an error or panics is rolled back: nobody sees its partial writes. An
end blocker has no such protection. A panic in it stops every node at the same
height, since every node executes the same block: the chain halts.

| Component | State | Operations | Interacts with | Hard behaviour | What makes it correct |
|---|---|---|---|---|---|
| bonds (`x/bonds`) | bond records, current and last batch of each bond, module accounts for minting, locked payments and reserves | create and edit a bond; buy, sell, swap; outcome payment; share withdrawal; EndBlocker performs the batches | did (addresses), bank, supply, staking | orders priced together and performed blocks later; one order cancels others; supply changed at two different times; rounding; panics in EndBlocker | the books agree (supply, locked payments, reserve); nobody loses an order's money; the reserve covers the curve; no bond passes its limits; no halt |
| payments (`x/payments`) | payment templates, contracts, subscriptions; the account of remainders | create template, contract, subscription; authorise; grant and revoke discounts; effect a payment; EndBlocker effects the subscriptions that are due | did, bank | a payment that fails is retried every block; periods by block and by time; discounts, minimum, maximum and shares with rounding; a panic in EndBlocker | at most one payment per period; the payer's authorisation and maximum are respected; no coin is lost |
| project (`x/project`) | project documents with status, account maps, claims, withdrawals | create, update status, agents, claims, evaluations, withdraw funds | payments (fees), did, bank | status machine with payouts on the way; evaluation pays fees of three parties; genesis | a claim is paid once; only a started project evaluates; withdrawals match accounts |
| treasury (`x/treasury`) | none of its own | send, oracle transfer, mint, burn | oracles, bank, supply, did | capabilities decide on mint, burn and transfer per denomination; an oracle moves coins of accounts that have signed nothing | coins and supply change only with the authority of their owner or of an oracle that may |
| oracles (`x/oracles`) | oracles and their capabilities, from genesis | lookup | treasury | two entries for one denomination: the first counts | the capabilities of genesis are the ones in force |
| did (`x/did`) | documents, credentials | add document, add credential | everyone (addresses and keys) | two DIDs of one key share an account; credentials of unequal length | a document is never replaced, a credential never repeated |
| ante handlers (`x/ixo`, `x/did/auth.go`, `x/project/auth.go`) | account sequences, fee pool | find the key, check signature and sequence, deduct the fee, increase the sequence | every transaction | fee and sequence stay when the message fails; transactions delivered late, reordered, twice; creation of a project signs for an account that does not exist yet | a transaction is accepted at most once; what the client is given to sign is accepted; the ledgers agree after failures too |
| genesis and export (`app/export.go`, each `genesis.go`) | the store of each module | export, import | all | lists that are read back by index | export then import is the identity |
| clients, queriers, commands | none | parse, query, sign | nodes | none | out of scope: they change no state |

The core is bonds and payments: these two have end blockers, hold other
people's money across blocks and do arithmetic on it. Project pays through the
contracts of payments. All of them are reached by transactions only, which the
ante handlers admit.

## 2. The modules and their layers

    Sums            finite sums over a set of indices (folds)
    Decimals        the SDK's 18-decimal fixed-point numbers
    Coins           coins of several denominations, and key-value stores
    Amounts_proofs  theorems of Sums and Decimals, for all the others to cite
    BondCurves      the pricing functions, recursive: TLC only
    Bonds           one bond, EXTENDS Decimals, Sums
      MCBonds       instantiates Bonds with small curves from BondCurves
      Bonds_proofs       theorems of Bonds; EXTENDS Amounts_proofs
      BondsLife_proofs   more of them, EXTENDS Bonds_proofs
    Swapper         one bond of the swapper function; EXTENDS Decimals, Coins, Sums
      MCSwapper     instantiates Swapper with a small pool
      Swapper_proofs     theorems of Swapper
    Agreement       abstract: what a payment contract promises its parties
    Payments        templates, contracts, subscriptions; EXTENDS Coins, Decimals, Sums;
                    INSTANCE Agreement, which it implements
      MCPayments    instantiates Payments with small terms
      Payments_proofs    theorems of Payments
      Agreement_proofs   Payments implements Agreement; EXTENDS Payments_proofs
    Projects        projects; INSTANCE Payments for the payments of an evaluation
      MCProjects    instantiates Projects with small templates and parameters
      Projects_proofs    theorems of Projects
    ProjectsGenesis EXTENDS Projects: export and start from the exported state
      MCProjectsGenesis  the order of the store's keys
    Messages        every message: module, signer, ValidateBasic
    Chain           ante handlers, did, treasury; EXTENDS Messages, Sums
      MCChain       instantiates Chain with four keys
      Chain_proofs       theorems of Chain

`Bonds` takes its curve as two constant functions, the reserve and the price
at each supply. That keeps recursion (integer powers) out of the module that
is proved about, and it makes the theorems hold for every non-negative curve,
the sigmoid included. `BondCurves` translates the Go functions and supplies
the tables that TLC uses.

`Unit` is the number of smallest fractions in one (10^18 in the SDK). It is a
constant: the proofs hold for every positive `Unit`, TLC uses 100, so that
rounding happens all the time instead of almost never.

## 3. The bonds module

### State

| Variable of `Bonds` | In the code |
|---|---|
| `bondState`, `allowSells`, `orderLimit`, `currentSupply`, `currentReserve` | the fields of `types.Bond` that change (`State`, `AllowSells`, `OrderQuantityLimits`, `CurrentSupply`, `CurrentReserve`) |
| `blocksRemaining`, `totalBuy`, `totalSell`, `buyPrice`, `sellPrice`, `buys`, `sells` | `types.Batch`, the current one |
| `tokens`, `funds` | bond tokens and reserve tokens of each account, kept by the bank |
| `intermediary`, `reserveAccount` | the module accounts `BatchesIntermediaryAccount` and `BondsReserveAccount` |
| `phase`, `next` | where EndBlocker is: between blocks, or at the `next` order of its loop over buys or sells |
| `halted` | EndBlocker has panicked |

### Actions

| Action | In the code |
|---|---|
| `CreateBond` | `handleMsgCreateBond` |
| `EditBond` | `handleMsgEditBond`, order quantity limits |
| `Buy` | `handleMsgBuy` with `GetUpdatedBatchPricesAfterBuy`, `AddBuyOrder` and `CancelUnfulfillableOrders`, which may cancel and refund any buy of the batch |
| `Sell` | `handleMsgSell` with `GetUpdatedBatchPricesAfterSell` and `AddSellOrder`; nothing is cancelled |
| `MakeOutcomePayment`, `WithdrawShare` | the handlers of these names |
| `EndBlock` | the head of `EndBlocker`: one block less, and whether the batch is due |
| `PerformBuy`, `SkipCancelledBuy`, `FinishBuys`, `PerformSell` | one turn of the loops of `PerformBuyOrders` and `PerformSellOrders` |
| `FinishBatch` | the tail of `EndBlocker`: from hatch to open, and a new batch |
| `Panic` | the `panic(err)` of the two loops |

A transaction is one step because its intermediate states cannot be seen and
its failures leave nothing behind. EndBlocker is one step per order because a
panic can stop it between any two of them, and because the invariants should
hold there too.

### Properties

* `BooksAgree` is four statements, which hold at every step of EndBlocker and
  with orders cancelled or half performed. `SupplyInvariant`, which
  `keeper/invariants.go` registers with the crisis module: supply against tokens,
  accounting for sells, which burn when they arrive and lower the supply when
  performed. `LockedInvariant`: the intermediary account holds the max prices of
  exactly the pending buys, which makes every refund and every charge payable.
  `TotalsInvariant`: the totals that prices are computed from are those of the
  live orders. `ReserveBacked`: the two records of the reserve agree.
* `ReserveFollowsCurve`: between the batches of a power or sigmoid bond that trades,
  the reserve is what the curve calls for. Orders are rounded in favour of the
  reserve, but the price per token is a quotient that is rounded either way. What that
  takes from a batch is at most one smallest fraction per token (`PriceRounding`), and
  the next batch makes up for it instead of adding to it. So the other invariant of
  `keeper/invariants.go` passes while a bond trades, unless the curve calls for a
  reserve within that distance above an integer.
* `MaxSupplyInvariant`: supply and pending buys stay within the max supply,
  although the check is made blocks before the buy is performed.
* `CoinsConserved`: no reserve token is made or lost by locking, refunding,
  charging, fees, outcome payment and withdrawals.
* `HaltsOnlyOnLatePrices`: EndBlocker panics only on a buy of a batch that a sell or a
  cancellation has priced again since the last look at its orders, or on a sell of a bond
  that is settled. Everything else is excluded: the division of a price in the hatch
  phase always works out, the locked coins always suffice, and while a bond trades its
  reserve pays every sell. Without the cancellation this would be false. An overpaid reserve
  makes the next buys cheap, one reserve token in all; when one of two buys is
  cancelled, the other pays that token alone, at a price per token above the one it was
  checked against (with a flat curve of 1/4, a buy of 3 that stays when a buy of 10 is
  cancelled). The property is stated for batches below the scale of the decimals (10^18
  tokens); beyond that the rounding of a price per token adds up to a whole reserve token.
* `NoPaymentWithoutTokens`: an account's money, locked money included, only
  falls in a step in which it receives bond tokens.
* `ShareNeverDiluted`: no withdrawal lowers what the tokens of the others are
  worth.
* `HatchPhase`, `Lifecycle`: the hatch phase of augmented bonds neither overshoots
  nor outlasts S0, and the order of the states.
* `BatchIsPerformed`: orders do not stay in the books for ever.

### Findings

Each is a run that TLC ends with a counterexample of a few steps.

* `bonds_buy_panic`: a sell can raise the buy price of its batch (sells are
  matched at the current price, which may be above what the curve still asks
  because earlier buyers overpaid by rounding). No buy is cancelled when a sell
  arrives, and `PerformBuyOrders` panics although its comment says all
  calculations should have prevented an error.
* `bonds_sell_panic`: after the outcome payment, shares can be withdrawn before
  the sells of the running batch are performed; the sells find too small a
  reserve and `PerformSellOrders` panics.

Met on the way, without a run of its own. Buys that were pending at the outcome
payment mint tokens in the settled bond, while `x/bonds/spec/03_messages.md:235`
says that share withdrawals are the only thing possible then. And with a smaller
withdrawal than that of `bonds_sell_panic` the sells are paid, but what is left for
the holders who stay is less than the curve calls for, which the invariant
`bonds-reserve` of `keeper/invariants.go:81`, registered with the crisis module,
reports as broken. `ReserveFollowsCurve` is about bonds that trade for this reason.

## 4. Swapper bonds

A bond of the swapper function is a pool of two reserve tokens. It shares with the
other bonds the batch and the module accounts, but hardly a formula: prices
follow the two balances, the first buy of an empty pool sets its ratio, and a
batch has a third kind of order, swaps, which are performed after buys and sells.
So it is a module of its own, `Swapper`. State and actions are those of section 3,
with coins of two denominations for amounts (`currentReserve`, `buyPrices`, `funds`),
`swaps` for the third list and `sanity` for the sanity rate and margin. New actions:

| Action | In the code |
|---|---|
| `FirstBuy` | `performFirstSwapperFunctionBuy`: at once, outside of the batch |
| `Swap` | `handleMsgSwap` with `AddSwapOrder`: the input is locked |
| `PerformSwap` | one turn of `PerformSwapOrders` that succeeds: output from the product of the reserves, fee, sanity rate |
| `CancelSwap` | one that does not: the order is cancelled and refunded, not a panic |

### Properties

* `BooksAgree`: supply, locked coins of buys and swaps, reserve and all coins, at
  every step.
* `PoolNeverDiluted`: a batch goes to EndBlocker at prices that leave at least as
  much reserve per bond token as before; its buys and sells move exactly the coins
  that those prices say; no swap lowers the product of the two reserves. Prices are
  rounded at the scale of `Unit`, so the first of these is stated for pools and batches
  below that scale (`PoolBelowScale`), and for a batch as a whole: a later buyer may
  gain from what rounding made an earlier one pay.
* `NoPaymentWithoutReturn`: nobody gives up coins without bond tokens or coins of the
  other kind; whatever is cancelled, at whatever point, is refunded with its fee.
* `HaltsOnlyOnLatePrices`: the two panics of section 3 exist here too; a swap never
  halts the chain. Here a cancellation can move a price up as well as a sell: with fewer
  buys in the batch the reserve they need is a smaller number, rounded up all the same, so
  the price per token may rise above the maximum of a buy that stays
  (`CancelUnfulfillableBuys` looks at each order once). The property
  says that nothing else can: at prices that no sell and no cancellation has changed,
  each buy is performed, and in an open bond each sell finds its returns in the reserve.
  It is stated for batches of less than twice the scale of the decimals (10^18 tokens);
  beyond that the half unit by which a price per token is rounded adds up to a whole
  reserve token, which a buyer may not have allowed for.

Met on the way: the first buy (`x/bonds/handler.go:322`) does not look at
max_supply, while `x/bonds/spec/03_messages.md:146` says that a buy beyond it fails.


## 5. The payments module

### State

| Variable of `Payments` | In the code |
|---|---|
| `templates`, `contracts`, `subscriptions` | the three stores of the module, by id |
| `funds` | the coins of each account, kept by the bank |
| `pool` | the coins of the module account `PayRemainderPool` |
| `height`, `time` | `BlockHeight` and `BlockTime` of the context |
| `next` | 0 while transactions are delivered, then the position of EndBlocker's iterator |
| `halted` | EndBlocker has panicked |
| `history` | not in the code: for each subscription its first start and the number of payments, to state what "one payment per period" means |

The discounts of a template are a sequence, because `Discounts.Validate` demands
the ids 1, 2, 3 and so on: the id of a discount is its position. Subscription
ids are numbers because the iterator goes through the keys in order. Amounts
are functions from denominations to numbers; a denomination that is missing
from `sdk.Coins` has the amount 0. Where the SDK makes a difference between
missing and zero (`IsAllGT`, `IsAnyGT`, `DenomsSubsetOf`), the definitions do.

An account may be one of delayed vesting: of its coins it cannot spend `Vesting` before
the time `VestingEnd`. The other kinds of vesting accounts release the same coins in
parts; what matters here, that the check and the transfer count differently, is the same.

### Actions

| Action | In the code |
|---|---|
| `CreatePaymentTemplate`, `CreatePaymentContract`, `CreateSubscription` | the handlers of these names, with the `Validate` methods |
| `SetPaymentContractAuthorisation`, `GrantDiscount`, `RevokeDiscount` | the handlers of these names |
| `EffectPayment` | `handleMsgEffectPayment`; a payment that is not effected is an error there |
| `BeginEndBlock`, `SkipSubscription` | the iteration of `EndBlocker` |
| `EffectSubscriptionPayment`, `MissSubscriptionPayment` | `Keeper.EffectSubscriptionPayment`, effected or not |
| `Panic` | the `panic(err)` of `EndBlocker`, and panics in what it calls |
| `NextBlock` | the next block, later by one of `BlockTimes` |

`Keeper.EffectPayment` has three outcomes, and who calls it decides what they
mean. The definitions `Effected`, `NotEffected` and `Failed` partition its
paths: an effected payment is `Transfer`; a payment that is not effected
(not authorised, maximum reached, payer without coins) is an error of a
transaction and a missed period of a subscription; an error or panic rolls a
transaction back and stops EndBlocker.

### Properties

* `PoolIsRemainders`: one account holds the remainders of all contracts, and
  each contract has its own record of it. They agree at every step.
* `CoinsAccounted`: rounding leaves less than one coin per recipient, and it
  does not add up from payment to payment (`RemainderIsSmall`); payer, recipients
  and pool together keep every coin, also when the payer is one of the recipients
  (`CoinsConserved`).
* `MaximumKept`: about the sum of all payments of a contract, by transactions and by
  however many subscriptions.
* `ImplementsAgreement`: the refinement described below.
* `PeriodsAccounted`: every period that has passed was paid once or is still
  due. `NoPeriodBeforeItsEnd`: none is counted early, in blocks or in time.
* `HaltsOnlyOnBadTerms`: what can stop the chain is decided when the contract is
  created or its discount is granted. Missing funds, a reached maximum,
  withdrawn authorisation or a used-up pool never do it. The one exception is a
  payer with the coins who may not spend them yet: `HasCoins` counts coins that are
  still vesting, the transfer does not (`StillVesting`).
* `OnlyAuthorisedPayments`: a step takes coins from an account only by a
  contract which that account has authorised, and no more than the contract
  adds to its cumulative pay.
* `SubscriptionsComplete`: a subscription that can be paid from some time on is
  completed, all missed periods included.

### The abstract specification

`Agreement` says what the module promises to the parties of a contract, and nothing
of how: there are no templates, discounts, subscriptions, blocks or pools in it. An
agreement has a minimum, a maximum, a number of shares and what has been paid and
received so far. Three things can happen to it. It is agreed, unauthorised and with
nothing paid. The payer changes the authorisation, back only if it is revocable. Or
it is paid: only while authorised, paid and received only ever grow, and afterwards
the sum of the payments is at least the minimum, at most the maximum, and all of it
has been received but for less than one coin per share. No other agreement is touched,
and no agreed term ever changes.

`AllAgreements` is the refinement mapping: the limits of a contract are looked up in
its template, the received coins are its cumulative pay less its current remainder.
`ImplementsAgreement` is the abstract specification under that mapping. It is checked
in the run `payments_shared` and proved in `Agreement_proofs`. It would fail if, for
example, a template could be replaced, a discount could take a first payment below
its minimum, or a subscription were paid by another contract.

### Disagreements met on the way

* `handleMsgGrantDiscount` checks the discount id "to avoid invalid discount IDs";
  `handleMsgCreatePaymentContract` takes any id. Once the contract is authorised and
  has a subscription, EndBlocker panics. `BadTerms` lists this case.
* Shares that are valid percentages with 18 decimals do not survive the division by
  100. "Distributed amount should equal original amount" then fails, with a panic;
  this too is in `BadTerms`.
* The payment of a vesting account passes `HasCoins` and fails in the transfer, which
  EndBlocker takes for a reason to panic (`StillVesting`). `payments_terms` gets there.


## 6. The project module

### State

| Variable of `Projects` | In the code |
|---|---|
| `projects` | the project documents: creator (`SenderDid`), status, and of the data only the fees map |
| `accounts` | the keys of each project's account map; the addresses in it follow from project and id |
| `claims`, `withdrawals` | the stores of these names |
| `contracts` | the contracts that evaluations have put into the store of the payments module |
| `funds`, `pool` | the bank's balances, the account of remainders apart as in `Payments` |
| `exists` | which addresses the auth module has an account for |
| `params` | the parameters, which governance can change at any time |

The account `<<p, id>>` has the address that `supply.NewModuleAddress` makes of
project and id. It has no key. It can nevertheless be sent coins, before the
project exists too, and that is how an address can be taken when
`CreateNewAccount` wants to create it.

### Actions

| Action | In the code |
|---|---|
| `CreateProject`, `FailToCreateProject` | the ante handler of project creation, followed by `handleMsgCreateProject` that succeeds or fails; what the ante handler has charged stays charged |
| `UpdateProjectStatus`, `FundProject`, `PayOutProject` | `handleMsgUpdateProjectStatus`, without side effects, with the check of the minimum funding, and with the payout of fees |
| `CreateAgent`, `CreateClaim` | the handlers of these names |
| `CreateEvaluation` | `handleMsgCreateEvaluation`, with `processPay` for the oracle and then for the claimer |
| `WithdrawFunds` | `handleMsgWithdrawFunds` with `payoutAndRecon` |
| `Send`, `ChangeParams` | what other modules do to this state: transfers and parameter changes |

An evaluation makes up to two payments in one transaction, the second with the
coins that the first has left. `Payments(l)` is an instance of the module
`Payments` on a ledger `l` of coins, pool and contracts; `ProcessPay` maps a
ledger to the next one with the definitions that `Payments` itself uses for its
`EffectPayment`. So an evaluation is one action, its two payments are two
applications of the same definition, and amounts, shares, remainders, minimum and
maximum are those of section 5, not a second version of them.

### Properties

* `AccountsInOrder`: two errors in the creation of accounts are
  dropped in the code. They do no harm: the fee accounts always exist, the
  account map names only accounts that exist, and a project whose own account
  could not be created never gets past `PENDING`.
* `CoinsAccounted`: no coin is made or lost over all accounts, and the pool holds the
  remainders of all contracts, for all these actions.
* `EvaluationsArePaid`: contracts and claims, which are in two stores, agree: each
  approved claim has been paid for once, and each evaluated one has paid an
  oracle. (At least once: an evaluation may set the claim to pending again.)
* `PanicsOnlyBelowMinimum`: the `panic` of `processPay`, which expects a payment it
  has found possible to be effected, is reached only where a first payment is
  raised to a minimum that the project cannot afford.
* `EvaluationsCanBePaid`: the other direction. A payment of an evaluation whose project
  can afford amount and minimum, whose maximum has not been reached, and in which
  nobody's share is zero by today's parameters (`Unobjectionable`) is made, whatever was paid,
  sent or changed before. The recipients of a contract are those of its first payment, so
  this is also about contracts older than the parameters. What is left of the ways in
  which a parameter change stops evaluations is a percentage of 0 or 100, which `ValidateParams`
  accepts, and, for new contracts, shares that are not the whole as fractions.
* `OnlyRecordedPayouts`: whatever leaves the accounts of a project is in the cumulative
  pay of its contracts or in its list of withdrawals.
* `WithdrawnByOwner`: after the work, the account of an agent is emptied by the agent
  and the account of the project by its creator or under the project's own DID.

`StoresFitStatus` (claims, payments and withdrawals exist only in the statuses in which the
code can make them) is no question of its own: it is a part of the inductive invariant
of section 9, proved as `StatusCorrect`.

### Findings

* `projects_funding`: the minimum funding is compared with `IsAnyGT`, which skips
  denominations that the account has nothing of. An empty account passes.
* `projects_payout`: the payout of fees is a transfer, and a transfer of nothing is an
  error. A project that has charged no fees stays `STOPPED`, and its funds stay
  with it, until somebody sends coins to the address of one of its fee accounts. The run
  sends coins to other accounts only.

### Genesis

`ProjectsGenesis` puts a chain of projects into a loop: it runs, is exported at any state,
and is started again from what was exported. Its state is that of `Projects`, the
exported `GenesisState` and `phase`. `ExportGenesis` writes the four lists of
`x/project/genesis.go` in the order of the store's keys; `InitGenesis` reads them back by
index, with the bounds of its loops as they are in the code; `InitGenesisPanics` is the
index out of range. Accounts, coins and contracts travel with other modules' genesis.

* `projects_import`: "Initialise project docs, account maps, project withdrawals, claims"
  reads as many claims of each project as there are projects. A chain with a project
  that has fewer claims cannot be started again, and one that has more loses them.

## 7. Transactions: messages, ante handlers, did and treasury

`Messages` has a sheet for each of the 27 messages of the modules: the module that handles
it, the DID that has to sign it, and what `ValidateBasic` demands of its fields.

`Chain` takes such messages to the handlers. A client signs a body, a fee and a sequence
number with a key; `Tx` is the set of everything that could ever have been signed, and
`Deliver` takes any member of it, so transactions arrive early, late, twice or never.

| Variable of `Chain` | In the code |
|---|---|
| `accounts` | the sequence number of each account the auth module has |
| `balance`, `supply` | the bank's balances and the total of the supply module |
| `docs` | DID documents: key and credentials |
| `projects` | the key in each project document |
| `spent` | not in the code: key and sequence number of what was accepted |

| Definition | In the code |
|---|---|
| `DefaultAnte`, `AfterDefaultAnte` | `NewDefaultAnteHandler` of `x/ixo/internal/types/auth.go` |
| `CreationAnte`, `AfterCreationAnte` | `NewProjectCreationAnteHandler` of `x/project/auth.go` |
| `PubKey` | the key getters of did and project |
| `SignData` | the route that tells a client what to sign |
| `AddDid`, `AddCredential` | the handlers of `x/did` |
| `Send`, `OracleTransfer`, `OracleMint`, `OracleBurn` | the handlers of `x/treasury` and `Keeper` |
| `CreateProject` | `handleMsgCreateProject`, as far as keys and accounts go |
| `OnlyAnte` | a message of another module, and every message that fails: what the ante handler did remains |

### Properties

* `AtMostOnce`: a transaction that was accepted is refused for ever after, whatever
  happens to account, fee and documents in between. Creations sign sequence 0 for an
  account that must not exist, so this takes `LedgersAgree`.
* `LedgersAgree`: supply against the coins of all addresses, sequence numbers against the
  accepted transactions, coins against accounts; after failed messages too.
* `FreshSignaturesPass`: what the client is given to sign for a DID that can pay is accepted.
  Client and chain compute key, sequence and payer in different places.
* `CoinsFollowAuthority`: in the transactions whose effects `Chain` has, those of did,
  treasury and project creation, coins leave an account by its own signature, by an oracle that may
  transfer or burn that denomination, or to pay for a project's creation; the supply
  changes only by an oracle that may mint or burn. What EndBlocker and the messages of
  payments, projects and bonds move is the business of `OnlyAuthorisedPayments`,
  `OnlyRecordedPayouts`, `WithdrawnByOwner` and `CoinsConserved`.
* `DidsArePermanent`: a document and its key stay, credentials are only added, without
  repeats.

### What the modelling brought to light

Behaviour that the models contain and that a reader of the code may not expect:
`MsgCreateProject` does not hold the project's DID against `IsValidDid`, so a project with
another prefix can be created, but none of its later messages passes `ValidateBasic`.
Coins sent to a project's address before its creation make the account and so block the
creation. A creation whose message fails leaves the fee and the account. The creation is
paid by the sender DID that the message names. `did:ixo` and `did:sov` DIDs of one key
share an account and its sequence. A stored credential with fewer than two types makes
the comparison with later ones of its issuer panic, and so refuses them. Oracle transfer
and burn take coins from an account whose owner has not signed, which is what their
capabilities are for.

## 8. The runs

The modules beginning with MC define the values that a `.cfg` cannot: curves, terms,
funds, parameters, messages. The bounds of a run are the constants with the comment
"bound" in the modules and the values in the `.cfg`. Rounding, cancellation, refunds,
missed payments, failed messages and panics all occur within them, which the mutants
show: for each property the project holds a plausible mistake in the code that the
run of the property finds.

| Run | What is in it | What it shows |
|---|---|---|
| `bonds_power` | two accounts, price rising with the supply, max supply 4, orders of 1 and 2, max prices below and above the prices, two orders of each kind per batch, batches of two blocks, transaction fee 10 %, exit fee 5 %, under `FairSpec` | all books of section 3, and that every batch is performed or the chain has halted |
| `bonds_hatch` | an augmented bond whose S0 is not an integer, with and without an order limit | hatch phase and life of the bond |
| `swapper` | two accounts, a pool whose ratio its first buyer sets, buys and sells of 2 and 3, swaps of 3 either way, two orders per batch, two batches of one block, transaction fee 25 %, exit fee 5 %, a sanity rate that is met and violated and one that is off, an order limit | the books of section 4, that nobody's share is diluted and every cancelled order refunded, and what can halt |
| `payments_shared` | one template with a minimum and a maximum, two contracts, two subscriptions, payments that do not divide, a payer who runs out of coins and withdraws and renews his authorisation, payments missed and made up for | all books of section 5, and the refinement of `Agreement` |
| `payments_terms` | two denominations, templates with the minimum or the maximum in one of them only, a full discount, an invalid discount id, shares that are not exact, a payer whose coins are vesting up to time 4, periods in time, blocks that are 1 or 3 units of time apart, under `FairSpec` | the halting conditions, the maximum per denomination, periods and completion |
| `projects` | one project, alice who creates it and claims, bob who claims and evaluates, two claims, coins sent to the accounts of the project and of bob before or after they exist, fees with a remainder or with minimum and maximum or with an unknown template, parameters that change (half or all of the oracle's pay is charged, or shares that are not the whole as fractions; a minimum funding that has and one that has not been reached), three withdrawals | all books of section 6 |
| `chain` | four keys, of which one belongs to two DIDs and one to a project that is yet to be created; an oracle with two entries for one token; every type of message, malformed ones among them; two fees of which one is too high for some; two transactions per account | all properties of section 7 |
| the five runs with findings (`bonds_buy_panic`, `bonds_sell_panic`, `projects_funding`, `projects_payout`, `projects_import`) | as small as they can be | a counterexample each |

`Unit` is small (100 for bonds, 4 or 10 for payments, 4 for projects), which makes rounding an
everyday event. The bounds on clocks: in `Payments`, height and time stop at
`MaxClock` instead of running on. The assumption on `SubscriptionTerms` puts the
end of the last period before `MaxClock`, so that whatever ends can end; after
that no comparison with the clock changes any more. In `chain`, `MaxSequence` 1 is the
smallest bound with a second transaction of an account, which is what a replay, a fee
after a failure and a key that is looked up again take; the theorems do without it.

Fairness. `FairSpec` of `Bonds` and `Payments` is weak fairness of the steps of
EndBlocker, which includes the step to the next block: validators keep producing
blocks, and the end blocker of a block runs to its end or panics. Transactions
are under no fairness at all. `SubscriptionsComplete` therefore assumes of the
payer only what it states: that from some time on the payment can be made. `Chain` has
no liveness: nothing obliges a client to sign or a node to deliver.

Deadlock is checked except where the bounded model really may stop: a bond
has a bounded number of blocks and orders in some runs, the accounts of `chain` have a
bounded number of transactions, and a chain that has halted does nothing more in the
runs whose terms allow a halt.

## 9. The proofs

The theorems hold for all values of the constants that satisfy
`UnitAssumption` (a positive unit), `BondAssumption` (finite sets of accounts,
parameters within the ranges that `ValidateBasic` allows, curve tables of
non-negative numbers), `PaymentAssumption` (finite sets of accounts,
denominations and ids, terms that have the types of the messages),
`ProjectAssumption` (finite sets of DIDs, projects and claims; persons, projects and
modules have different addresses, and no DID is the id of a fee account; templates with
coins; a transaction fee that is part of the whole fee), `SwapperAssumption` (two different
reserve tokens, a finite set of accounts, parameters in their ranges) and `ChainAssumption`
(finitely many addresses, a fee collector without a key, coins at the start only where there
is an account). Every property of a passing run is a theorem but two, which the last
paragraph of this section names.

Bonds. `BooksInv` is the conjunction of the type invariant and the books
(`SupplyInvariant`, `LockedInvariant`, `TotalsInvariant`, `MaxSupplyInvariant`,
`ReserveBacked`). None of them is inductive alone: that a refund leaves a
non-negative balance in the intermediary account needs `LockedInvariant`, that
the reserve account stays non-negative needs `ReserveBacked`, and that a sell
does not lower the supply below zero needs `SupplyInvariant`. There is a lemma
per action; `Cancel`, which may take out any set of buys, is handled by the
lemmas about sums (`Amounts_proofs`): a sum over a union, over a subset, after an
update. `BondsLife_proofs` adds the hatch phase and the order of the states on
top of `BooksInv`, and `ShareNeverDiluted` from the arithmetic of a truncated
share (`Amounts_proofs`). The coins are a section of their own: each action takes as
much from some accounts as it gives to others, `RefundSum` for a refund to whichever
accounts the cancelled orders are of (`CoinsConserved`). `NoPaymentWithoutTokens` is
`BuyWealth`, what an account's orders have locked before and after a buy comes in and
cancels others, and `PerformBuyWealth`; the latter needs that every order is for some
tokens, which is the one addition to the invariant (`OrdersPositive`).

What EndBlocker can do to a bond takes a second invariant, `BatchInv`, about the orders
that are left at any point of the batch: every live buy is covered by its maximum at the
last prices (`LastPrices`); the prices are those of the orders (`FreshPrices`, `HatchPrices`);
the reserve pays the sells that are left (`ReturnsCovered`); and the reserve that the rest
of the batch will leave is the one the curve calls for at the supply it will leave
(`CurveCovered`), which when no batch is under way is `ReserveFollowsCurve`. Three lemmas
carry it. `QuoNear`: n times a
rounded quotient by n lies within n smallest fractions of the dividend, which bounds what
the price per token can take from a batch or add to it. `BatchPricesCover`: after the last
look at a batch its charges cover what the curve asks for. `HatchReserveGrows`: although
the hatch reserve is rounded twice, it never grows by more than a buy is charged. While
EndBlocker runs, the reserve that the batch will leave (`ReserveAfter`) never falls: each
step rounds in favour of the reserve, and this is what lets the next batch start from the
bound again. `BuyIsCovered` and `SellIsCovered` then leave late prices and settled bonds as
the only reasons of a panic (`PanicHalts`).

Swapper. `BooksInv` is types, supply, locked coins, reserve and the conservation of coins
(`BooksAgree`), and what these need of the batch: totals and prices of the orders that are
left (`BatchTotals`), phases of a batch in their order (`BatchRuns`), and that a swap
exchanges one token for the other (`SwapsExchange`), without which a swap could find the
locked coins of another order under its own denomination. `HaltInv` adds the prices of the
last look (`LastPrices`) and `ReturnsCovered`: the shares of the pool that the sells of a
batch are owed are within the pool as it stands, through every swap and buy before them,
by the rounding of decimals as in `Bonds`.

`PoolNeverDiluted` needs of the batch only `FreshPrices` (`PoolInv`). `BatchKeepsShares` is
its arithmetic: each of the two rounded numbers of a price per token, the share of the pool
and the quotient, is off by less than one smallest fraction, which over supply and batch is
less than one coin as long as supply times reserve and batch is below the scale of the
decimals (`PoolBelowScale`). The bound on the batch belongs there: without it the
statement is false. A pool of 1 coin and 3 tokens, decimals of two digits and a
buy of 100 tokens: the buyer pays a price of 0.33 each, 33 coins for tokens whose share is
33 1/3. `ProductKept` is the product of the reserves under a division that rounds down.

Payments. `PaymentsInv` is types, `StoresAgree`, `PoolIsRemainders`,
`MaximumKept`, `PeriodsAccounted`, `PeriodsInPlace`, `NoPeriodBeforeItsEnd`. The
pool covers the remainder a payment takes out only if it holds the sum of all
of them, so types need `PoolIsRemainders`; the maximum of a contract stays the
same only because templates are never replaced and contracts refer to templates
that exist (`StoresAgree`); that a period has ended follows from its start,
and that the start is where it belongs is `PeriodsInPlace`. `TransferFacts` is
the lemma about the payment itself, used for transactions and for EndBlocker;
`AfterPaymentInOrder` is the one about the counts and the period of a
subscription.

Projects. `StoresInv` is `AccountsAgree`, `OwnAccountWhenFunded`, `StoresFitStatus` and
`StoresByProject`: the stores have entries for existing projects only, which is why
a new project starts without claims, payments or withdrawals. Two lemmas carry the
actions: `StatusKept` for those that change the status of a project, `WorkKept` for
those that do not; `AccountsKept` is the one about accounts that are created on
first use. The payments of an evaluation enter only with `ContractsAfterPay`: a
payment adds at most its own contract. The coins
take more: `CoinsInv` is `StoresInv`, the types of what is stored (`TypesInv`) and the
ledger of the payments module as a project sees it (`LedgerOK`): all contracts of a project
are its own, payer and template included, with the remainders that the pool holds. Without
it a payment, payout or withdrawal might find a contract under its id that pays from another
account. A ledger that is `LedgerOK` stays so through each of the payments of an
evaluation, in any order; `CoinsAccounted`, `EvaluationsArePaid`, `OnlyRecordedPayouts`
and `WithdrawnByOwner` follow with sums over accounts and contracts. `PanicsCorrect`
follows the payment through discount, share and remainder to the one failure that is left,
a minimum that the project cannot afford. `EvaluationsPayable` follows it
the other way (`PaymentIsMade`): contracts of projects are always authorised, below the
maximum there is something to pay (`PaymentIsSomething`), shares that are the whole are
exact (`SharesAreExact`), the pool covers the remainder of each of its contracts, and the
account of a started project is there.

Agreement. `PromiseInv` adds to `PaymentsInv` that stored templates are valid, that a
contract which has been paid has reached its minimum, that remainders are small and
that coins are conserved. Three lemmas carry it. `MinimumReached`: only the first
payment is raised to the minimum, and only in denominations in which the discount
leaves something; so the minimum is reached in all of them because a discount leaves
something of every amount or of none (`DiscountInAll`). `RemainderBound`: each
recipient's part loses less than one coin by truncation, so the sum of the parts loses
less than one per recipient, by `SumMonotone`, `SumPlus`, `SumTimes` and `SumConstant`.
`PaymentConserves`: what the accounts receive is what the shares pay out, however often
an account occurs among them (`SumByGroup`: totals by holder add up to the total). Then
every action is a step of `Agreement` or leaves `AllAgreements` as it is
(`StepPromised`), which is the refinement. `HaltsCorrect` follows the payment to its
end instead: a fraction is at most one, so a discount is at most the amount
(`DiscountBelowAmount`); below the maximum there is something to pay
(`SomethingToPay`); shares that are the whole distribute exactly what they are given
(`SharesAddUp`); and the pool covers the remainder of the contract because it is the sum of
all of them. So a payment that is authorised and within the maximum fails on bad terms
only (`FailsOnBadTerms`).

Chain. `ChainInv` is types, `LedgersAgree` and that documents and projects hold the key
their DID is made from. Supply and balances agree after every transfer by `SumUpdate`, the
sender as recipient included; that a fee never leaves a key with coins but without
an account needs the ledger of accounts; and `AtMostOnce` follows because the sequence
numbers below that of an account are exactly those spent. Every property of the run
`chain` is a theorem, for every set of keys, capabilities, fees and messages.

Model-checked only, since out of the prover's reach: `BatchIsPerformed` and
`SubscriptionsComplete` (liveness under fairness), and what the
recursive functions of `BondCurves` compute, which `bonds_power` and `bonds_hatch` use for
their tables.

## 10. What is not modelled

* Bonds: bonds of other functions with several reserve tokens; several bonds sharing the
  module accounts; the descriptive fields (name, description); the last batch, which only
  queries read; transfers of bond tokens between accounts. The bounds of a run
  replace gas and block size.
* Payments: reserved id prefixes and the blacklist of module accounts (the
  accounts of the model are ordinary ones), vesting other than delayed vesting, wording
  and format of ids.
* Identity: in `Bonds`, `Swapper`, `Payments` and `Projects` the sender of a message is a
  parameter; that it is who it claims to be is shown once, in `Chain`.
* Signatures are what they were made over: key, body, fee and sequence. Gas, memo, chain id,
  account numbers and the cryptography are left out.
* Overflow: amounts are `sdk.Int`, whose 256 bits panic on overflow; the models
  use unbounded numbers. `int64` start blocks and `time.Duration` lengths near
  their limits are excluded by the assumption on the clock.
* Project: `MsgUpdateAgent`, which changes nothing; the data of a project other than its
  fees map; the uniqueness of claim ids is per project. The contracts of a
  project can be effected by nobody else, since their creator is an account
  without a key, so `Projects` needs no action for that.
* Genesis of bonds, payments, did and oracles: export and import copy each store to a list
  and back, one entry at a time; there is nothing to get wrong but a forgotten store.
* Clients, queriers, commands, apart from what a client is given to sign: they change no
  state.

## 11. The plan

Done: `Sums`, `Decimals`, `Coins`, `BondCurves`, `Bonds`, `Swapper`, `Agreement`, `Payments`,
`Projects`, `ProjectsGenesis`, `Messages`, `Chain`, with the theorems of section 9.

Next, in this order:

1. `BondMarket`: several bonds on shared module accounts, each one implementing
   `Bonds` (INSTANCE with a refinement mapping), to show that sharing is safe.
2. An abstract `Escrow` (locked, refunded or spent, each coin once) implemented by
   the orders of `Bonds` and `Swapper`.
