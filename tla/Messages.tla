------------------------------ MODULE Messages ------------------------------
(***************************************************************************)
(* The messages of the ixo modules.  For each of them: the module that     *)
(* handles it (Route), the DID that has to sign it (GetSignerDid) and      *)
(* whether it passes ValidateBasic.  The fields have the names of the Go   *)
(* structs.  A DID field that is not in Did is empty or malformed, and so  *)
(* on for the other sets; compound payloads (a template, a distribution, a *)
(* period, function parameters) are members of WellFormed when they pass   *)
(* their own Validate, which Payments and Bonds model.                     *)
(***************************************************************************)
EXTENDS Coins

CONSTANTS
  Key,        \* the public keys; the address of an account is made from one
  Did,        \* the strings that IsValidDid accepts
  KeyOf,      \* the strings whose unprefixed part is made from a key
  Address,    \* the addresses of accounts, those of Key among them
  Id,         \* the valid ids of templates, contracts and subscriptions
  WellFormed  \* the payloads that are valid

ASSUME MessagesAssumption ==
  Key \subseteq Address /\ KeyOf \in [DOMAIN KeyOf -> Key] /\ Did \cap Address = {}

Sheet(route, signer, valid) == [route |-> route, signer |-> signer, valid |-> valid]

-----------------------------------------------------------------------------
(* x/did *)

\* The DID has to be made from the key, so it cannot be added with another one.
MsgAddDid(m) == Sheet("did", m.Did,
  m.Did \in Did \cap DOMAIN KeyOf /\ m.PubKey = KeyOf[m.Did])

\* The claim's DID only has to be there; the issuer signs.
MsgAddCredential(m) == Sheet("did", m.Issuer, m.Id # "" /\ m.Issuer \in Did)

-----------------------------------------------------------------------------
(* x/treasury *)

DidOrAddress == Did \cup Address

MsgSend(m) == Sheet("treasury", m.FromDid,
  m.FromDid \in Did /\ m.ToDidOrAddr \in DidOrAddress /\ m.Amount \in CoinSet)

\* The oracle signs; the DID that the coins are taken from does not.
MsgOracleTransfer(m) == Sheet("treasury", m.OracleDid,
  /\ {m.OracleDid, m.FromDid} \subseteq Did /\ m.ToDidOrAddr \in DidOrAddress
  /\ m.Amount \in CoinSet /\ m.Proof # "")

MsgOracleMint(m) == Sheet("treasury", m.OracleDid,
  /\ m.OracleDid \in Did /\ m.ToDidOrAddr \in DidOrAddress
  /\ m.Amount \in CoinSet /\ m.Proof # "")

MsgOracleBurn(m) == Sheet("treasury", m.OracleDid,
  {m.OracleDid, m.FromDid} \subseteq Did /\ m.Amount \in CoinSet /\ m.Proof # "")

-----------------------------------------------------------------------------
(* x/project: the project signs, except for withdrawals *)

\* Neither DID is held against IsValidDid: the project's may have any prefix.
MsgCreateProject(m) == Sheet("project", m.ProjectDid,
  m.ProjectDid \in DOMAIN KeyOf /\ m.PubKey = KeyOf[m.ProjectDid] /\ m.Data \in WellFormed)

MsgUpdateProjectStatus(m) == Sheet("project", m.ProjectDid,
  {m.ProjectDid, m.SenderDid} \subseteq Did)

MsgCreateAgent(m) == Sheet("project", m.ProjectDid,
  {m.ProjectDid, m.SenderDid, m.AgentDid} \subseteq Did)

MsgUpdateAgent(m) == Sheet("project", m.ProjectDid,
  {m.ProjectDid, m.SenderDid, m.Did} \subseteq Did)

MsgCreateClaim(m) == Sheet("project", m.ProjectDid,
  {m.ProjectDid, m.SenderDid} \subseteq Did)

MsgCreateEvaluation(m) == Sheet("project", m.ProjectDid,
  {m.ProjectDid, m.SenderDid} \subseteq Did)

MsgWithdrawFunds(m) == Sheet("project", m.RecipientDid,
  /\ {m.SenderDid, m.ProjectDid, m.RecipientDid} \subseteq Did
  /\ m.SenderDid = m.RecipientDid /\ m.Amount > 0)

-----------------------------------------------------------------------------
(* x/payments *)

MsgCreatePaymentTemplate(m) == Sheet("payments", m.CreatorDid,
  m.CreatorDid \in Did /\ m.PaymentTemplate \in WellFormed)

MsgCreatePaymentContract(m) == Sheet("payments", m.CreatorDid,
  /\ m.CreatorDid \in Did /\ m.Payer \in Address
  /\ {m.PaymentTemplateId, m.PaymentContractId} \subseteq Id /\ m.Recipients \in WellFormed)

\* The id of the contract is not looked at.
MsgCreateSubscription(m) == Sheet("payments", m.CreatorDid,
  m.CreatorDid \in Did /\ m.SubscriptionId \in Id /\ m.Period \in WellFormed)

MsgSetPaymentContractAuthorisation(m) == Sheet("payments", m.PayerDid,
  m.PayerDid \in Did /\ m.PaymentContractId \in Id)

MsgGrantDiscount(m) == Sheet("payments", m.SenderDid,
  m.SenderDid \in Did /\ m.Recipient \in Address /\ m.PaymentContractId \in Id)

MsgRevokeDiscount(m) == Sheet("payments", m.SenderDid,
  m.SenderDid \in Did /\ m.Holder \in Address /\ m.PaymentContractId \in Id)

MsgEffectPayment(m) == Sheet("payments", m.SenderDid,
  m.SenderDid \in Did /\ m.PaymentContractId \in Id)

-----------------------------------------------------------------------------
(* x/bonds *)

MsgCreateBond(m) == Sheet("bonds", m.CreatorDid,
  {m.BondDid, m.CreatorDid} \subseteq Did /\ m.Parameters \in WellFormed)

\* Edits is the set of the fields that are not "[do-not-modify]"; a field that
\* is not to be edited holds that text and is therefore not empty.
MsgEditBond(m) == Sheet("bonds", m.EditorDid,
  {m.BondDid, m.EditorDid} \subseteq Did /\ m.Edits # {})

MsgBuy(m) == Sheet("bonds", m.BuyerDid,
  {m.BuyerDid, m.BondDid} \subseteq Did /\ m.Amount > 0 /\ m.MaxPrices \in CoinSet)

MsgSell(m) == Sheet("bonds", m.SellerDid,
  {m.SellerDid, m.BondDid} \subseteq Did /\ m.Amount > 0)

MsgSwap(m) == Sheet("bonds", m.SwapperDid,
  /\ {m.SwapperDid, m.BondDid} \subseteq Did
  /\ {m.FromToken, m.ToToken} \subseteq Denom /\ m.FromToken # m.ToToken /\ m.FromAmount > 0)

MsgMakeOutcomePayment(m) == Sheet("bonds", m.SenderDid,
  {m.SenderDid, m.BondDid} \subseteq Did)

MsgWithdrawShare(m) == Sheet("bonds", m.RecipientDid,
  {m.RecipientDid, m.BondDid} \subseteq Did)

-----------------------------------------------------------------------------
\* The sheet of a message by its Type.
SheetOf(m) ==
  CASE m.type = "add-did"                -> MsgAddDid(m)
    [] m.type = "add-credential"         -> MsgAddCredential(m)
    [] m.type = "send"                   -> MsgSend(m)
    [] m.type = "oracle-transfer"        -> MsgOracleTransfer(m)
    [] m.type = "oracle-mint"            -> MsgOracleMint(m)
    [] m.type = "oracle-burn"            -> MsgOracleBurn(m)
    [] m.type = "create-project"         -> MsgCreateProject(m)
    [] m.type = "update-project-status"  -> MsgUpdateProjectStatus(m)
    [] m.type = "create-agent"           -> MsgCreateAgent(m)
    [] m.type = "update-agent"           -> MsgUpdateAgent(m)
    [] m.type = "create-claim"           -> MsgCreateClaim(m)
    [] m.type = "create-evaluation"      -> MsgCreateEvaluation(m)
    [] m.type = "withdraw-funds"         -> MsgWithdrawFunds(m)
    [] m.type = "create-payment-template" -> MsgCreatePaymentTemplate(m)
    [] m.type = "create-payment-contract" -> MsgCreatePaymentContract(m)
    [] m.type = "create-subscription"    -> MsgCreateSubscription(m)
    [] m.type = "set-payment-contract-authorisation" -> MsgSetPaymentContractAuthorisation(m)
    [] m.type = "grant-discount"         -> MsgGrantDiscount(m)
    [] m.type = "revoke-discount"        -> MsgRevokeDiscount(m)
    [] m.type = "effect-payment"         -> MsgEffectPayment(m)
    [] m.type = "create_bond"            -> MsgCreateBond(m)
    [] m.type = "edit_bond"              -> MsgEditBond(m)
    [] m.type = "buy"                    -> MsgBuy(m)
    [] m.type = "sell"                   -> MsgSell(m)
    [] m.type = "swap"                   -> MsgSwap(m)
    [] m.type = "make_outcome_payment"   -> MsgMakeOutcomePayment(m)
    [] m.type = "withdraw_share"         -> MsgWithdrawShare(m)

ValidateBasic(m) == SheetOf(m).valid
GetSignerDid(m) == SheetOf(m).signer

\* The project itself signs its messages, and its doc holds the key.
SignedByProject(m) == SheetOf(m).route = "project" /\ m.type # "withdraw-funds"

=============================================================================
