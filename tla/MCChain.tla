------------------------------- MODULE MCChain -------------------------------
(***************************************************************************)
(* Four keys: two users, an oracle, and a project that is yet to be        *)
(* created.  Every message type occurs, the ones with handlers of their    *)
(* own in Chain in several forms, two of them malformed.                   *)
(***************************************************************************)
EXTENDS Chain, TLC

Coin(native, x) == ("ixo" :> native) @@ ("x" :> x)

\* did:sov:A and did:ixo:A are made from one key, and so are two DIDs with one account.
MCKeyOf == ("did:ixo:A" :> "A") @@ ("did:sov:A" :> "A") @@ ("did:ixo:B" :> "B")
           @@ ("did:ixo:O" :> "O") @@ ("did:ixo:P" :> "P") @@ ("did:prj:P" :> "P")
MCDid == {"did:ixo:A", "did:sov:A", "did:ixo:B", "did:ixo:O", "did:ixo:P", "did:ixo:bond"}

MCBalance == ("A" :> Coin(6, 1)) @@ ("O" :> Coin(2, 0)) @@ ("B" :> Coin(0, 0))
             @@ ("P" :> Coin(0, 0)) @@ ("fees" :> Coin(0, 0))

\* The oracle has two entries for x, of which the first counts.
MCCapabilities == "did:ixo:O" :>
  <<[denom |-> "x", capabilities |-> {"mint", "transfer"}],
    [denom |-> "ixo", capabilities |-> {"burn"}],
    [denom |-> "x", capabilities |-> {"burn"}]>>

AddDids ==
  {[type |-> "add-did", Did |-> d, PubKey |-> k] :
     d \in {"did:sov:A", "did:ixo:B", "did:ixo:O"}, k \in {"A", "B", "O"}}
AddCredentials ==
  {[type |-> "add-credential", Issuer |-> "did:ixo:A", Id |-> "did:ixo:O",
    CredType |-> t, Issued |-> i, KYCValidated |-> TRUE] :
      t \in {<<"Credential", "KYC">>, <<"Credential">>}, i \in {"monday", "friday"}}
Treasury ==
  {[type |-> "send", FromDid |-> "did:ixo:A", ToDidOrAddr |-> to, Amount |-> c] :
     to \in {"did:ixo:B", "P"}, c \in {Coin(1, 0), Coin(1, 1)}}
  \cup {[type |-> "send", FromDid |-> "did:ixo:A", ToDidOrAddr |-> "B", Amount |-> Coin(1, 0)]}
  \cup {[type |-> "oracle-transfer", OracleDid |-> "did:ixo:O", FromDid |-> "did:ixo:A",
         ToDidOrAddr |-> "did:ixo:O", Amount |-> c, Proof |-> "proof"] :
           c \in {Coin(0, 1), Coin(1, 1)}}
  \cup {[type |-> "oracle-mint", OracleDid |-> "did:ixo:O", ToDidOrAddr |-> "A",
         Amount |-> c, Proof |-> "proof"] : c \in {Coin(0, 1), Coin(1, 1)}}
  \cup {[type |-> "oracle-burn", OracleDid |-> "did:ixo:O", FromDid |-> "did:ixo:A",
         Amount |-> c, Proof |-> "proof"] : c \in {Coin(1, 0), Coin(0, 1)}}
Projects ==
  {[type |-> "create-project", ProjectDid |-> p, SenderDid |-> "did:ixo:A", PubKey |-> "P",
    Data |-> "valid"] : p \in {"did:ixo:P", "did:prj:P"}}
  \cup {[type |-> t, ProjectDid |-> "did:ixo:P", SenderDid |-> "did:ixo:A",
         AgentDid |-> "did:ixo:B", Did |-> "did:ixo:B"] :
           t \in {"update-project-status", "create-agent", "update-agent", "create-claim",
                  "create-evaluation"}}
  \cup {[type |-> "withdraw-funds", ProjectDid |-> "did:ixo:P", SenderDid |-> s,
         RecipientDid |-> "did:ixo:A", Amount |-> 1] : s \in {"did:ixo:A", "did:ixo:B"}}
Payments ==
  {[type |-> t, CreatorDid |-> "did:ixo:A", PayerDid |-> "did:ixo:A", SenderDid |-> "did:ixo:A",
    PaymentTemplate |-> "valid", PaymentTemplateId |-> "id", PaymentContractId |-> "id",
    SubscriptionId |-> "id", Recipients |-> "valid", Period |-> "valid",
    Payer |-> "B", Recipient |-> "B", Holder |-> "B"] :
     t \in {"create-payment-template", "create-payment-contract", "create-subscription",
            "set-payment-contract-authorisation", "grant-discount", "revoke-discount",
            "effect-payment"}}
Bonds ==
  {[type |-> t, CreatorDid |-> "did:ixo:A", EditorDid |-> "did:ixo:A", BuyerDid |-> "did:ixo:A",
    SellerDid |-> "did:ixo:A", SwapperDid |-> "did:ixo:A", SenderDid |-> "did:ixo:A",
    RecipientDid |-> "did:ixo:A", BondDid |-> "did:ixo:bond", Parameters |-> "valid",
    Edits |-> {"Name"}, Amount |-> 1, MaxPrices |-> Coin(1, 0), FromToken |-> "x",
    FromAmount |-> 1, ToToken |-> "ixo"] :
     t \in {"create_bond", "edit_bond", "buy", "sell", "swap", "make_outcome_payment",
            "withdraw_share"}}

MCBodies ==
  {<<m>> : m \in AddDids \cup AddCredentials \cup Treasury \cup Projects \cup Payments \cup Bonds}
  \cup {<<m, m>> : m \in AddDids}
MCFees == {Coin(0, 0), Coin(3, 0)}

=============================================================================
