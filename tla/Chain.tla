-------------------------------- MODULE Chain --------------------------------
(***************************************************************************)
(* How a transaction of the ixo modules gets onto the chain: the client    *)
(* signs it, the ante handler finds the key of the DID that has to sign,   *)
(* takes the fee and spends a sequence number of the account, and the      *)
(* handler does the rest or fails as a whole.  The handlers of x/did and   *)
(* x/treasury and the creation of a project are modelled here; those of    *)
(* the other modules (Bonds, Payments, Projects) leave this state alone,   *)
(* except for coins, which those modules account for.                      *)
(*                                                                         *)
(* Clients may have signed any transaction with any sequence number, and   *)
(* whatever was signed may be delivered at any time, in any order and      *)
(* again: Tx is the set of all of them, and Deliver takes any member.      *)
(***************************************************************************)
EXTENDS Messages, Sequences, Sums

CONSTANTS
  FeeCollector,    \* the module account that is paid the fees
  NativeToken,     \* IxoNativeToken
  TotalFee, TransactionFee,  \* MsgCreateProjectTotalFee, ...TransactionFee
  Capabilities,    \* the registered oracles and their token capabilities
  GenesisAccounts, \* the keys that have an account at the start
  GenesisBalance,  \* the coins of each address at the start
  GenesisDocs,     \* the DIDs that have a document at the start
  Bodies,          \* bound: the messages of a transaction
  Fees,            \* bound: the fees of a transaction
  MaxSequence      \* bound: the transactions of one account

ASSUME ChainAssumption ==
  /\ IsFiniteSet(Address) /\ FeeCollector \in Address \ Key /\ NativeToken \in Denom
  /\ TotalFee \in Nat /\ TransactionFee \in Nat /\ TransactionFee < TotalFee
  /\ DOMAIN Capabilities \subseteq Did
  /\ Capabilities \in
       [DOMAIN Capabilities -> Seq([denom : Denom, capabilities : SUBSET {"mint", "burn", "transfer"}])]
  /\ GenesisAccounts \subseteq Key
  /\ GenesisBalance \in [Address -> CoinSet]
  /\ \A k \in Key \ GenesisAccounts : GenesisBalance[k] = NoCoins
  /\ GenesisDocs \subseteq Did \cap DOMAIN KeyOf
  /\ \A body \in Bodies : Len(body) \in Nat \ {0}
  /\ Fees \subseteq CoinSet /\ MaxSequence \in Nat

VARIABLES
  accounts,  \* the accounts of keys, with their sequence number
  balance,   \* the coins of each address
  supply,    \* the total supply of the supply module
  docs,      \* DID documents: the key and the credentials, oldest first
  projects,  \* project docs, with their key
  spent      \* history: the key and sequence number of every accepted transaction

vars == <<accounts, balance, supply, docs, projects, spent>>

\* The checks that do not look at the state: every message passes ValidateBasic,
\* and there is one of them.
Admitted == {body \in Bodies : Len(body) = 1 /\ ValidateBasic(body[1])}

\* What a client signs: the messages, the fee and a sequence number, with a key.
\* The chain id, the account number (it belongs to the key; creations sign 0)
\* and the memo are signed too, and are left out.
Tx == [msgs : Admitted, fee : Fees, key : Key, sequence : 0 .. MaxSequence]

\* What a client is given to sign: the sequence number of the account of its
\* key, and for the creation of a project the fixed fee and the number 0.
SignData(body, fee, key) ==
  IF body[1].type = "create-project"
  THEN [msgs |-> body, fee |-> [NoCoins EXCEPT ![NativeToken] = TotalFee],
        key |-> key, sequence |-> 0]
  ELSE [msgs |-> body, fee |-> fee, key |-> key, sequence |-> accounts[key]]

-----------------------------------------------------------------------------
(* The ledger: the accounts and what they hold *)

\* Coins that arrive at an address make its account.
Open(existing, key) == IF key \in DOMAIN existing THEN existing ELSE Store(existing, key, 0)

\* bank.SendCoins, which makes both accounts; the sender may be the recipient.
Transfer(ledger, from, to, coins) ==
  LET taken == [ledger.balance EXCEPT ![from] = Sub(@, coins)]
      opened == IF from \in Key THEN Open(ledger.accounts, from) ELSE ledger.accounts
  IN [accounts |-> IF to \in Key THEN Open(opened, to) ELSE opened,
      balance |-> [taken EXCEPT ![to] = Add(@, coins)]]

\* SetSequence, of an account that is there.
Advance(ledger, key) ==
  [accounts |-> [ledger.accounts EXCEPT ![key] = @ + 1], balance |-> ledger.balance]

Ledger == [accounts |-> accounts, balance |-> balance]

-----------------------------------------------------------------------------
(* The ante handlers *)

\* The key that has to sign is looked up in the project doc, in the DID
\* document of the signer, or taken from the message that introduces it.
BringsKey(m) == m.type \in {"add-did", "create-project"}
KeyIsKnown(m) ==
  \/ BringsKey(m)
  \/ GetSignerDid(m) \in IF SignedByProject(m) THEN DOMAIN projects ELSE DOMAIN docs

\* Mutant of PubKey: the sender of a project's message signs it.
PubKeyOfSender(m) ==
  IF BringsKey(m) THEN m.PubKey
  ELSE IF SignedByProject(m) /\ m.SenderDid \in DOMAIN docs THEN docs[m.SenderDid].pubKey
  ELSE IF SignedByProject(m) THEN projects[GetSignerDid(m)]
  ELSE docs[GetSignerDid(m)].pubKey

\* GetPubKeyGetter of x/did and x/project, NewDefaultPubKeyGetter of x/ixo.
PubKey(m) ==
  IF BringsKey(m) THEN m.PubKey
  ELSE IF SignedByProject(m) THEN projects[GetSignerDid(m)]
  ELSE docs[GetSignerDid(m)].pubKey

\* Mutant of SequenceMatches: an earlier sequence number will do.
SequenceIsNotAhead(tx) == tx.key \in DOMAIN accounts /\ tx.sequence <= accounts[tx.key]

\* The signature is over the current sequence number of the account of its key.
SequenceMatches(tx) == tx.key \in DOMAIN accounts /\ tx.sequence = accounts[tx.key]

\* NewDefaultAnteHandler: the signer's key is known and signed, and the account
\* of the key, which has to exist, can pay the fee.
DefaultAnte(tx) ==
  LET m == tx.msgs[1] IN
  /\ SequenceMatches(tx)
  /\ KeyIsKnown(m) /\ tx.key = PubKey(m)
  /\ Covers(balance[tx.key], tx.fee)

\* Mutant of AfterDefaultAnte: the account from before the fee is stored.
AfterDefaultAnteStale(tx) ==
  LET paid == Transfer(Ledger, tx.key, FeeCollector, tx.fee)
  IN Advance([paid EXCEPT !.balance[tx.key] = balance[tx.key]], tx.key)

\* The account is read again after the fee was taken from it, then stored
\* with the next sequence number.
AfterDefaultAnte(tx) == Advance(Transfer(Ledger, tx.key, FeeCollector, tx.fee), tx.key)

\* NewProjectCreationAnteHandler: the project signs and has no account yet, the
\* sender of the message pays the fee and the funding of the project, exactly.
Native(n) == [NoCoins EXCEPT ![NativeToken] = n]
FeePayer(m) == docs[m.SenderDid].pubKey
CreationAnte(tx) ==
  LET m == tx.msgs[1] IN
  /\ tx.key = PubKey(m) /\ tx.key \notin DOMAIN accounts /\ tx.sequence = 0
  /\ tx.fee = Native(TotalFee)
  /\ m.SenderDid \in DOMAIN docs /\ FeePayer(m) \in DOMAIN accounts
  /\ Covers(balance[FeePayer(m)], Native(TotalFee))

AfterCreationAnte(tx) ==
  LET m == tx.msgs[1]
      charged == Transfer(Ledger, FeePayer(m), FeeCollector, Native(TransactionFee))
      funded == Transfer(charged, FeePayer(m), tx.key, Native(TotalFee - TransactionFee))
  IN Advance(funded, tx.key)

\* NewIxoAnteHandler: by the route and type of the message.
IsCreation(tx) == tx.msgs[1].type = "create-project"
AntePasses(tx) == IF IsCreation(tx) THEN CreationAnte(tx) ELSE DefaultAnte(tx)
AfterAnte(tx) == IF IsCreation(tx) THEN AfterCreationAnte(tx) ELSE AfterDefaultAnte(tx)

-----------------------------------------------------------------------------
(* What the handlers ask and do *)

\* The credential of a message.
Credential(m) == [CredType |-> m.CredType, Issuer |-> m.Issuer, Issued |-> m.Issued,
                  KYCValidated |-> m.KYCValidated]

\* Mutant of Clashes: the same document issued at another time is another one.
ClashesAtSameTime(c, m) == c = Credential(m)

\* A credential that is there already.  Only the first two types are compared,
\* and a panic on a list that is shorter refuses the message as well.
Clashes(c, m) ==
  /\ c.Issuer = m.Issuer
  /\ \/ <<>> \in {c.CredType, m.CredType}
     \/ /\ c.CredType[1] = m.CredType[1]
        /\ \/ 1 \in {Len(c.CredType), Len(m.CredType)}
           \/ c.CredType[2] = m.CredType[2] /\ c.KYCValidated = m.KYCValidated

\* SetDidDoc refuses a DID that has a document.
CanAddDid(m) == m.Did \notin DOMAIN docs

CanAddCredential(m) ==
  /\ m.Id \in DOMAIN docs
  /\ \A i \in 1 .. Len(docs[m.Id].credentials) : ~Clashes(docs[m.Id].credentials[i], m)

\* A recipient is a DID with a document, or an address.
HasRecipient(to) == to \in Did => to \in DOMAIN docs
Recipient(to) == IF to \in Did THEN docs[to].pubKey ELSE to

\* MustGet returns the first entry for a denomination, if there is one.
TokenCaps(oracle, d) ==
  LET caps == Capabilities[oracle]
      first == {i \in DOMAIN caps :
                  caps[i].denom = d /\ \A j \in 1 .. i - 1 : caps[j].denom # d}
  IN  UNION {caps[i].capabilities : i \in first}

\* Mutant of Capable: it is enough to have the capability for one of them.
CapableOfOne(oracle, cap, amount) ==
  /\ oracle \in DOMAIN Capabilities
  /\ amount # NoCoins => \E d \in Denom : amount[d] > 0 /\ cap \in TokenCaps(oracle, d)

\* Every coin of the amount is checked.
Capable(oracle, cap, amount) ==
  oracle \in DOMAIN Capabilities /\ \A d \in Denom : amount[d] > 0 => cap \in TokenCaps(oracle, d)

\* Mutant of CanSend: the balance is looked at denomination by denomination,
\* and one that is large enough will do.
CanSendSome(ledger, from, to, amount) ==
  /\ from \in DOMAIN docs /\ HasRecipient(to)
  /\ \E d \in Denom : ledger.balance[docs[from].pubKey][d] >= amount[d]

\* Keeper.Send, from the account of a DID.
CanSend(ledger, from, to, amount) ==
  /\ from \in DOMAIN docs /\ HasRecipient(to)
  /\ Covers(ledger.balance[docs[from].pubKey], amount)
AfterSend(ledger, from, to, amount) ==
  Transfer(ledger, docs[from].pubKey, Recipient(to), amount)

\* Minted coins pass through the module account of treasury, to the recipient.
AfterMint(ledger, to, amount) ==
  [accounts |-> IF Recipient(to) \in Key THEN Open(ledger.accounts, Recipient(to))
                ELSE ledger.accounts,
   balance |-> [ledger.balance EXCEPT ![Recipient(to)] = Add(@, amount)]]

\* Burnt coins are taken from the account of a DID, and leave the supply.
CanBurn(ledger, from, amount) ==
  from \in DOMAIN docs /\ Covers(ledger.balance[docs[from].pubKey], amount)
AfterBurn(ledger, from, amount) ==
  [accounts |-> Open(ledger.accounts, docs[from].pubKey),
   balance |-> [ledger.balance EXCEPT ![docs[from].pubKey] = Sub(@, amount)]]

-----------------------------------------------------------------------------
(* The deliveries *)

Becomes(ledger) == accounts' = ledger.accounts /\ balance' = ledger.balance

\* handleMsgAddDidDoc
AddDid(tx) ==
  LET m == tx.msgs[1] IN
  /\ m.type = "add-did" /\ CanAddDid(m)
  /\ docs' = Store(docs, m.Did, [pubKey |-> m.PubKey, credentials |-> <<>>])
  /\ Becomes(AfterAnte(tx))
  /\ UNCHANGED <<supply, projects>>

\* handleMsgAddCredential
AddCredential(tx) ==
  LET m == tx.msgs[1] IN
  /\ m.type = "add-credential" /\ CanAddCredential(m)
  /\ docs' = [docs EXCEPT ![m.Id].credentials = Append(@, Credential(m))]
  /\ Becomes(AfterAnte(tx))
  /\ UNCHANGED <<supply, projects>>

\* handleMsgSend
Send(tx) ==
  LET m == tx.msgs[1]  ledger == AfterAnte(tx) IN
  /\ m.type = "send" /\ CanSend(ledger, m.FromDid, m.ToDidOrAddr, m.Amount)
  /\ Becomes(AfterSend(ledger, m.FromDid, m.ToDidOrAddr, m.Amount))
  /\ UNCHANGED <<supply, docs, projects>>

\* handleMsgOracleTransfer
OracleTransfer(tx) ==
  LET m == tx.msgs[1]  ledger == AfterAnte(tx) IN
  /\ m.type = "oracle-transfer" /\ Capable(m.OracleDid, "transfer", m.Amount)
  /\ CanSend(ledger, m.FromDid, m.ToDidOrAddr, m.Amount)
  /\ Becomes(AfterSend(ledger, m.FromDid, m.ToDidOrAddr, m.Amount))
  /\ UNCHANGED <<supply, docs, projects>>

\* handleMsgOracleMint
OracleMint(tx) ==
  LET m == tx.msgs[1] IN
  /\ m.type = "oracle-mint" /\ Capable(m.OracleDid, "mint", m.Amount)
  /\ HasRecipient(m.ToDidOrAddr)
  /\ supply' = Add(supply, m.Amount)
  /\ Becomes(AfterMint(AfterAnte(tx), m.ToDidOrAddr, m.Amount))
  /\ UNCHANGED <<docs, projects>>

\* handleMsgOracleBurn
OracleBurn(tx) ==
  LET m == tx.msgs[1]  ledger == AfterAnte(tx) IN
  /\ m.type = "oracle-burn" /\ Capable(m.OracleDid, "burn", m.Amount)
  /\ CanBurn(ledger, m.FromDid, m.Amount)
  /\ supply' = Sub(supply, m.Amount)
  /\ Becomes(AfterBurn(ledger, m.FromDid, m.Amount))
  /\ UNCHANGED <<docs, projects>>

\* handleMsgCreateProject, as far as the later messages of the project depend on it.
CreateProject(tx) ==
  LET m == tx.msgs[1] IN
  /\ m.type = "create-project" /\ m.ProjectDid \notin DOMAIN projects
  /\ projects' = Store(projects, m.ProjectDid, m.PubKey)
  /\ Becomes(AfterAnte(tx))
  /\ UNCHANGED <<supply, docs>>

\* The message is one of another module, its handler refuses it, or it runs out
\* of gas, which any of them may: what the ante handler did remains.
OnlyAnte(tx) ==
  /\ Becomes(AfterAnte(tx))
  /\ UNCHANGED <<supply, docs, projects>>

Deliver(tx) ==
  /\ AntePasses(tx)
  /\ spent' = spent \cup {<<tx.key, tx.sequence>>}
  /\ \/ AddDid(tx) \/ AddCredential(tx)
     \/ Send(tx) \/ OracleTransfer(tx) \/ OracleMint(tx) \/ OracleBurn(tx)
     \/ CreateProject(tx) \/ OnlyAnte(tx)

\* InitGenesis of x/did; the accounts, the coins and the oracles come with it.
Init ==
  /\ accounts = [k \in GenesisAccounts |-> 0]
  /\ balance = GenesisBalance
  /\ supply = [d \in Denom |-> SumOf([a \in Address |-> GenesisBalance[a][d]], Address)]
  /\ docs = [d \in GenesisDocs |-> [pubKey |-> KeyOf[d], credentials |-> <<>>]]
  /\ projects = Empty
  /\ spent = {}

Next == \E tx \in Tx : Deliver(tx)

Spec == Init /\ [][Next]_vars

-----------------------------------------------------------------------------
(* Properties *)

\* The type of the state: no address owes coins, and documents, projects and
\* accounts belong to DIDs and keys.
TypeOK ==
  /\ DOMAIN accounts \subseteq Key /\ accounts \in [DOMAIN accounts -> Nat]
  /\ balance \in [Address -> CoinSet] /\ supply \in CoinSet
  /\ DOMAIN docs \subseteq Did
  /\ \A d \in DOMAIN docs : docs[d].pubKey \in Key
  /\ DOMAIN projects \subseteq DOMAIN KeyOf /\ projects \in [DOMAIN projects -> Key]
  /\ spent \subseteq Key \X Nat

\* A transaction that was accepted once is refused for ever after, whatever
\* the others did in between to its account, the fee, or the document that
\* names its key (auth.go: getSignBytes, ProcessSig; project/auth.go).
AtMostOnce ==
  \A body \in Admitted, fee \in Fees, used \in spent :
    ~AntePasses([msgs |-> body, fee |-> fee, key |-> used[1], sequence |-> used[2]])

\* Three ledgers agree: the supply total with the coins of all addresses, the
\* sequence numbers with the accepted transactions, and coins with accounts.
LedgersAgree ==
  /\ \A d \in Denom : supply[d] = SumOf([a \in Address |-> balance[a][d]], Address)
  /\ spent = UNION {{k} \X (0 .. accounts[k] - 1) : k \in DOMAIN accounts}
  /\ \A k \in Key \ DOMAIN accounts : balance[k] = NoCoins

\* The key of the transaction that a step accepted, and its oracles.
Signed(k) ==
  k \in DOMAIN accounts' /\ Open(accounts, k)[k] < accounts'[k]
SignedByOracle(cap, d) ==
  \E oracle \in DOMAIN Capabilities \cap DOMAIN docs :
    /\ Signed(docs[oracle].pubKey)
    /\ \E i \in DOMAIN Capabilities[oracle] :
         Capabilities[oracle][i].denom = d /\ cap \in Capabilities[oracle][i].capabilities

\* Coins leave an account only with a transaction that its own key signed, one
\* of an oracle that may transfer or burn that very denomination, or the
\* creation of a project, whose new account is paid for by the sender.  The
\* supply grows and shrinks only by oracles that may mint or burn it
\* (treasury keeper.go: the checks are repeated for every message).  This is about
\* the messages whose effects are in this module; what the others and EndBlocker
\* move is for Payments, Projects, Bonds and Swapper to say.
CoinsFollowAuthority ==
  [][/\ \A a \in Address, d \in Denom : balance'[a][d] < balance[a][d] =>
          \/ a \in Key /\ Signed(a)
          \/ SignedByOracle("transfer", d) \/ SignedByOracle("burn", d)
          \/ d = NativeToken
             /\ \E p \in DOMAIN KeyOf : Signed(KeyOf[p]) /\ KeyOf[p] \notin DOMAIN accounts
     /\ \A d \in Denom :
          /\ supply'[d] > supply[d] => SignedByOracle("mint", d)
          /\ supply'[d] < supply[d] => SignedByOracle("burn", d)]_vars

\* No two credentials of a list agree in issuer, types and validation.
WithoutRepeats(credentials) ==
  \A i, j \in 1 .. Len(credentials) :
    LET c == credentials[i]  e == credentials[j] IN
    i # j => <<c.Issuer, c.CredType, c.KYCValidated>> # <<e.Issuer, e.CredType, e.KYCValidated>>

\* A document is never replaced, and its credentials are only ever added to,
\* never twice with the same content (did keeper.go: SetDidDoc, AddCredentials).
DidsArePermanent ==
  [][\A d \in DOMAIN docs :
       /\ d \in DOMAIN docs' /\ docs'[d].pubKey = docs[d].pubKey
       /\ Len(docs[d].credentials) <= Len(docs'[d].credentials)
       /\ \A i \in 1 .. Len(docs[d].credentials) :
            docs'[d].credentials[i] = docs[d].credentials[i]
       /\ WithoutRepeats(docs'[d].credentials)]_vars

\* What the client is given to sign passes the ante handler as long as nothing
\* else of that account is accepted first: the key is the one that the DID is
\* made from, and the fee can be paid (txRoutes.go against auth.go).
FreshSignaturesPass ==
  \A body \in Admitted, fee \in Fees :
    LET m == body[1]
        key == KeyOf[GetSignerDid(m)]
        tx == SignData(body, fee, key)
    IN (/\ GetSignerDid(m) \in DOMAIN KeyOf
        /\ IF m.type = "create-project"
           THEN /\ key \notin DOMAIN accounts /\ m.SenderDid \in DOMAIN docs
                /\ FeePayer(m) \in DOMAIN accounts
                /\ Covers(balance[FeePayer(m)], Native(TotalFee))
           ELSE KeyIsKnown(m) /\ key \in DOMAIN accounts /\ Covers(balance[key], fee))
       => AntePasses(tx)

=============================================================================
