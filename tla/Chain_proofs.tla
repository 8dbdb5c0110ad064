----------------------------- MODULE Chain_proofs -----------------------------
(***************************************************************************)
(* Proofs about Chain: for every set of keys, DIDs and messages, and for   *)
(* any clients that sign and deliver what they like.                       *)
(***************************************************************************)
EXTENDS Chain, Amounts_proofs

\* Accounts and coins that fit: nobody owes coins, and coins have an account.
IsLedger(l) ==
  /\ DOMAIN l.accounts \subseteq Key /\ l.accounts \in [DOMAIN l.accounts -> Nat]
  /\ l.balance \in [Address -> CoinSet]
  /\ \A k \in Key \ DOMAIN l.accounts : l.balance[k] = NoCoins

\* The coins of all addresses.
Held(b, d) == SumOf([a \in Address |-> b[a][d]], Address)

\* r has the accounts of l, perhaps new ones, and no account of l has sent anything.
OnlyOpens(l, r) ==
  /\ DOMAIN l.accounts \subseteq DOMAIN r.accounts
  /\ \A k \in DOMAIN l.accounts : r.accounts[k] = l.accounts[k]
  /\ \A k \in DOMAIN r.accounts \ DOMAIN l.accounts : r.accounts[k] = 0

\* From l to r, nobody but from loses coins, and only of these denominations.
OnlyLoses(l, r, from, coins) ==
  \A a \in Address, d \in Denom :
    r.balance[a][d] < l.balance[a][d] => a = from /\ coins[d] > 0

\* The sequence numbers that a ledger says are spent.
SpentIn(l) == UNION {{k} \X (0 .. l.accounts[k] - 1) : k \in DOMAIN l.accounts}

-----------------------------------------------------------------------------
(***************************************************************************)
(* Coins and accounts                                                      *)
(***************************************************************************)
LEMMA CoinFacts ==
  ASSUME NEW u \in CoinSet, NEW v \in CoinSet
  PROVE  /\ NoCoins \in CoinSet /\ Add(u, v) \in CoinSet
         /\ Covers(u, v) => Sub(u, v) \in CoinSet
         /\ \A d \in Denom : /\ u[d] \in Nat /\ v[d] \in Nat /\ NoCoins[d] = 0
                             /\ Add(u, v)[d] = u[d] + v[d]
                             /\ Sub(u, v)[d] = u[d] - v[d]
                             /\ Covers(u, v) => v[d] <= u[d]
<1>1. \A d \in Denom : u[d] \in Nat /\ v[d] \in Nat /\ NoCoins[d] = 0
  BY DEF CoinSet, NoCoins
<1>2. \A d \in Denom : Add(u, v)[d] = u[d] + v[d] /\ Sub(u, v)[d] = u[d] - v[d]
  BY DEF Add, Sub
<1>3. NoCoins \in CoinSet /\ Add(u, v) \in CoinSet
  BY <1>1 DEF NoCoins, Add, CoinSet
<1>4. ASSUME Covers(u, v) PROVE Sub(u, v) \in CoinSet
  <2>1. \A d \in Denom : u[d] - v[d] \in Nat
    BY <1>1, <1>4 DEF Covers
  <2> QED
    BY <2>1 DEF Sub, CoinSet
<1>5. Covers(u, v) => \A d \in Denom : v[d] <= u[d]
  BY <1>1 DEF Covers
<1> QED
  BY <1>1, <1>2, <1>3, <1>4, <1>5

\* Opening an account that may be there.
LEMMA OpenFacts ==
  ASSUME NEW acc, DOMAIN acc \subseteq Key, acc \in [DOMAIN acc -> Nat], NEW k \in Key
  PROVE  /\ DOMAIN Open(acc, k) = DOMAIN acc \cup {k}
         /\ Open(acc, k) \in [DOMAIN Open(acc, k) -> Nat]
         /\ \A j \in DOMAIN acc : Open(acc, k)[j] = acc[j]
         /\ k \notin DOMAIN acc => Open(acc, k)[k] = 0
<1>1. CASE k \in DOMAIN acc
  BY <1>1 DEF Open
<1>2. CASE k \notin DOMAIN acc
  BY <1>2 DEF Open, Store
<1> QED
  BY <1>1, <1>2

\* One balance changes: the coins of all addresses change by as much.
LEMMA HeldUpdate ==
  ASSUME NEW b \in [Address -> CoinSet], NEW c \in [Address -> CoinSet],
         NEW a \in Address, \A y \in Address \ {a} : c[y] = b[y], NEW d \in Denom
  PROVE  /\ Held(b, d) \in Nat /\ Held(c, d) \in Nat
         /\ Held(c, d) = (Held(b, d) - b[a][d]) + c[a][d]
<1> DEFINE f == [y \in Address |-> b[y][d]]
           g == [y \in Address |-> c[y][d]]
<1>1. IsFiniteSet(Address)
  BY ChainAssumption
<1>2. \A y \in Address : f[y] \in Nat /\ g[y] \in Nat
  BY DEF CoinSet
<1>3. f[a] = b[a][d] /\ g[a] = c[a][d] /\ \A y \in Address \ {a} : g[y] = f[y]
  OBVIOUS
<1>4. Held(b, d) = SumOf(f, Address) /\ Held(c, d) = SumOf(g, Address)
  BY DEF Held
<1> HIDE DEF f, g
<1>5. SumOf(f, Address) \in Nat /\ SumOf(g, Address) \in Nat
  BY <1>1, <1>2, SumType
<1>6. SumOf(g, Address) = SumOf(f, Address) - f[a] + g[a]
  BY <1>1, <1>2, <1>3, SumUpdate
<1>7. SumOf(g, Address) = (SumOf(f, Address) - f[a]) + g[a]
  BY <1>2, <1>5, <1>6
<1> QED
  BY <1>3, <1>4, <1>5, <1>7

\* bank.SendCoins keeps the coins together.
LEMMA TransferFacts ==
  ASSUME NEW l, IsLedger(l), NEW from \in Address, NEW to \in Address,
         NEW coins \in CoinSet, Covers(l.balance[from], coins)
  PROVE  LET r == Transfer(l, from, to, coins)
         IN  /\ IsLedger(r) /\ OnlyOpens(l, r) /\ OnlyLoses(l, r, from, coins)
             /\ \A d \in Denom : Held(r.balance, d) = Held(l.balance, d)
             /\ from # to => r.balance[from] = Sub(l.balance[from], coins)
             /\ to \in Key => to \in DOMAIN r.accounts
<1> DEFINE r == Transfer(l, from, to, coins)
           taken == [l.balance EXCEPT ![from] = Sub(@, coins)]
           opened == IF from \in Key THEN Open(l.accounts, from) ELSE l.accounts
<1>1. /\ DOMAIN l.accounts \subseteq Key /\ l.accounts \in [DOMAIN l.accounts -> Nat]
      /\ l.balance \in [Address -> CoinSet]
      /\ \A k \in Key \ DOMAIN l.accounts : l.balance[k] = NoCoins
  BY DEF IsLedger
<1>2. /\ r.accounts = IF to \in Key THEN Open(opened, to) ELSE opened
      /\ r.balance = [taken EXCEPT ![to] = Add(@, coins)]
  BY DEF Transfer
<1>3. Sub(l.balance[from], coins) \in CoinSet /\ taken \in [Address -> CoinSet]
  BY <1>1, CoinFacts
<1>4. Add(taken[to], coins) \in CoinSet /\ r.balance \in [Address -> CoinSet]
  BY <1>2, <1>3, CoinFacts
<1>5. /\ DOMAIN opened \subseteq Key /\ opened \in [DOMAIN opened -> Nat]
      /\ DOMAIN l.accounts \subseteq DOMAIN opened
      /\ \A k \in DOMAIN l.accounts : opened[k] = l.accounts[k]
      /\ \A k \in DOMAIN opened \ DOMAIN l.accounts : opened[k] = 0
      /\ from \in Key => from \in DOMAIN opened
  <2>1. CASE from \in Key
    <3>1. CASE from \in DOMAIN l.accounts
      BY <1>1, <2>1, <3>1 DEF Open
    <3>2. CASE from \notin DOMAIN l.accounts
      BY <1>1, <2>1, <3>2 DEF Open, Store
    <3> QED
      BY <3>1, <3>2
  <2>2. CASE from \notin Key
    BY <1>1, <2>2
  <2> QED
    BY <2>1, <2>2
<1>6. /\ DOMAIN r.accounts \subseteq Key /\ r.accounts \in [DOMAIN r.accounts -> Nat]
      /\ DOMAIN opened \subseteq DOMAIN r.accounts
      /\ \A k \in DOMAIN opened : r.accounts[k] = opened[k]
      /\ \A k \in DOMAIN r.accounts \ DOMAIN opened : r.accounts[k] = 0
      /\ to \in Key => to \in DOMAIN r.accounts
  <2> HIDE DEF opened, r
  <2>1. CASE to \in Key
    <3>1. CASE to \in DOMAIN opened
      BY <1>2, <1>5, <2>1, <3>1 DEF Open
    <3>2. CASE to \notin DOMAIN opened
      BY <1>2, <1>5, <2>1, <3>2 DEF Open, Store
    <3> QED
      BY <3>1, <3>2
  <2>2. CASE to \notin Key
    <3>1. r.accounts = opened
      BY <1>2, <2>2
    <3> QED
      BY <1>5, <2>2, <3>1
  <2> QED
    BY <2>1, <2>2
<1>7. OnlyOpens(l, r)
  <2> HIDE DEF opened, r
  <2> QED
    BY <1>5, <1>6 DEF OnlyOpens
<1>8. \A a \in Address : a # from /\ a # to => r.balance[a] = l.balance[a]
  BY <1>1, <1>2, <1>3
<1>9. IsLedger(r)
  <2>1. from \in Key => from \in DOMAIN r.accounts
    <3> HIDE DEF opened, r
    <3> QED
      BY <1>5, <1>6
  <2>2. ASSUME NEW k \in Key \ DOMAIN r.accounts PROVE r.balance[k] = NoCoins
    <3>1. k \notin DOMAIN l.accounts
      BY <1>7 DEF OnlyOpens
    <3>2. k # from /\ k # to
      BY <1>6, <2>1
    <3>3. k \in Address
      BY MessagesAssumption
    <3> QED
      BY <1>1, <1>8, <3>1, <3>2, <3>3
  <2> QED
    BY <1>4, <1>6, <2>2 DEF IsLedger
<1>10. ASSUME NEW a \in Address, NEW d \in Denom, r.balance[a][d] < l.balance[a][d]
       PROVE  a = from /\ coins[d] > 0
  <2>1. /\ l.balance[a][d] \in Nat /\ coins[d] \in Nat /\ taken[a][d] \in Nat
        /\ taken[to][d] \in Nat
        /\ Sub(l.balance[from], coins)[d] = l.balance[from][d] - coins[d]
        /\ Add(taken[to], coins)[d] = taken[to][d] + coins[d]
    BY <1>1, <1>3, CoinFacts
  <2>2. CASE a # from
    <3>1. taken[a] = l.balance[a]
      BY <1>1, <2>2
    <3>2. a # to => r.balance[a] = l.balance[a]
      BY <1>8, <2>2
    <3>3. a = to => r.balance[a] = Add(taken[to], coins)
      BY <1>2, <1>3
    <3> HIDE DEF r, taken
    <3> QED
      BY <1>10, <2>1, <3>1, <3>2, <3>3
  <2>3. CASE a = from
    <3>1. taken[a][d] = l.balance[a][d] - coins[d]
      BY <1>1, <2>1, <2>3
    <3>2. a # to => r.balance[a] = taken[a]
      BY <1>2, <1>3
    <3>3. a = to => r.balance[a] = Add(taken[to], coins)
      BY <1>2, <1>3
    <3> HIDE DEF r, taken
    <3> QED
      BY <1>10, <2>1, <2>3, <3>1, <3>2, <3>3
  <2> QED
    BY <2>2, <2>3
<1>11. ASSUME NEW d \in Denom PROVE Held(r.balance, d) = Held(l.balance, d)
  <2>1. /\ \A y \in Address \ {from} : taken[y] = l.balance[y]
        /\ taken[from] = Sub(l.balance[from], coins)
    BY <1>1
  <2>2. /\ \A y \in Address \ {to} : r.balance[y] = taken[y]
        /\ r.balance[to] = Add(taken[to], coins)
    BY <1>2, <1>3
  <2>3. taken[to] \in CoinSet /\ l.balance[from] \in CoinSet
    BY <1>1, <1>3
  <2> HIDE DEF r, taken, opened
  <2>4. /\ Held(l.balance, d) \in Nat /\ Held(taken, d) \in Nat
        /\ Held(taken, d) = (Held(l.balance, d) - l.balance[from][d]) + taken[from][d]
    BY <1>1, <1>3, <2>1, HeldUpdate
  <2>5. Held(r.balance, d) = (Held(taken, d) - taken[to][d]) + r.balance[to][d]
    BY <1>3, <1>4, <2>2, HeldUpdate
  <2>6. /\ l.balance[from][d] \in Nat /\ coins[d] \in Nat /\ taken[to][d] \in Nat
        /\ taken[from][d] = l.balance[from][d] - coins[d]
        /\ r.balance[to][d] = taken[to][d] + coins[d]
    BY <2>1, <2>2, <2>3, CoinFacts
  <2> QED
    BY <2>4, <2>5, <2>6
<1>12. from # to => r.balance[from] = Sub(l.balance[from], coins)
  BY <1>1, <1>2, <1>3
<1> HIDE DEF r
<1>13. OnlyLoses(l, r, from, coins)
  BY <1>10 DEF OnlyLoses
<1> QED
  BY <1>6, <1>7, <1>9, <1>11, <1>12, <1>13 DEF r

\* One more transaction of an account.
LEMMA AdvanceFacts ==
  ASSUME NEW l, IsLedger(l), NEW k \in DOMAIN l.accounts
  PROVE  LET r == Advance(l, k)
         IN  /\ IsLedger(r) /\ r.balance = l.balance
             /\ DOMAIN r.accounts = DOMAIN l.accounts
             /\ r.accounts[k] = l.accounts[k] + 1
             /\ \A j \in DOMAIN l.accounts \ {k} : r.accounts[j] = l.accounts[j]
             /\ SpentIn(r) = SpentIn(l) \cup {<<k, l.accounts[k]>>}
<1> DEFINE r == Advance(l, k)
<1>1. /\ DOMAIN l.accounts \subseteq Key /\ l.accounts \in [DOMAIN l.accounts -> Nat]
      /\ l.balance \in [Address -> CoinSet]
      /\ \A j \in Key \ DOMAIN l.accounts : l.balance[j] = NoCoins
  BY DEF IsLedger
<1>2. /\ r.balance = l.balance /\ r.accounts = [l.accounts EXCEPT ![k] = l.accounts[k] + 1]
  BY DEF Advance
<1>3. /\ DOMAIN r.accounts = DOMAIN l.accounts /\ r.accounts \in [DOMAIN r.accounts -> Nat]
      /\ r.accounts[k] = l.accounts[k] + 1
      /\ \A j \in DOMAIN l.accounts \ {k} : r.accounts[j] = l.accounts[j]
  BY <1>1, <1>2
<1> HIDE DEF r
<1>4. IsLedger(r)
  BY <1>1, <1>2, <1>3 DEF IsLedger
<1>5. 0 .. r.accounts[k] - 1 = (0 .. l.accounts[k] - 1) \cup {l.accounts[k]}
  BY <1>1, <1>3
<1>6. ASSUME NEW u PROVE u \in SpentIn(r) <=> u \in SpentIn(l) \/ u = <<k, l.accounts[k]>>
  <2>1. u \in SpentIn(r) <=>
          \E j \in DOMAIN l.accounts : u \in {j} \X (0 .. r.accounts[j] - 1)
    BY <1>3 DEF SpentIn
  <2>2. u \in SpentIn(l) <=>
          \E j \in DOMAIN l.accounts : u \in {j} \X (0 .. l.accounts[j] - 1)
    BY DEF SpentIn
  <2>3. \A j \in DOMAIN l.accounts \ {k} :
          u \in {j} \X (0 .. r.accounts[j] - 1) <=> u \in {j} \X (0 .. l.accounts[j] - 1)
    BY <1>3
  <2>4. u \in {k} \X (0 .. r.accounts[k] - 1)
          <=> u \in {k} \X (0 .. l.accounts[k] - 1) \/ u = <<k, l.accounts[k]>>
    <3>1. \A X, Y, n : X = Y \cup {n} =>
            (u \in {k} \X X <=> u \in {k} \X Y \/ u = <<k, n>>)
      OBVIOUS
    <3> QED
      BY <1>5, <3>1
  <2> QED
    BY <2>1, <2>2, <2>3, <2>4
<1> QED
  BY <1>2, <1>3, <1>4, <1>6 DEF r

\* New accounts have spent nothing.
LEMMA SpentAfterOpening ==
  ASSUME NEW l, NEW r, IsLedger(r), OnlyOpens(l, r)
  PROVE  SpentIn(r) = SpentIn(l)
<1>1. \A j \in DOMAIN l.accounts :
        {j} \X (0 .. r.accounts[j] - 1) = {j} \X (0 .. l.accounts[j] - 1)
  BY DEF OnlyOpens
<1>2. \A j \in DOMAIN r.accounts \ DOMAIN l.accounts : {j} \X (0 .. r.accounts[j] - 1) = {}
  <2>1. \A j \in DOMAIN r.accounts \ DOMAIN l.accounts : r.accounts[j] = 0
    BY DEF OnlyOpens
  <2>2. 0 .. 0 - 1 = {}
    OBVIOUS
  <2> QED
    BY <2>1, <2>2
<1>3. DOMAIN l.accounts \subseteq DOMAIN r.accounts
  BY DEF OnlyOpens
<1> QED
  BY <1>1, <1>2, <1>3 DEF SpentIn

-----------------------------------------------------------------------------
(***************************************************************************)
(* The inductive invariant and the messages                                *)
(***************************************************************************)
IsList(s) == s \in Seq({s[i] : i \in DOMAIN s})

\* The key of a document or of a project is the one its DID is made from.
DocsInOrder ==
  /\ DOMAIN docs \subseteq Did \cap DOMAIN KeyOf
  /\ \A d \in DOMAIN docs :
       /\ docs[d] = [pubKey |-> KeyOf[d], credentials |-> docs[d].credentials]
       /\ IsList(docs[d].credentials) /\ WithoutRepeats(docs[d].credentials)
ProjectsInOrder ==
  DOMAIN projects \subseteq DOMAIN KeyOf /\ projects = [p \in DOMAIN projects |-> KeyOf[p]]
SupplyInOrder == supply \in CoinSet /\ \A d \in Denom : supply[d] = Held(balance, d)

\* The inductive invariant.  A transaction is accepted once because the sequence
\* numbers of all accounts say what is spent, and an account is never made anew;
\* whose coins may move depends on the keys in documents and project docs.
ChainInv ==
  /\ IsLedger(Ledger) /\ SupplyInOrder /\ spent = SpentIn(Ledger)
  /\ DocsInOrder /\ ProjectsInOrder

LEMMA TxFacts ==
  ASSUME NEW tx \in Tx
  PROVE  /\ tx.key \in Key /\ tx.key \in Address /\ tx.fee \in CoinSet /\ tx.sequence \in Nat
         /\ tx.msgs \in Admitted /\ ValidateBasic(tx.msgs[1])
BY ChainAssumption, MessagesAssumption DEF Tx, Admitted

\* What the checks without state say of the messages with a handler in Chain.
LEMMA DidMessages ==
  ASSUME NEW m, ValidateBasic(m)
  PROVE  /\ m.type = "add-did" =>
              m.Did \in Did \cap DOMAIN KeyOf /\ m.PubKey = KeyOf[m.Did]
         /\ m.type = "create-project" =>
              m.ProjectDid \in DOMAIN KeyOf /\ m.PubKey = KeyOf[m.ProjectDid]
<1>1. m.type = "add-did" => SheetOf(m) = MsgAddDid(m)
  BY DEF SheetOf
<1>2. m.type = "create-project" => SheetOf(m) = MsgCreateProject(m)
  BY DEF SheetOf
<1>3. MsgAddDid(m).valid => m.Did \in Did \cap DOMAIN KeyOf /\ m.PubKey = KeyOf[m.Did]
  BY Zenon DEF MsgAddDid, Sheet
<1>4. MsgCreateProject(m).valid =>
        m.ProjectDid \in DOMAIN KeyOf /\ m.PubKey = KeyOf[m.ProjectDid]
  BY Zenon DEF MsgCreateProject, Sheet
<1> QED
  BY <1>1, <1>2, <1>3, <1>4, Zenon DEF ValidateBasic

LEMMA TreasuryMessages ==
  ASSUME NEW m, ValidateBasic(m),
         m.type \in {"send", "oracle-transfer", "oracle-mint", "oracle-burn"}
  PROVE  /\ m.Amount \in CoinSet /\ ~BringsKey(m) /\ ~SignedByProject(m)
         /\ m.type # "oracle-burn" => m.ToDidOrAddr \in DidOrAddress
         /\ GetSignerDid(m) = IF m.type = "send" THEN m.FromDid ELSE m.OracleDid
<1>1. m.type = "send" => SheetOf(m) = MsgSend(m)
  BY DEF SheetOf
<1>2. m.type = "oracle-transfer" => SheetOf(m) = MsgOracleTransfer(m)
  BY DEF SheetOf
<1>3. m.type = "oracle-mint" => SheetOf(m) = MsgOracleMint(m)
  BY DEF SheetOf
<1>4. m.type = "oracle-burn" => SheetOf(m) = MsgOracleBurn(m)
  BY DEF SheetOf
<1>5. ~BringsKey(m)
  BY DEF BringsKey
<1>6. CASE m.type = "send"
  <2>1. SheetOf(m).route = "treasury" /\ SheetOf(m).signer = m.FromDid
    BY <1>1, <1>6 DEF MsgSend, Sheet
  <2>2. MsgSend(m).valid => m.Amount \in CoinSet /\ m.ToDidOrAddr \in DidOrAddress
    BY Zenon DEF MsgSend, Sheet
  <2>3. m.Amount \in CoinSet /\ m.ToDidOrAddr \in DidOrAddress
    BY <1>1, <1>6, <2>2, Zenon DEF ValidateBasic
  <2> QED
    BY <1>5, <1>6, <2>1, <2>3 DEF GetSignerDid, SignedByProject
<1>7. CASE m.type = "oracle-transfer"
  <2>1. SheetOf(m).route = "treasury" /\ SheetOf(m).signer = m.OracleDid
    <3>1. MsgOracleTransfer(m).route = "treasury" /\ MsgOracleTransfer(m).signer = m.OracleDid
      BY Zenon DEF MsgOracleTransfer, Sheet
    <3> QED
      BY <1>2, <1>7, <3>1
  <2>2. MsgOracleTransfer(m).valid => m.Amount \in CoinSet /\ m.ToDidOrAddr \in DidOrAddress
    BY Zenon DEF MsgOracleTransfer, Sheet
  <2>3. m.Amount \in CoinSet /\ m.ToDidOrAddr \in DidOrAddress
    BY <1>2, <1>7, <2>2, Zenon DEF ValidateBasic
  <2> QED
    BY <1>5, <1>7, <2>1, <2>3 DEF GetSignerDid, SignedByProject
<1>8. CASE m.type = "oracle-mint"
  <2>1. SheetOf(m).route = "treasury" /\ SheetOf(m).signer = m.OracleDid
    <3>1. MsgOracleMint(m).route = "treasury" /\ MsgOracleMint(m).signer = m.OracleDid
      BY Zenon DEF MsgOracleMint, Sheet
    <3> QED
      BY <1>3, <1>8, <3>1
  <2>2. MsgOracleMint(m).valid => m.Amount \in CoinSet /\ m.ToDidOrAddr \in DidOrAddress
    BY Zenon DEF MsgOracleMint, Sheet
  <2>3. m.Amount \in CoinSet /\ m.ToDidOrAddr \in DidOrAddress
    BY <1>3, <1>8, <2>2, Zenon DEF ValidateBasic
  <2> QED
    BY <1>5, <1>8, <2>1, <2>3 DEF GetSignerDid, SignedByProject
<1>9. CASE m.type = "oracle-burn"
  <2>1. SheetOf(m).route = "treasury" /\ SheetOf(m).signer = m.OracleDid
    <3>1. MsgOracleBurn(m).route = "treasury" /\ MsgOracleBurn(m).signer = m.OracleDid
      BY Zenon DEF MsgOracleBurn, Sheet
    <3> QED
      BY <1>4, <1>9, <3>1
  <2>2. MsgOracleBurn(m).valid => m.Amount \in CoinSet
    BY Zenon DEF MsgOracleBurn, Sheet
  <2>3. m.Amount \in CoinSet
    BY <1>4, <1>9, <2>2, Zenon DEF ValidateBasic
  <2> QED
    BY <1>5, <1>9, <2>1, <2>3 DEF GetSignerDid, SignedByProject
<1> QED
  BY <1>6, <1>7, <1>8, <1>9

-----------------------------------------------------------------------------
(***************************************************************************)
(* The ante handlers                                                       *)
(***************************************************************************)
\* From the state to r, the transaction is accepted and no other one.
Accepted(tx, r) ==
  /\ IsLedger(r)
  /\ tx.key \in DOMAIN r.accounts /\ r.accounts[tx.key] = tx.sequence + 1
  /\ DOMAIN accounts \subseteq DOMAIN r.accounts
  /\ \A k \in DOMAIN accounts \ {tx.key} : r.accounts[k] = accounts[k]
  /\ IF tx.key \in DOMAIN accounts THEN tx.sequence = accounts[tx.key] ELSE tx.sequence = 0
  /\ SpentIn(r) = SpentIn(Ledger) \cup {<<tx.key, tx.sequence>>}

\* What the ante handler leaves behind: no coin is made or lost, and only the
\* signer pays, or anyone for the creation of a project.
AfterAnteInOrder(tx, r) ==
  /\ Accepted(tx, r)
  /\ \A d \in Denom : Held(r.balance, d) = Held(balance, d)
  /\ \A a \in Address, d \in Denom : r.balance[a][d] < balance[a][d] =>
       \/ a = tx.key
       \/ IsCreation(tx) /\ tx.key \notin DOMAIN accounts /\ d = NativeToken

LEMMA AcceptedOpens ==
  ASSUME NEW tx, NEW r, NEW f, Accepted(tx, r), IsLedger(f), OnlyOpens(r, f)
  PROVE  Accepted(tx, f)
<1>1. SpentIn(f) = SpentIn(r)
  BY SpentAfterOpening
<1> QED
  BY <1>1 DEF Accepted, OnlyOpens

LEMMA DefaultAnteFacts ==
  ASSUME ChainInv, NEW tx \in Tx, DefaultAnte(tx)
  PROVE  AfterAnteInOrder(tx, AfterDefaultAnte(tx))
<1> DEFINE paid == Transfer(Ledger, tx.key, FeeCollector, tx.fee)
           r == Advance(paid, tx.key)
<1>1. /\ tx.key \in Key /\ tx.key \in Address /\ tx.fee \in CoinSet
      /\ FeeCollector \in Address /\ FeeCollector \notin Key
  BY TxFacts, ChainAssumption
<1>2. /\ Ledger.accounts = accounts /\ Ledger.balance = balance
      /\ IsLedger(Ledger) /\ Covers(Ledger.balance[tx.key], tx.fee)
  BY DEF ChainInv, Ledger, DefaultAnte
<1>3. /\ IsLedger(paid) /\ OnlyOpens(Ledger, paid) /\ OnlyLoses(Ledger, paid, tx.key, tx.fee)
      /\ \A d \in Denom : Held(paid.balance, d) = Held(balance, d)
  <2> HIDE DEF paid
  <2> QED
    BY <1>1, <1>2, TransferFacts DEF paid
<1> HIDE DEF paid
<1>4. tx.key \in DOMAIN accounts /\ tx.sequence = accounts[tx.key]
  BY DEF DefaultAnte, SequenceMatches
<1>5. /\ tx.key \in DOMAIN paid.accounts /\ paid.accounts[tx.key] = tx.sequence
      /\ DOMAIN accounts \subseteq DOMAIN paid.accounts
      /\ \A k \in DOMAIN accounts : paid.accounts[k] = accounts[k]
  BY <1>2, <1>3, <1>4 DEF OnlyOpens
<1>6. /\ IsLedger(r) /\ r.balance = paid.balance
      /\ DOMAIN r.accounts = DOMAIN paid.accounts
      /\ r.accounts[tx.key] = tx.sequence + 1
      /\ \A j \in DOMAIN paid.accounts \ {tx.key} : r.accounts[j] = paid.accounts[j]
      /\ SpentIn(r) = SpentIn(paid) \cup {<<tx.key, tx.sequence>>}
  BY <1>3, <1>5, AdvanceFacts
<1>7. SpentIn(paid) = SpentIn(Ledger)
  BY <1>3, SpentAfterOpening
<1> HIDE DEF r
<1>8. Accepted(tx, r)
  BY <1>4, <1>5, <1>6, <1>7 DEF Accepted
<1>9. \A a \in Address, d \in Denom : r.balance[a][d] < balance[a][d] => a = tx.key
  BY <1>2, <1>3, <1>6 DEF OnlyLoses
<1>10. AfterAnteInOrder(tx, r)
  BY <1>3, <1>6, <1>8, <1>9 DEF AfterAnteInOrder
<1> QED
  BY <1>10 DEF AfterDefaultAnte, r, paid

LEMMA NativeFacts ==
  ASSUME NEW n \in Nat
  PROVE  /\ Native(n) \in CoinSet
         /\ \A d \in Denom : Native(n)[d] = IF d = NativeToken THEN n ELSE 0
BY ChainAssumption DEF Native, NoCoins, CoinSet

LEMMA OpensTwice ==
  ASSUME NEW l, NEW r, NEW f, OnlyOpens(l, r), OnlyOpens(r, f)
  PROVE  OnlyOpens(l, f)
BY DEF OnlyOpens

LEMMA CreationAnteFacts ==
  ASSUME ChainInv, NEW tx \in Tx, IsCreation(tx), CreationAnte(tx)
  PROVE  AfterAnteInOrder(tx, AfterCreationAnte(tx))
<1> DEFINE payer == FeePayer(tx.msgs[1])
           rest == TotalFee - TransactionFee
           charged == Transfer(Ledger, payer, FeeCollector, Native(TransactionFee))
           funded == Transfer(charged, payer, tx.key, Native(rest))
           r == Advance(funded, tx.key)
<1>1. /\ tx.key \in Key /\ tx.key \in Address /\ tx.key \notin DOMAIN accounts
      /\ tx.sequence = 0
      /\ FeeCollector \in Address /\ FeeCollector \notin Key
      /\ TotalFee \in Nat /\ TransactionFee \in Nat /\ rest \in Nat
  BY TxFacts, ChainAssumption DEF CreationAnte
<1>2. /\ Ledger.accounts = accounts /\ Ledger.balance = balance /\ IsLedger(Ledger)
      /\ balance \in [Address -> CoinSet] /\ DOMAIN accounts \subseteq Key
  BY DEF ChainInv, Ledger, IsLedger
<1>3. /\ payer \in DOMAIN accounts /\ payer \in Key /\ payer \in Address
      /\ Covers(balance[payer], Native(TotalFee))
  BY <1>2, MessagesAssumption DEF CreationAnte
<1> HIDE DEF payer, rest
<1>4. /\ Native(TransactionFee) \in CoinSet /\ Native(rest) \in CoinSet
      /\ Covers(balance[payer], Native(TransactionFee))
      /\ Covers(Sub(balance[payer], Native(TransactionFee)), Native(rest))
  <2>1. Native(TransactionFee) \in CoinSet /\ Native(rest) \in CoinSet
    BY <1>1, NativeFacts
  <2>2. ASSUME NEW d \in Denom
        PROVE  /\ balance[payer][d] >= Native(TransactionFee)[d]
               /\ Sub(balance[payer], Native(TransactionFee))[d] >= Native(rest)[d]
    <3>1. /\ balance[payer][d] \in Nat
          /\ balance[payer][d] >= IF d = NativeToken THEN TotalFee ELSE 0
      BY <1>1, <1>2, <1>3, NativeFacts DEF CoinSet, Covers
    <3>2. Sub(balance[payer], Native(TransactionFee))[d]
            = balance[payer][d] - (IF d = NativeToken THEN TransactionFee ELSE 0)
      BY <1>1, NativeFacts DEF Sub
    <3>3. /\ Native(rest)[d] = IF d = NativeToken THEN rest ELSE 0
          /\ Native(TransactionFee)[d] = IF d = NativeToken THEN TransactionFee ELSE 0
      BY <1>1, NativeFacts
    <3> QED
      BY <1>1, <3>1, <3>2, <3>3 DEF rest
  <2> QED
    BY <2>1, <2>2 DEF Covers
<1>5. /\ IsLedger(charged) /\ OnlyOpens(Ledger, charged)
      /\ OnlyLoses(Ledger, charged, payer, Native(TransactionFee))
      /\ \A d \in Denom : Held(charged.balance, d) = Held(balance, d)
      /\ charged.balance[payer] = Sub(balance[payer], Native(TransactionFee))
  BY <1>1, <1>2, <1>3, <1>4, TransferFacts
<1> HIDE DEF charged
<1>6. /\ IsLedger(funded) /\ OnlyOpens(charged, funded)
      /\ OnlyLoses(charged, funded, payer, Native(rest))
      /\ \A d \in Denom : Held(funded.balance, d) = Held(charged.balance, d)
      /\ tx.key \in DOMAIN funded.accounts
  BY <1>1, <1>3, <1>4, <1>5, TransferFacts
<1> HIDE DEF funded
<1>7. OnlyOpens(Ledger, funded) /\ SpentIn(funded) = SpentIn(Ledger)
  BY <1>5, <1>6, OpensTwice, SpentAfterOpening
<1>8. /\ funded.accounts[tx.key] = tx.sequence
      /\ DOMAIN accounts \subseteq DOMAIN funded.accounts
      /\ \A k \in DOMAIN accounts : funded.accounts[k] = accounts[k]
  BY <1>1, <1>2, <1>6, <1>7 DEF OnlyOpens
<1>9. /\ IsLedger(r) /\ r.balance = funded.balance
      /\ DOMAIN r.accounts = DOMAIN funded.accounts
      /\ r.accounts[tx.key] = tx.sequence + 1
      /\ \A j \in DOMAIN funded.accounts \ {tx.key} : r.accounts[j] = funded.accounts[j]
      /\ SpentIn(r) = SpentIn(funded) \cup {<<tx.key, tx.sequence>>}
  BY <1>6, <1>8, AdvanceFacts
<1> HIDE DEF r
<1>10. Accepted(tx, r)
  BY <1>1, <1>6, <1>7, <1>8, <1>9 DEF Accepted
<1>11. ASSUME NEW a \in Address, NEW d \in Denom, r.balance[a][d] < balance[a][d]
       PROVE  d = NativeToken
  <2>1. charged.balance[a][d] < balance[a][d] => Native(TransactionFee)[d] > 0
    BY <1>2, <1>5 DEF OnlyLoses
  <2>2. funded.balance[a][d] < charged.balance[a][d] => Native(rest)[d] > 0
    BY <1>6 DEF OnlyLoses
  <2>3. /\ balance[a][d] \in Nat /\ charged.balance[a][d] \in Nat
        /\ funded.balance[a][d] \in Nat
    BY <1>2, <1>5, <1>6 DEF IsLedger, CoinSet
  <2>4. Native(TransactionFee)[d] > 0 \/ Native(rest)[d] > 0
    BY <1>9, <1>11, <2>1, <2>2, <2>3
  <2> QED
    BY <1>1, <2>4, NativeFacts
<1>12. AfterAnteInOrder(tx, r)
  BY <1>1, <1>5, <1>6, <1>9, <1>10, <1>11 DEF AfterAnteInOrder
<1> QED
  BY <1>12 DEF AfterCreationAnte, r, funded, charged, rest, payer

\* Either ante handler, and the key that has signed.
LEMMA AnteFacts ==
  ASSUME ChainInv, NEW tx \in Tx, AntePasses(tx)
  PROVE  /\ AfterAnteInOrder(tx, AfterAnte(tx))
         /\ tx.key = PubKey(tx.msgs[1])
         /\ ~IsCreation(tx) => KeyIsKnown(tx.msgs[1])
<1>1. CASE IsCreation(tx)
  BY <1>1, CreationAnteFacts DEF AntePasses, AfterAnte, CreationAnte
<1>2. CASE ~IsCreation(tx)
  BY <1>2, DefaultAnteFacts DEF AntePasses, AfterAnte, DefaultAnte
<1> QED
  BY <1>1, <1>2

-----------------------------------------------------------------------------
(***************************************************************************)
(* The handlers that move coins                                            *)
(***************************************************************************)
LEMMA RecipientFacts ==
  ASSUME ChainInv, NEW to \in DidOrAddress, HasRecipient(to)
  PROVE  Recipient(to) \in Address
<1>1. CASE to \in Did
  <2>1. docs[to].pubKey = KeyOf[to] /\ to \in DOMAIN KeyOf
    BY <1>1 DEF ChainInv, DocsInOrder, HasRecipient
  <2> QED
    BY <1>1, <2>1, MessagesAssumption DEF Recipient
<1>2. CASE to \notin Did
  BY <1>2 DEF Recipient, DidOrAddress
<1> QED
  BY <1>1, <1>2

LEMMA PubKeyType ==
  ASSUME ChainInv, NEW d \in DOMAIN docs
  PROVE  docs[d].pubKey = KeyOf[d] /\ docs[d].pubKey \in Key /\ docs[d].pubKey \in Address
<1>1. docs[d].pubKey = KeyOf[d] /\ d \in DOMAIN KeyOf
  BY DEF ChainInv, DocsInOrder
<1> QED
  BY <1>1, MessagesAssumption

LEMMA SendFacts ==
  ASSUME ChainInv, NEW l, IsLedger(l), NEW from, NEW to \in DidOrAddress,
         NEW amount \in CoinSet, CanSend(l, from, to, amount)
  PROVE  LET f == AfterSend(l, from, to, amount)
         IN  /\ IsLedger(f) /\ OnlyOpens(l, f) /\ OnlyLoses(l, f, docs[from].pubKey, amount)
             /\ \A d \in Denom : Held(f.balance, d) = Held(l.balance, d)
<1>1. docs[from].pubKey \in Address
  BY PubKeyType DEF CanSend
<1>2. Recipient(to) \in Address
  BY RecipientFacts DEF CanSend
<1>3. Covers(l.balance[docs[from].pubKey], amount)
  BY DEF CanSend
<1> QED
  BY <1>1, <1>2, <1>3, TransferFacts DEF AfterSend

LEMMA MintFacts ==
  ASSUME ChainInv, NEW l, IsLedger(l), NEW to \in DidOrAddress, HasRecipient(to),
         NEW amount \in CoinSet
  PROVE  LET f == AfterMint(l, to, amount)
         IN  /\ IsLedger(f) /\ OnlyOpens(l, f)
             /\ \A a \in Address, d \in Denom : f.balance[a][d] >= l.balance[a][d]
             /\ \A d \in Denom : Held(f.balance, d) = Held(l.balance, d) + amount[d]
<1> DEFINE f == AfterMint(l, to, amount)
           who == Recipient(to)
<1>1. /\ DOMAIN l.accounts \subseteq Key /\ l.accounts \in [DOMAIN l.accounts -> Nat]
      /\ l.balance \in [Address -> CoinSet]
      /\ \A k \in Key \ DOMAIN l.accounts : l.balance[k] = NoCoins
  BY DEF IsLedger
<1>2. who \in Address
  BY RecipientFacts
<1>3. /\ f.accounts = IF who \in Key THEN Open(l.accounts, who) ELSE l.accounts
      /\ f.balance = [l.balance EXCEPT ![who] = Add(@, amount)]
  BY DEF AfterMint
<1> HIDE DEF f, who
<1>4. /\ Add(l.balance[who], amount) \in CoinSet
      /\ \A d \in Denom : /\ Add(l.balance[who], amount)[d] = l.balance[who][d] + amount[d]
                          /\ l.balance[who][d] \in Nat /\ amount[d] \in Nat
  BY <1>1, <1>2, CoinFacts
<1>5. /\ f.balance \in [Address -> CoinSet]
      /\ f.balance[who] = Add(l.balance[who], amount)
      /\ \A a \in Address \ {who} : f.balance[a] = l.balance[a]
  BY <1>1, <1>2, <1>3, <1>4
<1>6. /\ DOMAIN f.accounts \subseteq Key /\ f.accounts \in [DOMAIN f.accounts -> Nat]
      /\ OnlyOpens(l, f)
      /\ who \in Key => who \in DOMAIN f.accounts
  <2>1. CASE who \in Key /\ who \notin DOMAIN l.accounts
    BY <1>1, <1>3, <2>1 DEF Open, Store, OnlyOpens
  <2>2. CASE who \notin Key \/ who \in DOMAIN l.accounts
    <3>1. f.accounts = l.accounts
      BY <1>3, <2>2 DEF Open
    <3> QED
      BY <1>1, <2>2, <3>1 DEF OnlyOpens
  <2> QED
    BY <2>1, <2>2
<1>7. IsLedger(f)
  <2>1. ASSUME NEW k \in Key \ DOMAIN f.accounts PROVE f.balance[k] = NoCoins
    BY <1>1, <1>5, <1>6, MessagesAssumption DEF OnlyOpens
  <2> QED
    BY <1>5, <1>6, <2>1 DEF IsLedger
<1>8. ASSUME NEW a \in Address, NEW d \in Denom PROVE f.balance[a][d] >= l.balance[a][d]
  <2>1. l.balance[a][d] \in Nat
    BY <1>1 DEF CoinSet
  <2> QED
    BY <1>4, <1>5, <2>1
<1>9. ASSUME NEW d \in Denom PROVE Held(f.balance, d) = Held(l.balance, d) + amount[d]
  <2>1. /\ Held(l.balance, d) \in Nat
        /\ Held(f.balance, d) = (Held(l.balance, d) - l.balance[who][d]) + f.balance[who][d]
    BY <1>1, <1>2, <1>5, HeldUpdate
  <2> QED
    BY <1>4, <1>5, <2>1
<1> QED
  BY <1>6, <1>7, <1>8, <1>9 DEF f

LEMMA BurnFacts ==
  ASSUME ChainInv, NEW l, IsLedger(l), NEW from, NEW amount \in CoinSet,
         CanBurn(l, from, amount)
  PROVE  LET f == AfterBurn(l, from, amount)
         IN  /\ IsLedger(f) /\ OnlyOpens(l, f) /\ OnlyLoses(l, f, docs[from].pubKey, amount)
             /\ \A d \in Denom : /\ Held(f.balance, d) = Held(l.balance, d) - amount[d]
                                 /\ Held(f.balance, d) \in Nat
<1> DEFINE f == AfterBurn(l, from, amount)
           who == docs[from].pubKey
<1>1. /\ DOMAIN l.accounts \subseteq Key /\ l.accounts \in [DOMAIN l.accounts -> Nat]
      /\ l.balance \in [Address -> CoinSet]
      /\ \A k \in Key \ DOMAIN l.accounts : l.balance[k] = NoCoins
  BY DEF IsLedger
<1>2. who \in Key /\ who \in Address /\ Covers(l.balance[who], amount)
  BY PubKeyType DEF CanBurn
<1>3. /\ f.accounts = Open(l.accounts, who)
      /\ f.balance = [l.balance EXCEPT ![who] = Sub(@, amount)]
  BY DEF AfterBurn
<1> HIDE DEF f, who
<1>4. /\ Sub(l.balance[who], amount) \in CoinSet
      /\ \A d \in Denom : /\ Sub(l.balance[who], amount)[d] = l.balance[who][d] - amount[d]
                          /\ l.balance[who][d] \in Nat /\ amount[d] \in Nat
  BY <1>1, <1>2, CoinFacts
<1>5. /\ f.balance \in [Address -> CoinSet]
      /\ f.balance[who] = Sub(l.balance[who], amount)
      /\ \A a \in Address \ {who} : f.balance[a] = l.balance[a]
  BY <1>1, <1>2, <1>3, <1>4
<1>6. /\ DOMAIN f.accounts \subseteq Key /\ f.accounts \in [DOMAIN f.accounts -> Nat]
      /\ OnlyOpens(l, f) /\ who \in DOMAIN f.accounts
  <2>1. CASE who \notin DOMAIN l.accounts
    BY <1>1, <1>2, <1>3, <2>1 DEF Open, Store, OnlyOpens
  <2>2. CASE who \in DOMAIN l.accounts
    <3>1. f.accounts = l.accounts
      BY <1>3, <2>2 DEF Open
    <3> QED
      BY <1>1, <2>2, <3>1 DEF OnlyOpens
  <2> QED
    BY <2>1, <2>2
<1>7. IsLedger(f)
  <2>1. ASSUME NEW k \in Key \ DOMAIN f.accounts PROVE f.balance[k] = NoCoins
    BY <1>1, <1>5, <1>6, MessagesAssumption DEF OnlyOpens
  <2> QED
    BY <1>5, <1>6, <2>1 DEF IsLedger
<1>8. ASSUME NEW a \in Address, NEW d \in Denom, f.balance[a][d] < l.balance[a][d]
      PROVE  a = who /\ amount[d] > 0
  <2>1. l.balance[a][d] \in Nat
    BY <1>1 DEF CoinSet
  <2> QED
    BY <1>4, <1>5, <1>8, <2>1
<1>9. ASSUME NEW d \in Denom
      PROVE  /\ Held(f.balance, d) = Held(l.balance, d) - amount[d]
             /\ Held(f.balance, d) \in Nat
  <2>1. /\ Held(l.balance, d) \in Nat /\ Held(f.balance, d) \in Nat
        /\ Held(f.balance, d) = (Held(l.balance, d) - l.balance[who][d]) + f.balance[who][d]
    BY <1>1, <1>2, <1>5, HeldUpdate
  <2> QED
    BY <1>4, <1>5, <2>1
<1>10. OnlyLoses(l, f, who, amount)
  BY <1>8 DEF OnlyLoses
<1> QED
  BY <1>6, <1>7, <1>9, <1>10 DEF f, who

-----------------------------------------------------------------------------
(***************************************************************************)
(* A delivery                                                              *)
(***************************************************************************)
\* What a delivery does to coins: the supply follows, and whoever loses coins
\* has signed, pays for the creation of a project, or is subject to an oracle.
LosersAuthorised(tx) ==
  \A a \in Address, d \in Denom : balance'[a][d] < balance[a][d] =>
    \/ a = tx.key
    \/ IsCreation(tx) /\ tx.key \notin DOMAIN accounts /\ d = NativeToken
    \/ \E oracle \in DOMAIN Capabilities \cap DOMAIN docs, cap \in {"transfer", "burn"} :
         tx.key = docs[oracle].pubKey /\ cap \in TokenCaps(oracle, d)
OracleSigned(tx, cap, d) ==
  \E oracle \in DOMAIN Capabilities \cap DOMAIN docs :
    tx.key = docs[oracle].pubKey /\ cap \in TokenCaps(oracle, d)
CoinsInOrder(tx) ==
  /\ Accepted(tx, Ledger') /\ SupplyInOrder' /\ LosersAuthorised(tx)
  /\ \A d \in Denom : /\ supply'[d] > supply[d] => OracleSigned(tx, "mint", d)
                      /\ supply'[d] < supply[d] => OracleSigned(tx, "burn", d)

LEMMA SupplyFacts ==
  ASSUME ChainInv
  PROVE  /\ supply \in CoinSet /\ IsLedger(Ledger) /\ balance \in [Address -> CoinSet]
         /\ \A d \in Denom : supply[d] = Held(balance, d) /\ supply[d] \in Nat
BY DEF ChainInv, SupplyInOrder, Ledger, IsLedger, CoinSet

\* The state becomes f.
LEMMA BecomesFacts ==
  ASSUME NEW tx, NEW f, Accepted(tx, f), Becomes(f)
  PROVE  /\ Accepted(tx, Ledger') /\ balance' = f.balance /\ accounts' = f.accounts
         /\ IsLedger(f) /\ IsLedger(Ledger')
<1>1. /\ Ledger'.accounts = f.accounts /\ Ledger'.balance = f.balance
      /\ balance' = f.balance /\ accounts' = f.accounts
  BY DEF Becomes, Ledger
<1>2. SpentIn(Ledger') = SpentIn(f)
  BY <1>1 DEF SpentIn
<1>3. IsLedger(f)
  BY DEF Accepted
<1>4. IsLedger(Ledger')
  BY <1>1, <1>3 DEF IsLedger
<1> QED
  BY <1>1, <1>2, <1>3, <1>4 DEF Accepted

\* The oracle of a message has signed it, with a key of its own document.
LEMMA OracleFacts ==
  ASSUME ChainInv, NEW tx \in Tx, AntePasses(tx),
         tx.msgs[1].type \in {"send", "oracle-transfer", "oracle-mint", "oracle-burn"}
  PROVE  LET m == tx.msgs[1]
             did == IF m.type = "send" THEN m.FromDid ELSE m.OracleDid
         IN  /\ did \in DOMAIN docs /\ tx.key = docs[did].pubKey
             /\ m.Amount \in CoinSet
             /\ m.type # "oracle-burn" => m.ToDidOrAddr \in DidOrAddress
             /\ AfterAnteInOrder(tx, AfterAnte(tx)) /\ ~IsCreation(tx)
<1> DEFINE m == tx.msgs[1]
           did == IF m.type = "send" THEN m.FromDid ELSE m.OracleDid
<1>1. ValidateBasic(m)
  BY TxFacts
<1>2. ~IsCreation(tx)
  BY DEF IsCreation
<1>3. /\ AfterAnteInOrder(tx, AfterAnte(tx)) /\ tx.key = PubKey(m) /\ KeyIsKnown(m)
  BY <1>2, AnteFacts
<1> HIDE DEF m
<1>4. m.type \in {"send", "oracle-transfer", "oracle-mint", "oracle-burn"}
  BY DEF m
<1>5. /\ m.Amount \in CoinSet /\ ~BringsKey(m) /\ ~SignedByProject(m)
      /\ m.type # "oracle-burn" => m.ToDidOrAddr \in DidOrAddress
      /\ GetSignerDid(m) = did
  BY <1>1, <1>4, TreasuryMessages
<1>6. did \in DOMAIN docs /\ tx.key = docs[did].pubKey
  BY <1>3, <1>5 DEF KeyIsKnown, PubKey
<1> QED
  BY <1>2, <1>3, <1>5, <1>6 DEF m

\* The ante handler alone, or with a handler that moves no coins.
LEMMA AnteStep ==
  ASSUME ChainInv, NEW tx \in Tx, AntePasses(tx), Becomes(AfterAnte(tx)), supply' = supply
  PROVE  CoinsInOrder(tx)
<1> DEFINE r == AfterAnte(tx)
<1>1. AfterAnteInOrder(tx, r)
  BY AnteFacts
<1> HIDE DEF r
<1>2. /\ Accepted(tx, r)
      /\ \A d \in Denom : Held(r.balance, d) = Held(balance, d)
      /\ \A a \in Address, d \in Denom : r.balance[a][d] < balance[a][d] =>
           \/ a = tx.key
           \/ IsCreation(tx) /\ tx.key \notin DOMAIN accounts /\ d = NativeToken
  BY <1>1 DEF AfterAnteInOrder
<1>3. Accepted(tx, Ledger') /\ balance' = r.balance
  BY <1>2, BecomesFacts DEF r
<1>4. /\ supply \in CoinSet
      /\ \A d \in Denom : supply[d] = Held(balance, d) /\ supply[d] \in Nat
  BY SupplyFacts
<1>5. SupplyInOrder'
  <2>1. \A d \in Denom : supply'[d] = Held(balance', d)
    BY <1>2, <1>3, <1>4
  <2>2. \A d \in Denom : Held(balance', d) = Held(balance, d)'
    BY DEF Held
  <2> QED
    BY <1>4, <2>1, <2>2 DEF SupplyInOrder
<1>6. LosersAuthorised(tx)
  BY <1>2, <1>3 DEF LosersAuthorised
<1> QED
  BY <1>3, <1>4, <1>5, <1>6 DEF CoinsInOrder

\* The supply of the next state, once a handler has turned r into f.
LEMMA NextSupply ==
  ASSUME ChainInv, NEW r, \A d \in Denom : Held(r.balance, d) = Held(balance, d),
         NEW f, balance' = f.balance, supply' \in CoinSet,
         \A d \in Denom : Held(f.balance, d) - Held(r.balance, d) = supply'[d] - supply[d],
         \A d \in Denom : Held(f.balance, d) \in Nat
  PROVE  SupplyInOrder'
<1>1. \A d \in Denom : supply[d] = Held(balance, d) /\ supply[d] \in Nat
  BY SupplyFacts
<1>2. \A d \in Denom : supply'[d] \in Nat
  BY DEF CoinSet
<1>3. \A d \in Denom : supply'[d] = Held(f.balance, d)
  BY <1>1, <1>2
<1>4. \A d \in Denom : Held(balance', d) = Held(balance, d)'
  BY DEF Held
<1> QED
  BY <1>3, <1>4 DEF SupplyInOrder

LEMMA HeldType ==
  ASSUME NEW l, IsLedger(l), NEW d \in Denom
  PROVE  Held(l.balance, d) \in Nat
<1>1. l.balance \in [Address -> CoinSet] /\ IsFiniteSet(Address)
  BY ChainAssumption DEF IsLedger
<1>2. \A a \in Address : [y \in Address |-> l.balance[y][d]][a] \in Nat
  BY <1>1 DEF CoinSet
<1> QED
  BY <1>1, <1>2, SumType DEF Held

\* Whoever loses coins to the ante handler or to a handler.
LEMMA Losers ==
  ASSUME ChainInv, NEW tx, NEW r, NEW f, AfterAnteInOrder(tx, r), IsLedger(f),
         balance' = f.balance, NEW from, NEW coins, OnlyLoses(r, f, from, coins),
         NEW a \in Address, NEW d \in Denom, balance'[a][d] < balance[a][d]
  PROVE  \/ a = tx.key
         \/ IsCreation(tx) /\ tx.key \notin DOMAIN accounts /\ d = NativeToken
         \/ a = from /\ coins[d] > 0
<1>1. /\ balance[a][d] \in Nat /\ r.balance[a][d] \in Nat /\ f.balance[a][d] \in Nat
  BY SupplyFacts DEF AfterAnteInOrder, Accepted, IsLedger, CoinSet
<1>2. r.balance[a][d] < balance[a][d] =>
        \/ a = tx.key
        \/ IsCreation(tx) /\ tx.key \notin DOMAIN accounts /\ d = NativeToken
  BY DEF AfterAnteInOrder
<1>3. f.balance[a][d] < r.balance[a][d] => a = from /\ coins[d] > 0
  BY DEF OnlyLoses
<1> QED
  BY <1>1, <1>2, <1>3

LEMMA SendStep ==
  ASSUME ChainInv, NEW tx \in Tx, AntePasses(tx), Send(tx) \/ OracleTransfer(tx)
  PROVE  CoinsInOrder(tx)
<1> DEFINE m == tx.msgs[1]
           r == AfterAnte(tx)
           f == AfterSend(r, m.FromDid, m.ToDidOrAddr, m.Amount)
<1>1. /\ m.type \in {"send", "oracle-transfer"} /\ CanSend(r, m.FromDid, m.ToDidOrAddr, m.Amount)
      /\ Becomes(f) /\ supply' = supply
      /\ m.type = "oracle-transfer" => Capable(m.OracleDid, "transfer", m.Amount)
  BY DEF Send, OracleTransfer
<1>2. /\ AfterAnteInOrder(tx, r) /\ m.Amount \in CoinSet /\ m.ToDidOrAddr \in DidOrAddress
      /\ m.type = "send" => tx.key = docs[m.FromDid].pubKey
      /\ m.type = "oracle-transfer" => m.OracleDid \in DOMAIN docs /\ tx.key = docs[m.OracleDid].pubKey
  BY <1>1, OracleFacts
<1> HIDE DEF m, r
<1>3. Accepted(tx, r) /\ IsLedger(r)
  BY <1>2 DEF AfterAnteInOrder, Accepted
<1>4. /\ IsLedger(f) /\ OnlyOpens(r, f) /\ OnlyLoses(r, f, docs[m.FromDid].pubKey, m.Amount)
      /\ \A d \in Denom : Held(f.balance, d) = Held(r.balance, d)
  BY <1>1, <1>2, <1>3, SendFacts
<1> HIDE DEF f
<1>5. Accepted(tx, f)
  BY <1>3, <1>4, AcceptedOpens
<1>6. Accepted(tx, Ledger') /\ balance' = f.balance
  BY <1>1, <1>5, BecomesFacts
<1>7. SupplyInOrder'
  <2>1. \A d \in Denom : Held(r.balance, d) = Held(balance, d)
    BY <1>2 DEF AfterAnteInOrder
  <2>2. \A d \in Denom : Held(balance', d) = Held(balance, d)'
    BY DEF Held
  <2> QED
    BY <1>1, <1>4, <1>6, <2>1, <2>2, SupplyFacts DEF SupplyInOrder
<1>8. ASSUME NEW a \in Address, NEW d \in Denom, balance'[a][d] < balance[a][d]
      PROVE  \/ a = tx.key
             \/ IsCreation(tx) /\ tx.key \notin DOMAIN accounts /\ d = NativeToken
             \/ \E oracle \in DOMAIN Capabilities \cap DOMAIN docs, cap \in {"transfer", "burn"} :
                  tx.key = docs[oracle].pubKey /\ cap \in TokenCaps(oracle, d)
  <2>1. \/ a = tx.key
        \/ IsCreation(tx) /\ tx.key \notin DOMAIN accounts /\ d = NativeToken
        \/ a = docs[m.FromDid].pubKey /\ m.Amount[d] > 0
    BY <1>2, <1>4, <1>6, <1>8, Losers
  <2>2. CASE m.type = "oracle-transfer" /\ m.Amount[d] > 0
    BY <1>1, <1>2, <2>2 DEF Capable
  <2> QED
    BY <1>1, <1>2, <2>1, <2>2
<1>9. LosersAuthorised(tx)
  BY <1>8 DEF LosersAuthorised
<1> QED
  BY <1>1, <1>6, <1>7, <1>9, SupplyFacts DEF CoinsInOrder

LEMMA MintStep ==
  ASSUME ChainInv, NEW tx \in Tx, AntePasses(tx), OracleMint(tx)
  PROVE  CoinsInOrder(tx)
<1> DEFINE m == tx.msgs[1]
           r == AfterAnte(tx)
           f == AfterMint(r, m.ToDidOrAddr, m.Amount)
<1>1. /\ m.type = "oracle-mint" /\ Capable(m.OracleDid, "mint", m.Amount)
      /\ HasRecipient(m.ToDidOrAddr) /\ Becomes(f) /\ supply' = Add(supply, m.Amount)
  BY DEF OracleMint
<1>2. /\ AfterAnteInOrder(tx, r) /\ m.Amount \in CoinSet /\ m.ToDidOrAddr \in DidOrAddress
      /\ m.OracleDid \in DOMAIN docs /\ tx.key = docs[m.OracleDid].pubKey
  BY <1>1, OracleFacts
<1> HIDE DEF m, r
<1>3. Accepted(tx, r) /\ IsLedger(r)
  BY <1>2 DEF AfterAnteInOrder, Accepted
<1>4. /\ IsLedger(f) /\ OnlyOpens(r, f)
      /\ \A a \in Address, d \in Denom : f.balance[a][d] >= r.balance[a][d]
      /\ \A d \in Denom : Held(f.balance, d) = Held(r.balance, d) + m.Amount[d]
  BY <1>1, <1>2, <1>3, MintFacts
<1> HIDE DEF f
<1>5. Accepted(tx, f)
  BY <1>3, <1>4, AcceptedOpens
<1>6. Accepted(tx, Ledger') /\ balance' = f.balance
  BY <1>1, <1>5, BecomesFacts
<1>7. /\ supply' \in CoinSet
      /\ \A d \in Denom : /\ supply'[d] = supply[d] + m.Amount[d]
                          /\ supply[d] \in Nat /\ m.Amount[d] \in Nat
  BY <1>1, <1>2, CoinFacts, SupplyFacts
<1>8. SupplyInOrder'
  <2>1. \A d \in Denom : Held(r.balance, d) = Held(balance, d)
    BY <1>2 DEF AfterAnteInOrder
  <2>2. \A d \in Denom : Held(f.balance, d) \in Nat /\ Held(r.balance, d) \in Nat
    BY <1>3, <1>4, HeldType
  <2>3. \A d \in Denom : Held(f.balance, d) - Held(r.balance, d) = supply'[d] - supply[d]
    BY <1>4, <1>7, <2>2
  <2> QED
    BY <1>6, <1>7, <2>1, <2>2, <2>3, NextSupply
<1>9. LosersAuthorised(tx)
  <2>1. OnlyLoses(r, f, tx.key, m.Amount)
    <3>1. \A a \in Address, d \in Denom : f.balance[a][d] \in Nat /\ r.balance[a][d] \in Nat
      BY <1>3, <1>4 DEF IsLedger, CoinSet
    <3> QED
      BY <1>4, <3>1 DEF OnlyLoses
  <2> QED
    BY <1>2, <1>4, <1>6, <2>1, Losers DEF LosersAuthorised
<1>10. ASSUME NEW d \in Denom, supply'[d] # supply[d]
       PROVE  OracleSigned(tx, "mint", d) /\ supply'[d] > supply[d]
  <2>1. m.Amount[d] > 0
    BY <1>7, <1>10
  <2> QED
    BY <1>1, <1>2, <1>7, <2>1 DEF Capable, OracleSigned
<1>11. \A d \in Denom : ~(supply'[d] > supply[d] /\ supply'[d] < supply[d])
  BY <1>7
<1>12. \A d \in Denom : supply'[d] > supply[d] \/ supply'[d] < supply[d] => supply'[d] # supply[d]
  BY <1>7
<1> QED
  BY <1>6, <1>8, <1>9, <1>10, <1>11, <1>12 DEF CoinsInOrder

LEMMA BurnStep ==
  ASSUME ChainInv, NEW tx \in Tx, AntePasses(tx), OracleBurn(tx)
  PROVE  CoinsInOrder(tx)
<1> DEFINE m == tx.msgs[1]
           r == AfterAnte(tx)
           f == AfterBurn(r, m.FromDid, m.Amount)
<1>1. /\ m.type = "oracle-burn" /\ Capable(m.OracleDid, "burn", m.Amount)
      /\ CanBurn(r, m.FromDid, m.Amount) /\ Becomes(f) /\ supply' = Sub(supply, m.Amount)
  BY DEF OracleBurn
<1>2. /\ AfterAnteInOrder(tx, r) /\ m.Amount \in CoinSet
      /\ m.OracleDid \in DOMAIN docs /\ tx.key = docs[m.OracleDid].pubKey
  BY <1>1, OracleFacts
<1> HIDE DEF m, r
<1>3. Accepted(tx, r) /\ IsLedger(r)
  BY <1>2 DEF AfterAnteInOrder, Accepted
<1>4. /\ IsLedger(f) /\ OnlyOpens(r, f) /\ OnlyLoses(r, f, docs[m.FromDid].pubKey, m.Amount)
      /\ \A d \in Denom : /\ Held(f.balance, d) = Held(r.balance, d) - m.Amount[d]
                          /\ Held(f.balance, d) \in Nat
  BY <1>1, <1>2, <1>3, BurnFacts
<1> HIDE DEF f
<1>5. Accepted(tx, f)
  BY <1>3, <1>4, AcceptedOpens
<1>6. Accepted(tx, Ledger') /\ balance' = f.balance
  BY <1>1, <1>5, BecomesFacts
<1>7. \A d \in Denom : Held(r.balance, d) = Held(balance, d) /\ Held(r.balance, d) \in Nat
  BY <1>2, <1>3, HeldType DEF AfterAnteInOrder
<1>8. \A d \in Denom : /\ supply'[d] = supply[d] - m.Amount[d]
                       /\ supply[d] \in Nat /\ m.Amount[d] \in Nat
  BY <1>1, <1>2, CoinFacts, SupplyFacts
<1>9. supply' \in CoinSet
  <2>1. \A d \in Denom : supply[d] - m.Amount[d] \in Nat
    BY <1>4, <1>7, <1>8, SupplyFacts
  <2> QED
    BY <1>1, <2>1 DEF Sub, CoinSet
<1>10. SupplyInOrder'
  <2>1. \A d \in Denom : Held(f.balance, d) - Held(r.balance, d) = supply'[d] - supply[d]
    BY <1>4, <1>7, <1>8
  <2> QED
    BY <1>4, <1>6, <1>7, <1>9, <2>1, NextSupply
<1>11. ASSUME NEW a \in Address, NEW d \in Denom, balance'[a][d] < balance[a][d]
       PROVE  \/ a = tx.key
              \/ IsCreation(tx) /\ tx.key \notin DOMAIN accounts /\ d = NativeToken
              \/ \E oracle \in DOMAIN Capabilities \cap DOMAIN docs, cap \in {"transfer", "burn"} :
                   tx.key = docs[oracle].pubKey /\ cap \in TokenCaps(oracle, d)
  <2>1. \/ a = tx.key
        \/ IsCreation(tx) /\ tx.key \notin DOMAIN accounts /\ d = NativeToken
        \/ m.Amount[d] > 0
    BY <1>2, <1>4, <1>6, <1>11, Losers
  <2>2. CASE m.Amount[d] > 0
    BY <1>1, <1>2, <2>2 DEF Capable
  <2> QED
    BY <2>1, <2>2
<1>12. LosersAuthorised(tx)
  BY <1>11 DEF LosersAuthorised
<1>13. ASSUME NEW d \in Denom
       PROVE  /\ ~(supply'[d] > supply[d])
              /\ supply'[d] < supply[d] => OracleSigned(tx, "burn", d)
  <2>1. ~(supply'[d] > supply[d]) /\ (supply'[d] < supply[d] => m.Amount[d] > 0)
    BY <1>8
  <2> QED
    BY <1>1, <1>2, <2>1 DEF Capable, OracleSigned
<1> QED
  BY <1>6, <1>10, <1>12, <1>13 DEF CoinsInOrder

LEMMA DeliverCoins ==
  ASSUME ChainInv, NEW tx \in Tx, Deliver(tx)
  PROVE  CoinsInOrder(tx)
<1>1. AntePasses(tx)
  BY DEF Deliver
<1>2. CASE AddDid(tx) \/ AddCredential(tx) \/ CreateProject(tx) \/ OnlyAnte(tx)
  BY <1>1, <1>2, AnteStep DEF AddDid, AddCredential, CreateProject, OnlyAnte
<1>3. CASE Send(tx) \/ OracleTransfer(tx)
  BY <1>1, <1>3, SendStep
<1>4. CASE OracleMint(tx)
  BY <1>1, <1>4, MintStep
<1>5. CASE OracleBurn(tx)
  BY <1>1, <1>5, BurnStep
<1> QED
  BY <1>2, <1>3, <1>4, <1>5 DEF Deliver

-----------------------------------------------------------------------------
(***************************************************************************)
(* Documents and projects                                                  *)
(***************************************************************************)
LEMMA EmptyList == IsList(<<>>) /\ WithoutRepeats(<<>>)
  BY DEF IsList, WithoutRepeats

LEMMA AppendToList ==
  ASSUME NEW s, NEW e, IsList(s)
  PROVE  /\ IsList(Append(s, e)) /\ Len(s) \in Nat /\ Len(Append(s, e)) = Len(s) + 1
         /\ Append(s, e)[Len(s) + 1] = e
         /\ \A i \in 1 .. Len(s) : Append(s, e)[i] = s[i]
<1> DEFINE S == {s[i] : i \in DOMAIN s} \cup {e}
<1>1. s \in Seq(S) /\ e \in S
  BY DEF IsList
<1> HIDE DEF S
<1>2. /\ Append(s, e) \in Seq(S) /\ Len(s) \in Nat /\ Len(Append(s, e)) = Len(s) + 1
      /\ Append(s, e)[Len(s) + 1] = e
      /\ \A i \in 1 .. Len(s) : Append(s, e)[i] = s[i]
  BY <1>1
<1>3. Append(s, e) \in Seq({Append(s, e)[i] : i \in DOMAIN Append(s, e)})
  BY <1>2
<1> QED
  BY <1>2, <1>3 DEF IsList

\* Two credentials of the same content clash.
LEMMA EqualsClash ==
  ASSUME NEW c, NEW m, c.Issuer = m.Issuer, c.CredType = m.CredType,
         c.KYCValidated = m.KYCValidated
  PROVE  Clashes(c, m)
BY DEF Clashes

\* A document after the step: the same, or with one credential more.
DocKept(d) ==
  /\ d \in DOMAIN docs' /\ docs'[d].pubKey = docs[d].pubKey
  /\ Len(docs[d].credentials) <= Len(docs'[d].credentials)
  /\ \A i \in 1 .. Len(docs[d].credentials) :
       docs'[d].credentials[i] = docs[d].credentials[i]
  /\ WithoutRepeats(docs'[d].credentials)

LEMMA UnchangedDocs ==
  ASSUME ChainInv, docs' = docs
  PROVE  DocsInOrder' /\ \A d \in DOMAIN docs : DocKept(d)
<1>1. \A d \in DOMAIN docs : Len(docs[d].credentials) \in Nat
  BY DEF ChainInv, DocsInOrder, IsList
<1> QED
  BY <1>1 DEF ChainInv, DocsInOrder, DocKept

LEMMA AddDidDocs ==
  ASSUME ChainInv, NEW tx \in Tx, AddDid(tx)
  PROVE  DocsInOrder' /\ \A d \in DOMAIN docs : DocKept(d)
<1> DEFINE m == tx.msgs[1]
<1>1. /\ m.type = "add-did" /\ m.Did \notin DOMAIN docs
      /\ docs' = Store(docs, m.Did, [pubKey |-> m.PubKey, credentials |-> <<>>])
  BY DEF AddDid, CanAddDid
<1>2. ValidateBasic(m)
  BY TxFacts
<1> HIDE DEF m
<1>3. m.Did \in Did \cap DOMAIN KeyOf /\ m.PubKey = KeyOf[m.Did]
  BY <1>1, <1>2, DidMessages
<1>4. /\ DOMAIN docs' = DOMAIN docs \cup {m.Did}
      /\ docs'[m.Did] = [pubKey |-> m.PubKey, credentials |-> <<>>]
      /\ \A d \in DOMAIN docs : docs'[d] = docs[d]
  BY <1>1 DEF Store
<1>5. /\ DOMAIN docs \subseteq Did \cap DOMAIN KeyOf
      /\ \A d \in DOMAIN docs :
           /\ docs[d] = [pubKey |-> KeyOf[d], credentials |-> docs[d].credentials]
           /\ IsList(docs[d].credentials) /\ WithoutRepeats(docs[d].credentials)
  BY DEF ChainInv, DocsInOrder
<1>6. \A d \in DOMAIN docs' :
        /\ docs'[d] = [pubKey |-> KeyOf[d], credentials |-> docs'[d].credentials]
        /\ IsList(docs'[d].credentials) /\ WithoutRepeats(docs'[d].credentials)
  <2>1. /\ docs'[m.Did] = [pubKey |-> KeyOf[m.Did], credentials |-> docs'[m.Did].credentials]
        /\ docs'[m.Did].credentials = <<>>
    BY <1>3, <1>4
  <2> QED
    BY <1>4, <1>5, <2>1, EmptyList
<1>7. \A d \in DOMAIN docs : Len(docs[d].credentials) \in Nat
  BY <1>5 DEF IsList
<1> QED
  BY <1>3, <1>4, <1>5, <1>6, <1>7 DEF DocsInOrder, DocKept

LEMMA AddCredentialDocs ==
  ASSUME ChainInv, NEW tx \in Tx, AddCredential(tx)
  PROVE  DocsInOrder' /\ \A d \in DOMAIN docs : DocKept(d)
<1> DEFINE m == tx.msgs[1]
           did == m.Id
           old == docs[did].credentials
           new == Append(old, Credential(m))
<1>1. /\ did \in DOMAIN docs
      /\ \A i \in 1 .. Len(old) : ~Clashes(old[i], m)
      /\ docs' = [docs EXCEPT ![did] = [docs[did] EXCEPT !.credentials = new]]
  BY DEF AddCredential, CanAddCredential
<1>2. /\ DOMAIN docs \subseteq Did \cap DOMAIN KeyOf
      /\ \A d \in DOMAIN docs :
           /\ docs[d] = [pubKey |-> KeyOf[d], credentials |-> docs[d].credentials]
           /\ IsList(docs[d].credentials) /\ WithoutRepeats(docs[d].credentials)
  BY DEF ChainInv, DocsInOrder
<1>3. /\ Credential(m).Issuer = m.Issuer /\ Credential(m).CredType = m.CredType
      /\ Credential(m).KYCValidated = m.KYCValidated
  BY DEF Credential
<1>4. /\ docs[did] = [pubKey |-> KeyOf[did], credentials |-> old]
      /\ IsList(old) /\ WithoutRepeats(old)
  BY <1>1, <1>2
<1>5. /\ IsList(new) /\ Len(old) \in Nat /\ Len(new) = Len(old) + 1
      /\ new[Len(old) + 1] = Credential(m)
      /\ \A i \in 1 .. Len(old) : new[i] = old[i]
  <2> HIDE DEF old
  <2> QED
    BY <1>4, AppendToList
<1>6. /\ DOMAIN docs' = DOMAIN docs
      /\ docs'[did] = [pubKey |-> KeyOf[did], credentials |-> new]
      /\ \A d \in DOMAIN docs \ {did} : docs'[d] = docs[d]
  <2> HIDE DEF new, old, did
  <2> QED
    BY <1>1, <1>4
<1> HIDE DEF m, did, new
<1>7. \A i \in 1 .. Len(old) :
        <<old[i].Issuer, old[i].CredType, old[i].KYCValidated>>
          # <<m.Issuer, m.CredType, m.KYCValidated>>
  BY <1>1, EqualsClash
<1>8. ASSUME NEW i \in 1 .. Len(new), NEW j \in 1 .. Len(new), i # j
      PROVE  <<new[i].Issuer, new[i].CredType, new[i].KYCValidated>>
               # <<new[j].Issuer, new[j].CredType, new[j].KYCValidated>>
  <2> HIDE DEF old
  <2>1. CASE i \in 1 .. Len(old) /\ j \in 1 .. Len(old)
    BY <1>4, <1>5, <1>8, <2>1 DEF WithoutRepeats
  <2>2. CASE i = Len(old) + 1 /\ j \in 1 .. Len(old)
    BY <1>3, <1>5, <1>7, <2>2
  <2>3. CASE j = Len(old) + 1 /\ i \in 1 .. Len(old)
    BY <1>3, <1>5, <1>7, <2>3
  <2>4. /\ i \in 1 .. Len(old) \/ i = Len(old) + 1
        /\ j \in 1 .. Len(old) \/ j = Len(old) + 1
    BY <1>5
  <2> QED
    BY <1>8, <2>1, <2>2, <2>3, <2>4
<1>9. WithoutRepeats(new)
  BY <1>8 DEF WithoutRepeats
<1>10. docs'[did].credentials = new /\ docs'[did].pubKey = KeyOf[did]
  BY <1>6
<1>11. DocsInOrder'
  <2>1. \A d \in DOMAIN docs' :
          /\ docs'[d] = [pubKey |-> KeyOf[d], credentials |-> docs'[d].credentials]
          /\ IsList(docs'[d].credentials) /\ WithoutRepeats(docs'[d].credentials)
    BY <1>2, <1>5, <1>6, <1>9, <1>10
  <2> QED
    BY <1>2, <1>6, <2>1 DEF DocsInOrder
<1>12. ASSUME NEW d \in DOMAIN docs PROVE DocKept(d)
  <2>1. CASE d # did
    <3>1. Len(docs[d].credentials) \in Nat
      BY <1>2 DEF IsList
    <3> QED
      BY <1>2, <1>6, <2>1, <3>1 DEF DocKept
  <2>2. CASE d = did
    <3>1. docs[did].credentials = old /\ docs[did].pubKey = KeyOf[did]
      BY <1>4
    <3> HIDE DEF old
    <3> QED
      BY <1>5, <1>6, <1>9, <1>10, <2>2, <3>1 DEF DocKept
  <2> QED
    BY <2>1, <2>2
<1> QED
  BY <1>11, <1>12

LEMMA DeliverDocs ==
  ASSUME ChainInv, NEW tx \in Tx, Deliver(tx)
  PROVE  DocsInOrder' /\ \A d \in DOMAIN docs : DocKept(d)
<1>1. CASE AddDid(tx)
  BY <1>1, AddDidDocs
<1>2. CASE AddCredential(tx)
  BY <1>2, AddCredentialDocs
<1>3. CASE ~AddDid(tx) /\ ~AddCredential(tx)
  <2>1. docs' = docs
    BY <1>3 DEF Deliver, Send, OracleTransfer, OracleMint, OracleBurn, CreateProject, OnlyAnte
  <2> QED
    BY <2>1, UnchangedDocs
<1> QED
  BY <1>1, <1>2, <1>3

LEMMA DeliverProjects ==
  ASSUME ChainInv, NEW tx \in Tx, Deliver(tx)
  PROVE  ProjectsInOrder'
<1> DEFINE m == tx.msgs[1]
<1>1. DOMAIN projects \subseteq DOMAIN KeyOf /\ projects = [p \in DOMAIN projects |-> KeyOf[p]]
  BY DEF ChainInv, ProjectsInOrder
<1>2. CASE CreateProject(tx)
  <2>1. m.type = "create-project" /\ projects' = Store(projects, m.ProjectDid, m.PubKey)
    BY <1>2 DEF CreateProject
  <2>2. ValidateBasic(m)
    BY TxFacts
  <2> HIDE DEF m
  <2>3. m.ProjectDid \in DOMAIN KeyOf /\ m.PubKey = KeyOf[m.ProjectDid]
    BY <2>1, <2>2, DidMessages
  <2> QED
    BY <1>1, <2>1, <2>3 DEF Store, ProjectsInOrder
<1>3. CASE ~CreateProject(tx)
  <2>1. projects' = projects
    BY <1>3 DEF Deliver, AddDid, AddCredential, Send, OracleTransfer, OracleMint, OracleBurn, OnlyAnte
  <2> QED
    BY <1>1, <2>1 DEF ProjectsInOrder
<1> QED
  BY <1>2, <1>3

-----------------------------------------------------------------------------
(***************************************************************************)
(* The theorems                                                            *)
(***************************************************************************)
LEMMA InitInv ==
  ASSUME Init
  PROVE  ChainInv
<1> USE DEF Init
<1>1. /\ Ledger.accounts = [k \in GenesisAccounts |-> 0] /\ Ledger.balance = GenesisBalance
      /\ DOMAIN Ledger.accounts = GenesisAccounts
  BY DEF Ledger
<1>2. IsLedger(Ledger)
  BY <1>1, ChainAssumption DEF IsLedger
<1>3. SupplyInOrder
  <2>1. \A d \in Denom : Held(balance, d) \in Nat /\ supply[d] = Held(balance, d)
    BY <1>1, <1>2, HeldType DEF Held
  <2> QED
    BY <2>1 DEF SupplyInOrder, CoinSet
<1>4. spent = SpentIn(Ledger)
  <2>1. 0 .. 0 - 1 = {}
    OBVIOUS
  <2>2. \A k \in GenesisAccounts : {k} \X (0 .. Ledger.accounts[k] - 1) = {}
    BY <1>1, <2>1
  <2> QED
    BY <1>1, <2>2 DEF SpentIn
<1>5. DocsInOrder
  BY ChainAssumption, EmptyList DEF DocsInOrder
<1>6. ProjectsInOrder
  BY DEF ProjectsInOrder, Empty
<1> QED
  BY <1>2, <1>3, <1>4, <1>5, <1>6 DEF ChainInv

LEMMA NextInv ==
  ASSUME ChainInv, [Next]_vars
  PROVE  ChainInv'
<1>1. ASSUME NEW tx \in Tx, Deliver(tx) PROVE ChainInv'
  <2>1. Accepted(tx, Ledger') /\ SupplyInOrder'
    BY <1>1, DeliverCoins DEF CoinsInOrder
  <2>2. IsLedger(Ledger)' /\ SpentIn(Ledger)' = SpentIn(Ledger) \cup {<<tx.key, tx.sequence>>}
    BY <2>1 DEF Accepted, IsLedger, SpentIn
  <2>3. spent' = SpentIn(Ledger)'
    BY <1>1, <2>2 DEF Deliver, ChainInv
  <2>4. DocsInOrder' /\ ProjectsInOrder'
    BY <1>1, DeliverDocs, DeliverProjects
  <2> QED
    BY <2>1, <2>2, <2>3, <2>4 DEF ChainInv
<1>2. CASE UNCHANGED vars
  BY <1>2 DEF vars, ChainInv, Ledger, IsLedger, SupplyInOrder, SpentIn, DocsInOrder,
              ProjectsInOrder, Held
<1> QED
  BY <1>1, <1>2 DEF Next

\* Invariant: accounts, coins, supply, spent sequence numbers, documents and
\* projects are in order at every step (auth.go, did and treasury keeper.go).
THEOREM ChainInOrder == Spec => []ChainInv
<1> QED
  BY InitInv, NextInv, PTL DEF Spec

\* Every variable has its type; in particular nobody owes coins.
THEOREM TypeCorrect == Spec => []TypeOK
<1>1. ChainInv => TypeOK
  <2> SUFFICES ASSUME ChainInv PROVE TypeOK
    OBVIOUS
  <2>1. /\ DOMAIN accounts \subseteq Key /\ accounts \in [DOMAIN accounts -> Nat]
        /\ balance \in [Address -> CoinSet]
    BY DEF ChainInv, Ledger, IsLedger
  <2>2. supply \in CoinSet
    BY DEF ChainInv, SupplyInOrder
  <2>3. DOMAIN docs \subseteq Did /\ \A d \in DOMAIN docs : docs[d].pubKey \in Key
    BY PubKeyType DEF ChainInv, DocsInOrder
  <2>4. DOMAIN projects \subseteq DOMAIN KeyOf /\ projects \in [DOMAIN projects -> Key]
    BY MessagesAssumption DEF ChainInv, ProjectsInOrder
  <2>5. ASSUME NEW u \in spent PROVE u \in Key \X Nat
    <3>1. PICK k \in DOMAIN accounts : u \in {k} \X (0 .. accounts[k] - 1)
      BY <2>5 DEF ChainInv, SpentIn, Ledger
    <3>2. accounts[k] \in Nat
      BY <2>1
    <3> QED
      BY <2>1, <3>1, <3>2
  <2> QED
    BY <2>1, <2>2, <2>3, <2>4, <2>5 DEF TypeOK
<1> QED
  BY <1>1, ChainInOrder, PTL

\* Supply, sequence numbers and accounts agree with what addresses hold and with
\* the transactions that were accepted, for any messages and fees.
THEOREM LedgersCorrect == Spec => []LedgersAgree
<1>1. ChainInv => LedgersAgree
  BY DEF ChainInv, LedgersAgree, SupplyInOrder, Held, SpentIn, Ledger, IsLedger
<1> QED
  BY <1>1, ChainInOrder, PTL

\* What was accepted once is never accepted again (auth.go, ProcessSig).
THEOREM AtMostOnceCorrect == Spec => []AtMostOnce
<1>1. ASSUME ChainInv, NEW body \in Admitted, NEW fee \in Fees, NEW used \in spent
      PROVE  ~AntePasses([msgs |-> body, fee |-> fee, key |-> used[1], sequence |-> used[2]])
  <2> DEFINE tx == [msgs |-> body, fee |-> fee, key |-> used[1], sequence |-> used[2]]
  <2>1. accounts \in [DOMAIN accounts -> Nat] /\ spent = SpentIn(Ledger)
    BY <1>1 DEF ChainInv, Ledger, IsLedger
  <2>2. PICK k \in DOMAIN accounts : used \in {k} \X (0 .. accounts[k] - 1)
    BY <2>1 DEF SpentIn, Ledger
  <2>3. used[1] = k /\ used[2] < accounts[k]
    BY <2>1, <2>2
  <2>4. tx.key \in DOMAIN accounts /\ tx.sequence # accounts[tx.key]
    BY <2>1, <2>3
  <2> HIDE DEF tx
  <2>5. ~AntePasses(tx)
    BY <2>4 DEF AntePasses, CreationAnte, DefaultAnte, SequenceMatches
  <2> QED
    BY <2>5 DEF tx
<1>2. ChainInv => AtMostOnce
  BY <1>1 DEF AtMostOnce
<1> QED
  BY <1>2, ChainInOrder, PTL

\* What the client is given to sign is accepted while it is fresh (txRoutes.go).
THEOREM FreshSignaturesCorrect == Spec => []FreshSignaturesPass
<1>1. ASSUME ChainInv, NEW body \in Admitted, NEW fee \in Fees,
             GetSignerDid(body[1]) \in DOMAIN KeyOf,
             IF body[1].type = "create-project"
             THEN /\ KeyOf[GetSignerDid(body[1])] \notin DOMAIN accounts
                  /\ body[1].SenderDid \in DOMAIN docs
                  /\ FeePayer(body[1]) \in DOMAIN accounts
                  /\ Covers(balance[FeePayer(body[1])], Native(TotalFee))
             ELSE /\ KeyIsKnown(body[1])
                  /\ KeyOf[GetSignerDid(body[1])] \in DOMAIN accounts
                  /\ Covers(balance[KeyOf[GetSignerDid(body[1])]], fee)
      PROVE  AntePasses(SignData(body, fee, KeyOf[GetSignerDid(body[1])]))
  <2> DEFINE m == body[1]
             key == KeyOf[GetSignerDid(m)]
             tx == SignData(body, fee, key)
  <2>1. ValidateBasic(m)
    BY DEF Admitted
  <2>2. /\ m.type = "add-did" => SheetOf(m) = MsgAddDid(m)
        /\ m.type = "create-project" => SheetOf(m) = MsgCreateProject(m)
    BY DEF SheetOf
  <2>3. MsgAddDid(m).signer = m.Did /\ MsgCreateProject(m).signer = m.ProjectDid
    BY Zenon DEF MsgAddDid, MsgCreateProject, Sheet
  <2>4. KeyIsKnown(m) \/ BringsKey(m) => PubKey(m) = key
    <3>1. CASE BringsKey(m)
      BY <2>1, <2>2, <2>3, <3>1, DidMessages DEF BringsKey, PubKey, GetSignerDid
    <3>2. CASE ~BringsKey(m) /\ KeyIsKnown(m)
      <4>1. \A d \in DOMAIN docs : docs[d].pubKey = KeyOf[d]
        BY <1>1, PubKeyType
      <4>2. \A p \in DOMAIN projects : projects[p] = KeyOf[p]
        BY <1>1 DEF ChainInv, ProjectsInOrder
      <4> QED
        BY <3>2, <4>1, <4>2 DEF KeyIsKnown, PubKey
    <3> QED
      BY <3>1, <3>2
  <2>5. CASE m.type = "create-project"
    <3>1. /\ tx.msgs = body /\ tx.fee = Native(TotalFee) /\ tx.key = key /\ tx.sequence = 0
      BY <2>5 DEF SignData, Native
    <3>2. PubKey(m) = key
      BY <2>4, <2>5 DEF BringsKey
    <3> HIDE DEF tx
    <3> QED
      BY <1>1, <2>5, <3>1, <3>2 DEF AntePasses, IsCreation, CreationAnte, tx
  <2>6. CASE m.type # "create-project"
    <3>1. /\ tx.msgs = body /\ tx.fee = fee /\ tx.key = key /\ tx.sequence = accounts[key]
      BY <2>6 DEF SignData
    <3>2. KeyIsKnown(m) /\ PubKey(m) = key
      BY <1>1, <2>4, <2>6
    <3> HIDE DEF tx
    <3> QED
      BY <1>1, <2>6, <3>1, <3>2 DEF AntePasses, IsCreation, DefaultAnte, SequenceMatches, tx
  <2> QED
    BY <2>5, <2>6
<1>2. ChainInv => FreshSignaturesPass
  BY <1>1 DEF FreshSignaturesPass
<1> QED
  BY <1>2, ChainInOrder, PTL

\* Coins leave an account only by the signature of its key, by an oracle that may
\* move that denomination, or for the creation of a project; the supply changes
\* only by oracles that may mint or burn (treasury keeper.go).
THEOREM AuthorityCorrect == Spec => CoinsFollowAuthority
<1> DEFINE Authorised ==
      /\ \A a \in Address, d \in Denom : balance'[a][d] < balance[a][d] =>
           \/ a \in Key /\ Signed(a)
           \/ SignedByOracle("transfer", d) \/ SignedByOracle("burn", d)
           \/ d = NativeToken
              /\ \E p \in DOMAIN KeyOf : Signed(KeyOf[p]) /\ KeyOf[p] \notin DOMAIN accounts
      /\ \A d \in Denom :
           /\ supply'[d] > supply[d] => SignedByOracle("mint", d)
           /\ supply'[d] < supply[d] => SignedByOracle("burn", d)
<1>1. ASSUME ChainInv, NEW tx \in Tx, Deliver(tx) PROVE Authorised
  <2>1. CoinsInOrder(tx)
    BY <1>1, DeliverCoins
  <2>2. Signed(tx.key)
    <3>1. /\ tx.key \in DOMAIN accounts' /\ accounts'[tx.key] = tx.sequence + 1
          /\ IF tx.key \in DOMAIN accounts THEN tx.sequence = accounts[tx.key]
                                           ELSE tx.sequence = 0
      BY <2>1 DEF CoinsInOrder, Accepted, Ledger
    <3>2. Open(accounts, tx.key)[tx.key] = tx.sequence
      BY <3>1 DEF Open, Store
    <3>3. tx.sequence \in Nat
      BY <1>1, TxFacts
    <3> QED
      BY <3>1, <3>2, <3>3 DEF Signed
  <2>3. ASSUME NEW cap, NEW d \in Denom, OracleSigned(tx, cap, d)
        PROVE  SignedByOracle(cap, d)
    <3>1. PICK oracle \in DOMAIN Capabilities \cap DOMAIN docs :
            tx.key = docs[oracle].pubKey /\ cap \in TokenCaps(oracle, d)
      BY <2>3 DEF OracleSigned
    <3>2. \E i \in DOMAIN Capabilities[oracle] :
            Capabilities[oracle][i].denom = d /\ cap \in Capabilities[oracle][i].capabilities
      BY <3>1 DEF TokenCaps
    <3> QED
      BY <2>2, <3>1, <3>2 DEF SignedByOracle
  <2>4. IsCreation(tx) => \E p \in DOMAIN KeyOf : tx.key = KeyOf[p]
    <3> DEFINE m == tx.msgs[1]
    <3>1. AntePasses(tx) /\ ValidateBasic(m)
      BY <1>1, TxFacts DEF Deliver
    <3>2. tx.key = PubKey(m)
      BY <1>1, <3>1, AnteFacts
    <3>3. IsCreation(tx) => m.type = "create-project"
      BY DEF IsCreation
    <3> HIDE DEF m
    <3>4. m.type = "create-project" => PubKey(m) = m.PubKey
      BY DEF PubKey, BringsKey
    <3> QED
      BY <3>1, <3>2, <3>3, <3>4, DidMessages
  <2>5. ASSUME NEW a \in Address, NEW d \in Denom, balance'[a][d] < balance[a][d]
        PROVE  \/ a \in Key /\ Signed(a)
               \/ SignedByOracle("transfer", d) \/ SignedByOracle("burn", d)
               \/ d = NativeToken
                  /\ \E p \in DOMAIN KeyOf : Signed(KeyOf[p]) /\ KeyOf[p] \notin DOMAIN accounts
    <3>1. \/ a = tx.key
          \/ IsCreation(tx) /\ tx.key \notin DOMAIN accounts /\ d = NativeToken
          \/ OracleSigned(tx, "transfer", d) \/ OracleSigned(tx, "burn", d)
      BY <2>1, <2>5 DEF CoinsInOrder, LosersAuthorised, OracleSigned
    <3>2. tx.key \in Key
      BY <1>1, TxFacts
    <3> QED
      BY <2>2, <2>3, <2>4, <3>1, <3>2
  <2>6. ASSUME NEW d \in Denom
        PROVE  /\ supply'[d] > supply[d] => SignedByOracle("mint", d)
               /\ supply'[d] < supply[d] => SignedByOracle("burn", d)
    BY <2>1, <2>3 DEF CoinsInOrder
  <2> QED
    BY <2>5, <2>6
<1>2. ASSUME ChainInv, UNCHANGED vars PROVE Authorised
  <2>1. balance' = balance /\ supply' = supply
    BY <1>2 DEF vars
  <2>2. /\ \A a \in Address, d \in Denom : balance[a][d] \in Nat
        /\ \A d \in Denom : supply[d] \in Nat
    BY <1>2, SupplyFacts DEF CoinSet
  <2>3. \A n \in Nat : ~(n < n) /\ ~(n > n)
    OBVIOUS
  <2> QED
    BY <2>1, <2>2, <2>3
<1>3. ChainInv /\ [Next]_vars => [Authorised]_vars
  BY <1>1, <1>2 DEF Next
<1> QED
  BY <1>3, ChainInOrder, PTL DEF Spec, CoinsFollowAuthority

\* A DID document is for ever, and its credentials are a growing list without
\* repetitions (did keeper.go).
THEOREM DidsCorrect == Spec => DidsArePermanent
<1> DEFINE Kept == \A d \in DOMAIN docs : DocKept(d)
<1>1. ASSUME ChainInv, [Next]_vars PROVE Kept
  <2>1. ASSUME NEW tx \in Tx, Deliver(tx) PROVE Kept
    BY <1>1, <2>1, DeliverDocs
  <2>2. CASE UNCHANGED vars
    BY <1>1, <2>2, UnchangedDocs DEF vars
  <2> QED
    BY <1>1, <2>1, <2>2 DEF Next
<1>2. ChainInv /\ [Next]_vars => [Kept]_vars
  BY <1>1
<1> QED
  BY <1>2, ChainInOrder, PTL DEF Spec, DidsArePermanent, DocKept

===============================================================================
