--------------------------- MODULE Projects_proofs ---------------------------
(***************************************************************************)
(* Theorems of Projects.  The first part is about the stores of the        *)
(* module: which accounts exist, and what there is of a project in which   *)
(* status.  The second is about coins: where they are in the middle of a   *)
(* transaction with several payments, what evaluations pay, and how coins  *)
(* leave the accounts of a project.                                        *)
(***************************************************************************)
EXTENDS Projects, Amounts_proofs, SequenceTheorems

Doc == [creator : Did, status : Status, fees : FeesMaps]
IsList(s) == s \in Seq({s[i] : i \in DOMAIN s})

\* The stores are kept by project, and nothing is stored for a project that does
\* not exist.
StoresByProject ==
  /\ DOMAIN projects \subseteq Project
  /\ projects \in [DOMAIN projects -> Doc]
  /\ DOMAIN accounts = DOMAIN projects /\ DOMAIN withdrawals = DOMAIN projects
  /\ DOMAIN claims \subseteq (DOMAIN projects) \X ClaimId
  /\ \A id \in DOMAIN contracts : id[1] \in DOMAIN projects
  /\ \A p \in DOMAIN projects : IsList(withdrawals[p])

\* The inductive invariant.  That a new project has no claims, payments or
\* withdrawals of an earlier one needs StoresByProject.
StoresInv ==
  StoresByProject /\ AccountsAgree /\ OwnAccountWhenFunded /\ StoresFitStatus

-----------------------------------------------------------------------------
(***************************************************************************)
(* Lists and stores                                                        *)
(***************************************************************************)
LEMMA EmptyList == IsList(<<>>)
  BY DEF IsList

LEMMA AppendToList ==
  ASSUME NEW s, NEW e, IsList(s)
  PROVE  IsList(Append(s, e)) /\ Append(s, e) # <<>>
<1> DEFINE S == {s[i] : i \in DOMAIN s} \cup {e}
<1>1. s \in Seq(S)
  BY DEF IsList
<1>2. /\ Append(s, e) \in Seq(S)
      /\ Len(Append(s, e)) = Len(s) + 1
  BY <1>1, AppendProperties
<1>3. Append(s, e) # <<>>
  BY <1>1, AppendProperties
<1>4. Append(s, e) \in Seq({Append(s, e)[i] : i \in DOMAIN Append(s, e)})
  BY <1>2
<1> QED
  BY <1>3, <1>4 DEF IsList

LEMMA SetStatusFacts ==
  ASSUME StoresByProject, NEW p \in DOMAIN projects, NEW new \in Status, SetStatus(p, new)
  PROVE  /\ DOMAIN projects' = DOMAIN projects
         /\ projects' \in [DOMAIN projects' -> Doc]
         /\ projects'[p].status = new
         /\ \A q \in DOMAIN projects : q # p => projects'[q] = projects[q]
<1>1. projects' = [projects EXCEPT ![p] = [projects[p] EXCEPT !.status = new]]
  BY DEF SetStatus
<1>2. projects[p] \in Doc
  BY DEF StoresByProject
<1>3. /\ [projects[p] EXCEPT !.status = new] \in Doc
      /\ [projects[p] EXCEPT !.status = new].status = new
  BY <1>2 DEF Doc
<1> QED
  BY <1>1, <1>3 DEF StoresByProject

\* Whoever takes accounts from the map of a project finds them there afterwards,
\* and the map and the bank still agree.
LEMMA AccountsKept ==
  ASSUME StoresByProject, AccountsAgree, NEW p \in DOMAIN projects, NEW ids, NEW f,
         Get(p, ids), Move(f, {Internal(p, i) : i \in ids}),
         DOMAIN projects' = DOMAIN projects
  PROVE  /\ AccountsAgree'
         /\ DOMAIN accounts' = DOMAIN accounts
         /\ ids \subseteq accounts'[p]
         /\ \A q \in DOMAIN projects : accounts[q] \subseteq accounts'[q]
<1>1. /\ DOMAIN accounts' = DOMAIN accounts
      /\ accounts'[p] = accounts[p] \cup ids
      /\ \A q \in DOMAIN projects : q # p => accounts'[q] = accounts[q]
  BY DEF Get, StoresByProject
<1>2. exists \cup {Internal(p, i) : i \in ids} \subseteq exists'
  BY DEF Move
<1>3. AccountsAgree'
  <2> SUFFICES ASSUME NEW q \in DOMAIN projects
               PROVE  /\ q \in exists' /\ FeeAccounts \subseteq accounts'[q]
                      /\ \A id \in accounts'[q] : Internal(q, id) \in exists'
    BY DEF AccountsAgree, FeeAccounts
  <2>1. CASE q = p
    BY <1>1, <1>2, <2>1 DEF AccountsAgree
  <2>2. CASE q # p
    BY <1>1, <1>2, <2>2 DEF AccountsAgree
  <2> QED
    BY <2>1, <2>2
<1> QED
  BY <1>1, <1>3

-----------------------------------------------------------------------------
(***************************************************************************)
(* Creation                                                                *)
(***************************************************************************)
LEMMA CreateProjectKeeps ==
  ASSUME StoresInv, NEW sender \in Did, NEW p \in Project, NEW fees \in FeesMaps,
         CreateProject(sender, p, fees)
  PROVE  StoresInv'
<1> DEFINE doc == [creator |-> sender, status |-> "", fees |-> fees]
<1>1. /\ p \notin DOMAIN projects
      /\ projects' = Store(projects, p, doc)
      /\ accounts' = Store(accounts, p, InitialAccounts(p))
      /\ withdrawals' = Store(withdrawals, p, <<>>)
      /\ claims' = claims /\ contracts' = contracts
  BY DEF CreateProject, CanCreateProject
<1>2. /\ StoresByProject /\ AccountsAgree /\ OwnAccountWhenFunded /\ StoresFitStatus
      /\ DOMAIN accounts = DOMAIN projects /\ DOMAIN withdrawals = DOMAIN projects
  BY DEF StoresInv, StoresByProject
<1>3. /\ DOMAIN projects' = DOMAIN projects \cup {p}
      /\ DOMAIN accounts' = DOMAIN projects \cup {p}
      /\ DOMAIN withdrawals' = DOMAIN projects \cup {p}
  BY <1>1, <1>2 DEF Store
<1>4. /\ projects'[p] = doc /\ projects'[p].status = ""
      /\ accounts'[p] = InitialAccounts(p) /\ withdrawals'[p] = <<>>
      /\ \A q \in DOMAIN projects : /\ q # p /\ projects'[q] = projects[q]
                                    /\ accounts'[q] = accounts[q]
                                    /\ withdrawals'[q] = withdrawals[q]
  BY <1>1, <1>2 DEF Store
<1>5. exists \cup {p} \cup {Internal(p, id) : id \in InitialAccounts(p)} \subseteq exists'
  BY DEF CreateProject, Move
<1>6. StoresByProject'
  <2>1. doc \in Doc
    BY DEF Doc, Status
  <2>2. projects' \in [DOMAIN projects' -> Doc]
    BY <1>1, <1>2, <2>1 DEF Store, StoresByProject
  <2>3. \A q \in DOMAIN projects' : IsList(withdrawals'[q])
    BY <1>2, <1>3, <1>4, EmptyList DEF StoresByProject
  <2>4. DOMAIN claims' \subseteq (DOMAIN projects') \X ClaimId
    BY <1>1, <1>2, <1>3 DEF StoresByProject
  <2> QED
    BY <1>1, <1>2, <1>3, <2>2, <2>3, <2>4 DEF StoresByProject, IsList
<1>7. AccountsAgree'
  <2> SUFFICES ASSUME NEW q \in DOMAIN projects'
               PROVE  /\ q \in exists' /\ FeeAccounts \subseteq accounts'[q]
                      /\ \A id \in accounts'[q] : Internal(q, id) \in exists'
    BY DEF AccountsAgree, FeeAccounts
  <2>1. CASE q = p
    BY <1>4, <1>5, <2>1 DEF InitialAccounts
  <2>2. CASE q \in DOMAIN projects
    BY <1>2, <1>4, <1>5, <2>2 DEF AccountsAgree
  <2> QED
    BY <1>3, <2>1, <2>2
<1>8. OwnAccountWhenFunded'
  BY <1>2, <1>3, <1>4 DEF OwnAccountWhenFunded
<1>9. StoresFitStatus'
  <2>1. ClaimsOf(p, ClaimStatus)' = {} /\ ~ \E id \in DOMAIN contracts' : id[1] = p
    BY <1>1, <1>2 DEF StoresByProject, ClaimsOf
  <2>2. \A q : ClaimsOf(q, ClaimStatus)' = ClaimsOf(q, ClaimStatus)
    BY <1>1 DEF ClaimsOf, ClaimStatus
  <2>3. ASSUME NEW q \in DOMAIN projects
        PROVE  /\ ClaimsOf(q, ClaimStatus)' # {} \/ (\E id \in DOMAIN contracts' : id[1] = q) =>
                    projects'[q].status \in {"STARTED", "STOPPED", "PAIDOUT"}
               /\ withdrawals'[q] # <<>> <=> projects'[q].status = "PAIDOUT"
    BY <1>1, <1>2, <1>4, <2>2 DEF StoresFitStatus
  <2>4. withdrawals'[p] = <<>> /\ projects'[p].status = ""
    BY <1>4
  <2> QED
    BY <1>3, <2>1, <2>3, <2>4 DEF StoresFitStatus, ClaimStatus
<1> QED
  BY <1>6, <1>7, <1>8, <1>9 DEF StoresInv

\* Actions that change neither the stores of the module nor the contracts.
LEMMA OutsideKeeps ==
  ASSUME StoresInv, UNCHANGED <<docs, contracts>>, exists \subseteq exists'
  PROVE  StoresInv'
<1>1. StoresByProject'
  BY DEF StoresInv, docs, StoresByProject, IsList
<1>2. AccountsAgree' /\ OwnAccountWhenFunded'
  BY DEF StoresInv, docs, AccountsAgree, OwnAccountWhenFunded, FeeAccounts
<1>3. StoresFitStatus'
  BY DEF StoresInv, docs, StoresFitStatus, ClaimsOf, ClaimStatus
<1> QED
  BY <1>1, <1>2, <1>3 DEF StoresInv

-----------------------------------------------------------------------------
(***************************************************************************)
(* Status                                                                  *)
(***************************************************************************)
\* What a change of status needs of the new status and of the other stores.
LEMMA StatusKept ==
  ASSUME StoresInv, NEW p \in DOMAIN projects, NEW new \in Status, SetStatus(p, new),
         <<projects[p].status, new>> \in StateTransitions,
         UNCHANGED <<claims, contracts>>,
         AccountsAgree', DOMAIN accounts' = DOMAIN accounts,
         \A q \in DOMAIN projects : accounts[q] \subseteq accounts'[q],
         new = "FUNDED" => p \in accounts'[p],
         DOMAIN withdrawals' = DOMAIN withdrawals, IsList(withdrawals'[p]),
         new = "PAIDOUT" => withdrawals'[p] # <<>>,
         new # "PAIDOUT" => withdrawals'[p] = withdrawals[p],
         \A q \in DOMAIN projects : q # p => withdrawals'[q] = withdrawals[q]
  PROVE  StoresInv'
<1>1. StoresByProject /\ OwnAccountWhenFunded /\ StoresFitStatus
  BY DEF StoresInv
<1>2. /\ DOMAIN projects' = DOMAIN projects
      /\ projects' \in [DOMAIN projects' -> Doc]
      /\ projects'[p].status = new
      /\ \A q \in DOMAIN projects : q # p => projects'[q] = projects[q]
  BY <1>1, SetStatusFacts
<1>3. /\ projects[p].status \in {"FUNDED", "STARTED", "STOPPED"}
           <=> new \in {"STARTED", "STOPPED", "PAIDOUT"}
      /\ projects[p].status \in {"STARTED", "STOPPED"} <=> new \in {"STOPPED", "PAIDOUT"}
      /\ projects[p].status # "PAIDOUT"
  BY DEF StateTransitions
<1>4. StoresByProject'
  <2>1. \A q \in DOMAIN projects' : IsList(withdrawals'[q])
    BY <1>1, <1>2 DEF StoresByProject
  <2> QED
    BY <1>1, <1>2, <2>1 DEF StoresByProject, IsList
<1>5. OwnAccountWhenFunded'
  <2> SUFFICES ASSUME NEW q \in DOMAIN projects,
                      projects'[q].status \in {"FUNDED", "STARTED", "STOPPED", "PAIDOUT"}
               PROVE  q \in accounts'[q]
    BY <1>2 DEF OwnAccountWhenFunded
  <2> QED
    BY <1>1, <1>2, <1>3 DEF OwnAccountWhenFunded
<1>6. StoresFitStatus'
  <2>1. \A q : ClaimsOf(q, ClaimStatus)' = ClaimsOf(q, ClaimStatus)
    BY DEF ClaimsOf, ClaimStatus
  <2> SUFFICES ASSUME NEW q \in DOMAIN projects
               PROVE  /\ ClaimsOf(q, ClaimStatus) # {} \/ (\E id \in DOMAIN contracts : id[1] = q) =>
                           projects'[q].status \in {"STARTED", "STOPPED", "PAIDOUT"}
                      /\ withdrawals'[q] # <<>> <=> projects'[q].status = "PAIDOUT"
    BY <1>2, <2>1 DEF StoresFitStatus, ClaimStatus
  <2>2. CASE q = p
    BY <1>1, <1>2, <1>3, <2>2 DEF StoresFitStatus
  <2>3. CASE q # p
    BY <1>1, <1>2, <2>3 DEF StoresFitStatus
  <2> QED
    BY <2>2, <2>3
<1> QED
  BY <1>4, <1>5, <1>6 DEF StoresInv

LEMMA UpdateProjectStatusKeeps ==
  ASSUME StoresInv, NEW p \in Project, NEW new \in Status, UpdateProjectStatus(p, new)
  PROVE  StoresInv'
<1>1. /\ p \in DOMAIN projects /\ <<projects[p].status, new>> \in StateTransitions
      /\ SetStatus(p, new) /\ new \notin {"FUNDED", "PAIDOUT"}
      /\ UNCHANGED <<accounts, claims, withdrawals, contracts, exists>>
  BY DEF UpdateProjectStatus, IsValidProgression, bank
<1>2. DOMAIN projects' = DOMAIN projects
  BY <1>1, SetStatusFacts DEF StoresInv
<1>3. AccountsAgree'
  BY <1>1, <1>2 DEF StoresInv, AccountsAgree, FeeAccounts
<1>4. IsList(withdrawals'[p])
  BY <1>1 DEF StoresInv, StoresByProject
<1> QED
  BY <1>1, <1>3, <1>4, StatusKept

LEMMA FundProjectKeeps ==
  ASSUME StoresInv, NEW p \in Project, FundProject(p)
  PROVE  StoresInv'
<1>1. /\ p \in DOMAIN projects /\ <<projects[p].status, "FUNDED">> \in StateTransitions
      /\ SetStatus(p, "FUNDED") /\ "FUNDED" \in Status
      /\ Get(p, {p}) /\ Move(funds, {Internal(p, p)})
      /\ UNCHANGED <<claims, withdrawals, contracts>>
  BY DEF FundProject, IsValidProgression, Status
<1>2. DOMAIN projects' = DOMAIN projects
  BY <1>1, SetStatusFacts DEF StoresInv
<1>3. {Internal(p, i) : i \in {p}} = {Internal(p, p)}
  OBVIOUS
<1>4. /\ AccountsAgree' /\ DOMAIN accounts' = DOMAIN accounts
      /\ {p} \subseteq accounts'[p]
      /\ \A q \in DOMAIN projects : accounts[q] \subseteq accounts'[q]
  BY <1>1, <1>2, <1>3, AccountsKept DEF StoresInv
<1>5. IsList(withdrawals'[p])
  BY <1>1 DEF StoresInv, StoresByProject
<1> QED
  BY <1>1, <1>4, <1>5, StatusKept

LEMMA WithdrawalAdded ==
  ASSUME StoresByProject, NEW p \in DOMAIN projects, NEW recipient, NEW amount,
         AddWithdrawal(p, recipient, amount)
  PROVE  /\ DOMAIN withdrawals' = DOMAIN withdrawals
         /\ IsList(withdrawals'[p]) /\ withdrawals'[p] # <<>>
         /\ \A q \in DOMAIN projects : q # p => withdrawals'[q] = withdrawals[q]
<1> DEFINE e == [recipient |-> recipient, amount |-> amount]
<1>1. IsList(withdrawals[p]) /\ DOMAIN withdrawals = DOMAIN projects
  BY DEF StoresByProject
<1>2. IsList(Append(withdrawals[p], e)) /\ Append(withdrawals[p], e) # <<>>
  BY <1>1, AppendToList
<1>3. withdrawals' = [withdrawals EXCEPT ![p] = Append(withdrawals[p], e)]
  BY DEF AddWithdrawal
<1> HIDE DEF e
<1> QED
  BY <1>1, <1>2, <1>3

LEMMA PayOutProjectKeeps ==
  ASSUME StoresInv, NEW p \in Project, PayOutProject(p)
  PROVE  StoresInv'
<1>1. /\ p \in DOMAIN projects /\ <<projects[p].status, "PAIDOUT">> \in StateTransitions
      /\ SetStatus(p, "PAIDOUT") /\ "PAIDOUT" \in Status
      /\ AddWithdrawal(p, params.ixoDid, FeesHeld(p))
      /\ Get(p, FeeAccounts) /\ Move(PaidOut(p), {Internal(p, id) : id \in FeeAccounts})
      /\ UNCHANGED <<claims, contracts>>
  BY DEF PayOutProject, IsValidProgression, Status
<1>2. DOMAIN projects' = DOMAIN projects
  BY <1>1, SetStatusFacts DEF StoresInv
<1>3. /\ AccountsAgree' /\ DOMAIN accounts' = DOMAIN accounts
      /\ \A q \in DOMAIN projects : accounts[q] \subseteq accounts'[q]
  BY <1>1, <1>2, AccountsKept DEF StoresInv
<1>4. /\ DOMAIN withdrawals' = DOMAIN withdrawals
      /\ IsList(withdrawals'[p]) /\ withdrawals'[p] # <<>>
      /\ \A q \in DOMAIN projects : q # p => withdrawals'[q] = withdrawals[q]
  BY <1>1, WithdrawalAdded DEF StoresInv
<1> QED
  BY <1>1, <1>3, <1>4, StatusKept

-----------------------------------------------------------------------------
(***************************************************************************)
(* Agents, claims, evaluations and withdrawals                             *)
(***************************************************************************)
\* What an action needs that leaves the documents of the projects alone.
LEMMA WorkKept ==
  ASSUME StoresInv, NEW p \in DOMAIN projects, UNCHANGED projects,
         AccountsAgree', DOMAIN accounts' = DOMAIN accounts,
         \A q \in DOMAIN projects : accounts[q] \subseteq accounts'[q],
         DOMAIN withdrawals' = DOMAIN withdrawals, IsList(withdrawals'[p]),
         withdrawals'[p] # <<>> <=> withdrawals[p] # <<>>,
         \A q \in DOMAIN projects : q # p => withdrawals'[q] = withdrawals[q],
         DOMAIN claims' \subseteq (DOMAIN projects) \X ClaimId,
         \A id \in DOMAIN contracts' : id \in DOMAIN contracts \/ id[1] = p,
         \A q \in DOMAIN projects : q # p => ClaimsOf(q, ClaimStatus)' = ClaimsOf(q, ClaimStatus),
         UNCHANGED <<claims, contracts>> \/ Started(p)
  PROVE  StoresInv'
<1>1. StoresByProject /\ OwnAccountWhenFunded /\ StoresFitStatus
  BY DEF StoresInv
<1>2. StoresByProject'
  <2>1. \A q \in DOMAIN projects' : IsList(withdrawals'[q])
    BY <1>1 DEF StoresByProject
  <2> QED
    BY <1>1, <2>1 DEF StoresByProject, IsList
<1>3. OwnAccountWhenFunded'
  BY <1>1 DEF OwnAccountWhenFunded
<1>4. StoresFitStatus'
  <2> SUFFICES ASSUME NEW q \in DOMAIN projects
               PROVE  /\ ClaimsOf(q, ClaimStatus)' # {} \/ (\E id \in DOMAIN contracts' : id[1] = q) =>
                           projects[q].status \in {"STARTED", "STOPPED", "PAIDOUT"}
                      /\ withdrawals'[q] # <<>> <=> projects[q].status = "PAIDOUT"
    BY DEF StoresFitStatus, ClaimStatus
  <2>1. CASE q # p
    BY <1>1, <2>1 DEF StoresFitStatus
  <2>2. CASE q = p /\ UNCHANGED <<claims, contracts>>
    <3>1. ClaimsOf(q, ClaimStatus)' = ClaimsOf(q, ClaimStatus)
      BY <2>2 DEF ClaimsOf, ClaimStatus
    <3> QED
      BY <1>1, <2>2, <3>1 DEF StoresFitStatus
  <2>3. CASE q = p /\ Started(p)
    BY <1>1, <2>3 DEF StoresFitStatus, Started
  <2> QED
    BY <2>1, <2>2, <2>3
<1> QED
  BY <1>2, <1>3, <1>4 DEF StoresInv

LEMMA CreateAgentKeeps ==
  ASSUME StoresInv, NEW p \in Project, NEW agent, CreateAgent(p, agent)
  PROVE  StoresInv'
<1>1. /\ p \in DOMAIN projects
      /\ Get(p, {agent}) /\ Move(funds, {Internal(p, agent)})
      /\ UNCHANGED <<projects, claims, withdrawals, contracts>>
  BY DEF CreateAgent
<1>2. {Internal(p, i) : i \in {agent}} = {Internal(p, agent)}
  OBVIOUS
<1>3. /\ AccountsAgree' /\ DOMAIN accounts' = DOMAIN accounts
      /\ \A q \in DOMAIN projects : accounts[q] \subseteq accounts'[q]
  BY <1>1, <1>2, AccountsKept DEF StoresInv
<1>4. \A q : ClaimsOf(q, ClaimStatus)' = ClaimsOf(q, ClaimStatus)
  BY <1>1 DEF ClaimsOf, ClaimStatus
<1> QED
  BY <1>1, <1>3, <1>4, WorkKept DEF StoresInv, StoresByProject

LEMMA CreateClaimKeeps ==
  ASSUME StoresInv, NEW p \in Project, NEW claimer, NEW id \in ClaimId,
         CreateClaim(p, claimer, id)
  PROVE  StoresInv'
<1> DEFINE claim == [claimer |-> claimer, status |-> "pending"]
<1>1. /\ Started(p) /\ p \in DOMAIN projects
      /\ claims' = Store(claims, <<p, id>>, claim)
      /\ UNCHANGED <<projects, accounts, withdrawals, contracts, exists>>
  BY DEF CreateClaim, CanClaim, Started, bank
<1>2. AccountsAgree'
  BY <1>1 DEF StoresInv, AccountsAgree, FeeAccounts
<1>3. DOMAIN claims' = DOMAIN claims \cup {<<p, id>>}
  BY <1>1 DEF Store
<1>4. ASSUME NEW q \in DOMAIN projects, q # p
      PROVE  ClaimsOf(q, ClaimStatus)' = ClaimsOf(q, ClaimStatus)
  <2>1. \A i \in ClaimId : <<q, i>> \in DOMAIN claims' <=> <<q, i>> \in DOMAIN claims
    BY <1>3, <1>4
  <2>2. \A i \in ClaimId : <<q, i>> \in DOMAIN claims => claims'[<<q, i>>] = claims[<<q, i>>]
    BY <1>1, <1>4 DEF Store
  <2> QED
    BY <2>1, <2>2 DEF ClaimsOf, ClaimStatus
<1> QED
  BY <1>1, <1>2, <1>3, <1>4, WorkKept DEF StoresInv, StoresByProject

\* A payment adds at most its own contract to the store.
LEMMA ContractsAfterPay ==
  ASSUME NEW l, NEW p, NEW payment
  PROVE  DOMAIN ProcessPay(l, p, payment).contracts
           \subseteq DOMAIN l.contracts \cup {payment.id}
  BY DEF ProcessPay, WithContract, Store

LEMMA CreateEvaluationKeeps ==
  ASSUME StoresInv, NEW p \in Project, NEW oracle, NEW id \in ClaimId, NEW status,
         CreateEvaluation(p, oracle, id, status)
  PROVE  StoresInv'
<1> DEFINE claimer == claims[<<p, id>>].claimer
           first == AfterOraclePay(p, oracle)
           last == AfterServicePay(first, p, claimer, status)
           ids == (IF OracleDue(p) THEN {IxoPayFees, InitiatingNodePayFees, p} ELSE {})
                    \cup (IF ServiceDue(p, status) THEN {p} ELSE {})
<1>1. /\ Started(p) /\ p \in DOMAIN projects
      /\ contracts' = last.contracts
      /\ Get(p, ids) /\ Move(last.funds, {Internal(p, i) : i \in ids})
      /\ claims' = [claims EXCEPT ![<<p, id>>].status = status]
      /\ UNCHANGED <<projects, withdrawals>>
  BY DEF CreateEvaluation, CanEvaluate, Started
<1>2. \A i \in DOMAIN contracts' : i \in DOMAIN contracts \/ i[1] = p
  <2>1. /\ OraclePayment(p, oracle).id = <<p, oracle, "OracleFee">>
        /\ ServicePayment(p, claimer).id = <<p, claimer, "FeeForService">>
        /\ ledger.contracts = contracts
    BY DEF OraclePayment, ServicePayment, Payment, ledger
  <2>2. \A i \in DOMAIN first.contracts : i \in DOMAIN contracts \/ i[1] = p
    BY <2>1, ContractsAfterPay DEF AfterOraclePay
  <2>3. DOMAIN last.contracts \subseteq DOMAIN first.contracts \cup {ServicePayment(p, claimer).id}
    BY ContractsAfterPay DEF AfterServicePay
  <2> HIDE DEF first, last
  <2> QED
    BY <1>1, <2>1, <2>2, <2>3
<1> HIDE DEF last, ids
<1>3. /\ AccountsAgree' /\ DOMAIN accounts' = DOMAIN accounts
      /\ \A q \in DOMAIN projects : accounts[q] \subseteq accounts'[q]
  BY <1>1, AccountsKept DEF StoresInv
<1>4. DOMAIN claims' = DOMAIN claims
  BY <1>1
<1>5. ASSUME NEW q \in DOMAIN projects, q # p
      PROVE  ClaimsOf(q, ClaimStatus)' = ClaimsOf(q, ClaimStatus)
  <2>1. \A i \in ClaimId : <<q, i>> \in DOMAIN claims => claims'[<<q, i>>] = claims[<<q, i>>]
    BY <1>1, <1>5
  <2> QED
    BY <1>4, <2>1 DEF ClaimsOf, ClaimStatus
<1> QED
  BY <1>1, <1>2, <1>3, <1>4, <1>5, WorkKept DEF StoresInv, StoresByProject

LEMMA WithdrawFundsKeeps ==
  ASSUME StoresInv, NEW p \in Project, NEW recipient, NEW amount, NEW isRefund,
         WithdrawFunds(p, recipient, amount, isRefund)
  PROVE  StoresInv'
<1> DEFINE from == WithdrawFrom(p, recipient, isRefund)
           sent == Sent(Internal(p, from), recipient, Coin(amount))
<1>1. /\ p \in DOMAIN projects /\ projects[p].status = "PAIDOUT"
      /\ Get(p, {from}) /\ Move(sent, {Internal(p, from)})
      /\ AddWithdrawal(p, recipient, amount)
      /\ UNCHANGED <<projects, claims, contracts>>
  BY DEF WithdrawFunds, MayWithdraw
<1> HIDE DEF from, sent
<1>2. {Internal(p, i) : i \in {from}} = {Internal(p, from)}
  OBVIOUS
<1>3. /\ AccountsAgree' /\ DOMAIN accounts' = DOMAIN accounts
      /\ \A q \in DOMAIN projects : accounts[q] \subseteq accounts'[q]
  BY <1>1, <1>2, AccountsKept DEF StoresInv
<1>4. /\ DOMAIN withdrawals' = DOMAIN withdrawals
      /\ IsList(withdrawals'[p]) /\ withdrawals'[p] # <<>>
      /\ \A q \in DOMAIN projects : q # p => withdrawals'[q] = withdrawals[q]
  BY <1>1, WithdrawalAdded DEF StoresInv
<1>5. withdrawals[p] # <<>>
  BY <1>1 DEF StoresInv, StoresFitStatus
<1>6. \A q : ClaimsOf(q, ClaimStatus)' = ClaimsOf(q, ClaimStatus)
  BY <1>1 DEF ClaimsOf, ClaimStatus
<1> QED
  BY <1>1, <1>3, <1>4, <1>5, <1>6, WorkKept DEF StoresInv, StoresByProject

-----------------------------------------------------------------------------
(***************************************************************************)
(* Theorems                                                                *)
(***************************************************************************)
LEMMA StoresInit == Init => StoresInv
<1> SUFFICES ASSUME Init PROVE StoresInv
  OBVIOUS
<1>1. /\ DOMAIN projects = {} /\ DOMAIN accounts = {} /\ DOMAIN claims = {}
      /\ DOMAIN withdrawals = {} /\ DOMAIN contracts = {}
      /\ projects \in [{} -> Doc]
  BY DEF Init, Empty
<1> QED
  BY <1>1 DEF StoresInv, StoresByProject, AccountsAgree, OwnAccountWhenFunded, StoresFitStatus

LEMMA StoresNext == StoresInv /\ [Next]_vars => StoresInv'
<1> SUFFICES ASSUME StoresInv, [Next]_vars PROVE StoresInv'
  OBVIOUS
<1>1. ASSUME NEW s \in Did, NEW p \in Project, NEW f \in FeesMaps, CreateProject(s, p, f)
      PROVE  StoresInv'
  BY <1>1, CreateProjectKeeps
<1>2. ASSUME NEW s \in Did, NEW p \in Project, NEW f \in FeesMaps,
             FailToCreateProject(s, p, f)
      PROVE  StoresInv'
  BY <1>2, OutsideKeeps DEF FailToCreateProject, Move
<1>3. ASSUME NEW p \in Project, NEW s \in Status, UpdateProjectStatus(p, s)
      PROVE  StoresInv'
  BY <1>3, UpdateProjectStatusKeeps
<1>4. ASSUME NEW p \in Project, FundProject(p) PROVE StoresInv'
  BY <1>4, FundProjectKeeps
<1>5. ASSUME NEW p \in Project, PayOutProject(p) PROVE StoresInv'
  BY <1>5, PayOutProjectKeeps
<1>6. ASSUME NEW p \in Project, NEW a \in Agents, CreateAgent(p, a) PROVE StoresInv'
  BY <1>6, CreateAgentKeeps
<1>7. ASSUME NEW p \in Project, NEW c \in Agents, NEW i \in ClaimId, CreateClaim(p, c, i)
      PROVE  StoresInv'
  BY <1>7, CreateClaimKeeps
<1>8. ASSUME NEW p \in Project, NEW o \in Agents, NEW i \in ClaimId, NEW s \in ClaimStatus,
             CreateEvaluation(p, o, i, s)
      PROVE  StoresInv'
  BY <1>8, CreateEvaluationKeeps
<1>9. ASSUME NEW p \in Project, NEW r \in Agents, NEW n \in Amounts, NEW b \in BOOLEAN,
             WithdrawFunds(p, r, n, b)
      PROVE  StoresInv'
  BY <1>9, WithdrawFundsKeeps
<1>10. ASSUME NEW a \in Did, NEW b \in SendTargets, NEW c \in SendAmounts, Send(a, b, c)
       PROVE  StoresInv'
  BY <1>10, OutsideKeeps DEF Send, Move
<1>11. ASSUME NEW new \in ParamChoices, ChangeParams(new) PROVE StoresInv'
  BY <1>11, OutsideKeeps DEF ChangeParams, bank
<1>12. CASE UNCHANGED vars
  BY <1>12, OutsideKeeps DEF vars, bank
<1> QED
  BY <1>1, <1>2, <1>3, <1>4, <1>5, <1>6, <1>7, <1>8, <1>9, <1>10, <1>11, <1>12 DEF Next

\* The stores of the module agree with each other and with the accounts, in every
\* order of messages, of transfers from outside and of parameter changes.
THEOREM StoresInvariant == Spec => []StoresInv
<1> QED
  BY StoresInit, StoresNext, PTL DEF Spec

\* Every project has its fee accounts, and the account maps name only accounts
\* that exist (createAccountInProjectAccounts, getAccountInProjectAccounts).
THEOREM AccountsCorrect == Spec => []AccountsAgree
<1>1. StoresInv => AccountsAgree
  BY DEF StoresInv
<1> QED
  BY <1>1, StoresInvariant, PTL

\* A project without an account of its own is never funded, although the error of
\* its creation is dropped (handleMsgCreateProject).
THEOREM OwnAccountCorrect == Spec => []OwnAccountWhenFunded
<1>1. StoresInv => OwnAccountWhenFunded
  BY DEF StoresInv
<1> QED
  BY <1>1, StoresInvariant, PTL

\* The accounts that a project works with are there when it needs them.
THEOREM AccountsInOrderCorrect == Spec => []AccountsInOrder
<1> QED
  BY AccountsCorrect, OwnAccountCorrect, PTL DEF AccountsInOrder

\* Claims, payments and withdrawals are made in the statuses that allow them, and a
\* project is paid out exactly if something has been withdrawn from it.
THEOREM StatusCorrect == Spec => []StoresFitStatus
<1>1. StoresInv => StoresFitStatus
  BY DEF StoresInv
<1> QED
  BY <1>1, StoresInvariant, PTL

-----------------------------------------------------------------------------
(***************************************************************************)
(* Coins and contracts of a point within a transaction                     *)
(***************************************************************************)
\* A recipient and its share.
PShare == [account : Account, percentage : Nat]

\* A contract that a project has made for a payment.
PContract == [template : DOMAIN Templates, creator : Account, payer : Account,
              recipients : Seq(PShare),
              canDeauthorise : BOOLEAN, authorised : {TRUE}, discountId : {0},
              cumulativePay : CoinSet, currentRemainder : CoinSet]

\* The contract pays out of the project's account what the fees map says.
OfProject(id, c) ==
  /\ id[3] \in DOMAIN projects[id[1]].fees
  /\ c.template = projects[id[1]].fees[id[3]]
  /\ c.payer = Internal(id[1], id[1])

\* Coins and contracts of some point within a transaction are in order.
LedgerOK(l) ==
  /\ l = [funds |-> l.funds, pool |-> l.pool, contracts |-> l.contracts]
  /\ l.funds \in [Account -> CoinSet] /\ l.pool \in CoinSet
  /\ DOMAIN l.contracts \subseteq ContractId
  /\ l.contracts \in [DOMAIN l.contracts -> PContract]
  /\ \A id \in DOMAIN l.contracts : id[1] \in DOMAIN projects /\ OfProject(id, l.contracts[id])
  /\ \A d \in Denom :
       /\ SumOf([a \in Account |-> l.funds[a][d]], Account) + l.pool[d]
            = SumOf([a \in Account |-> InitialFunds[a][d]], Account)
       /\ l.pool[d] = SumOf([id \in DOMAIN l.contracts |-> l.contracts[id].currentRemainder[d]],
                            DOMAIN l.contracts)

-----------------------------------------------------------------------------
LEMMA CoinTypes ==
  ASSUME NEW u \in CoinSet, NEW v \in CoinSet
  PROVE  /\ NoCoins \in CoinSet /\ Add(u, v) \in CoinSet
         /\ Covers(u, v) => Sub(u, v) \in CoinSet
         /\ \A d \in Denom : u[d] \in Nat /\ v[d] \in Nat
<1>1. \A d \in Denom : u[d] \in Nat /\ v[d] \in Nat
  BY DEF CoinSet
<1>2. NoCoins \in CoinSet
  BY DEF NoCoins, CoinSet
<1>3. Add(u, v) \in CoinSet
  BY <1>1 DEF Add, CoinSet
<1>4. ASSUME Covers(u, v) PROVE Sub(u, v) \in CoinSet
  <2>1. \A d \in Denom : u[d] - v[d] \in Nat
    BY <1>1, <1>4 DEF Covers
  <2> QED
    BY <2>1 DEF Sub, CoinSet
<1> QED
  BY <1>1, <1>2, <1>3, <1>4

LEMMA AccountsFinite ==
  IsFiniteSet(Account) /\ IsFiniteSet(ContractId) /\ IsFiniteSet(InternalId)
    /\ IsFiniteSet(FeeAccounts)
<1>1. IsFiniteSet(Did) /\ IsFiniteSet(Project)
  BY ProjectAssumption
<1>2. IsFiniteSet(FeeAccounts)
  <2>1. FeeAccounts = {IxoFees} \cup {IxoPayFees} \cup {InitiatingNodePayFees}
    BY DEF FeeAccounts
  <2> QED
    BY <2>1, FS_Singleton, FS_Union
<1>3. IsFiniteSet(InternalId)
  BY <1>1, <1>2, FS_Union DEF InternalId
<1>4. IsFiniteSet(Project \X InternalId)
  BY <1>1, <1>3, FS_Product
<1>5. IsFiniteSet(Account)
  BY <1>1, <1>4, FS_Singleton, FS_Union DEF Account
<1>6. IsFiniteSet(ContractId)
  <2> DEFINE P == Did \cup Project
             S == (Project \X P) \X FeeType
             f == [x \in S |-> <<x[1][1], x[1][2], x[2]>>]
  <2>1. IsFiniteSet(P)
    BY <1>1, FS_Union
  <2>2. IsFiniteSet(FeeType)
    <3>1. FeeType = {"OracleFee"} \cup {"FeeForService"}
      BY DEF FeeType
    <3> QED
      BY <3>1, FS_Singleton, FS_Union
  <2>3. IsFiniteSet(S)
    BY <1>1, <2>1, <2>2, FS_Product
  <2>4. f \in Surjection(S, ContractId)
    <3>1. f \in [S -> ContractId]
      BY DEF ContractId
    <3>2. ASSUME NEW id \in ContractId PROVE \E x \in S : f[x] = id
      <4>1. PICK p \in Project, w \in P, t \in FeeType : id = <<p, w, t>>
        BY DEF ContractId
      <4>2. <<<<p, w>>, t>> \in S /\ f[<<<<p, w>>, t>>] = id
        BY <4>1
      <4> QED
        BY <4>2
    <3> QED
      BY <3>1, <3>2 DEF Surjection
  <2> QED
    BY <2>3, <2>4, FS_Surjection
<1> QED
  BY <1>2, <1>3, <1>5, <1>6

\* The payments module adds up and compares coins as this module does.
LEMMA SameOperators ==
  ASSUME NEW l
  PROVE  /\ Payments(l)!CoinSet = CoinSet /\ Payments(l)!NoCoins = NoCoins
         /\ \A u, v : /\ Payments(l)!Add(u, v) = Add(u, v)
                      /\ Payments(l)!Sub(u, v) = Sub(u, v)
                      /\ Payments(l)!Covers(u, v) <=> Covers(u, v)
         /\ \A f, S : Payments(l)!SumOf(f, S) = SumOf(f, S)
<1>1. Payments(l)!CoinSet = CoinSet /\ Payments(l)!NoCoins = NoCoins
  BY DEF Payments!CoinSet, Payments!NoCoins, CoinSet, NoCoins
<1>2. \A u, v : /\ Payments(l)!Add(u, v) = Add(u, v)
                /\ Payments(l)!Sub(u, v) = Sub(u, v)
                /\ Payments(l)!Covers(u, v) <=> Covers(u, v)
  BY DEF Payments!Add, Payments!Sub, Payments!Covers, Add, Sub, Covers
<1>3. \A f, S : Payments(l)!SumOf(f, S) = SumOf(f, S)
  <2>1. \A S : Payments(l)!Cardinality(S) = Cardinality(S)
    BY DEF Payments!Cardinality, Cardinality
  <2> QED
    BY <2>1 DEF Payments!SumOf, Payments!AllCoins, Payments!Coins, SumOf, AllCoins, Coins
<1> QED
  BY <1>1, <1>2, <1>3

LEMMA SameDecimals ==
  ASSUME NEW l
  PROVE  /\ Payments(l)!HundredPercent = ToDec(100)
         /\ \A n : Payments(l)!TruncateInt(n) = TruncateInt(n)
         /\ \A n, q : Payments(l)!FractionOf(n, q) = Mul(ToDec(n), Quo(q, ToDec(100)))
<1>1. \A n : Payments(l)!ToDec(n) = ToDec(n) /\ Payments(l)!TruncateInt(n) = TruncateInt(n)
  BY DEF Payments!ToDec, ToDec, Payments!TruncateInt, TruncateInt
<1>2. \A n : Payments(l)!ChopPrecisionAndRound(n) = ChopPrecisionAndRound(n)
  <2>1. \A n : Payments(l)!RoundHalfEven(n) = RoundHalfEven(n)
    BY DEF Payments!RoundHalfEven, RoundHalfEven
  <2> QED
    BY <2>1 DEF Payments!ChopPrecisionAndRound, ChopPrecisionAndRound
<1>3. \A a, b : Payments(l)!Mul(a, b) = Mul(a, b)
  BY <1>2 DEF Payments!Mul, Mul
<1>4. \A a, b : Payments(l)!Quo(a, b) = Quo(a, b)
  <2>1. \A n, d : Payments(l)!QuoTrunc(n, d) = QuoTrunc(n, d)
    BY DEF Payments!QuoTrunc, QuoTrunc
  <2> QED
    BY <1>2, <2>1 DEF Payments!Quo, Quo
<1>5. Payments(l)!HundredPercent = ToDec(100)
  BY <1>1 DEF Payments!HundredPercent
<1> QED
  BY <1>1, <1>3, <1>4, <1>5 DEF Payments!FractionOf, Payments!Fraction

-----------------------------------------------------------------------------
\* The cumulative pay of a contract after its next payment: the first payment is
\* raised to the minimum, and no payment goes above the maximum.
Raised(c, d) ==
  LET sum == c.cumulativePay[d] + Templates[c.template].amount[d]
      minimum == Templates[c.template].minimum[d]
  IN  IF c.cumulativePay = NoCoins /\ sum # 0 /\ minimum > sum THEN minimum ELSE sum
Adjusted(c) ==
  [d \in Denom |->
     LET maximum == Templates[c.template].maximum[d]
     IN  IF maximum # 0 /\ maximum < Raised(c, d) THEN maximum ELSE Raised(c, d)]

LEMMA TemplateType ==
  ASSUME NEW c \in PContract, NEW d \in Denom
  PROVE  /\ c.cumulativePay[d] \in Nat /\ c.currentRemainder[d] \in Nat
         /\ Templates[c.template].amount[d] \in Nat
         /\ Templates[c.template].minimum[d] \in Nat
         /\ Templates[c.template].maximum[d] \in Nat
         /\ Raised(c, d) \in Nat /\ Adjusted(c)[d] \in Nat
<1>1. c.cumulativePay \in CoinSet /\ c.currentRemainder \in CoinSet
  BY DEF PContract
<1>2. c.template \in DOMAIN Templates
  BY DEF PContract
<1>3. /\ Templates[c.template].amount \in CoinSet
      /\ Templates[c.template].minimum \in CoinSet
      /\ Templates[c.template].maximum \in CoinSet
  BY <1>2, ProjectAssumption
<1>4. /\ c.cumulativePay[d] \in Nat /\ c.currentRemainder[d] \in Nat
      /\ Templates[c.template].amount[d] \in Nat
      /\ Templates[c.template].minimum[d] \in Nat
      /\ Templates[c.template].maximum[d] \in Nat
  BY <1>1, <1>3 DEF CoinSet
<1>5. Raised(c, d) \in Nat
  BY <1>4 DEF Raised
<1> QED
  BY <1>4, <1>5 DEF Adjusted

LEMMA AmountDue ==
  ASSUME NEW l, NEW c \in PContract
  PROVE  /\ Payments(l)!AdjustedCumulative(c) = Adjusted(c)
         /\ Payments(l)!Pay(c) = Sub(Adjusted(c), c.cumulativePay)
         /\ Payments(l)!PayDefined(c) => Covers(Adjusted(c), c.cumulativePay)
<1> DEFINE t == Templates[c.template]
           sum == [d \in Denom |-> c.cumulativePay[d] + t.amount[d]]
<1>1. Payments(l)!TemplateOf(c) = t /\ c.discountId = 0
  BY DEF Payments!TemplateOf, PContract
<1>2. Payments(l)!Discounted(c) = [d \in Denom |-> t.amount[d]]
  <2>1. Payments(l)!Discounted(c) = Sub(t.amount, NoCoins)
    BY <1>1, SameOperators DEF Payments!Discounted, Payments!Discount
  <2>2. \A d \in Denom : t.amount[d] - 0 = t.amount[d]
    BY TemplateType
  <2> QED
    BY <2>1, <2>2 DEF Sub, NoCoins
<1>3. Add(c.cumulativePay, Payments(l)!Discounted(c)) = sum
  BY <1>2 DEF Add
<1>4. Payments(l)!AtLeastMinimum(c, sum) = [d \in Denom |-> Raised(c, d)]
  BY <1>1, SameOperators DEF Payments!AtLeastMinimum, Raised
<1>5. Payments(l)!AtMostMaximum(c, [d \in Denom |-> Raised(c, d)]) = Adjusted(c)
  BY <1>1 DEF Payments!AtMostMaximum, Adjusted
<1>6. Payments(l)!AdjustedCumulative(c) = Adjusted(c)
  BY <1>3, <1>4, <1>5, SameOperators DEF Payments!AdjustedCumulative
<1> QED
  BY <1>6, SameOperators DEF Payments!Pay, Payments!PayDefined

\* What the contract is paid next, in each denomination.
LEMMA PayFacts ==
  ASSUME NEW l, NEW c \in PContract, Payments(l)!PayDefined(c)
  PROVE  /\ Payments(l)!Pay(c) \in CoinSet
         /\ Add(c.cumulativePay, Payments(l)!Pay(c)) \in CoinSet
         /\ Unlimited(c.template) => Payments(l)!Pay(c) = Templates[c.template].amount
         /\ \A d \in Denom :
              \/ Payments(l)!Pay(c)[d] <= Templates[c.template].amount[d]
              \/ /\ c.cumulativePay = NoCoins
                 /\ Payments(l)!Pay(c)[d] <= Templates[c.template].minimum[d]
<1> DEFINE pay == Payments(l)!Pay(c)
           t == Templates[c.template]
<1>1. \A d \in Denom : /\ pay[d] = Adjusted(c)[d] - c.cumulativePay[d]
                       /\ Adjusted(c)[d] >= c.cumulativePay[d]
  BY AmountDue DEF Sub, Covers
<1>2. \A d \in Denom : /\ c.cumulativePay[d] \in Nat /\ Adjusted(c)[d] \in Nat
                       /\ t.amount[d] \in Nat /\ t.minimum[d] \in Nat /\ t.maximum[d] \in Nat
                       /\ Raised(c, d) \in Nat
  BY TemplateType
<1>3. pay = [d \in Denom |-> pay[d]]
  BY AmountDue DEF Sub
<1>4. t.amount = [d \in Denom |-> t.amount[d]]
  BY ProjectAssumption DEF PContract, CoinSet
<1> HIDE DEF pay
<1>5. pay \in CoinSet
  <2>1. \A d \in Denom : pay[d] \in Nat
    BY <1>1, <1>2
  <2> QED
    BY <1>3, <2>1 DEF CoinSet
<1>6. c.cumulativePay \in CoinSet
  BY DEF PContract
<1>7. ASSUME Unlimited(c.template) PROVE pay = t.amount
  <2>1. \A d \in Denom : t.minimum[d] = 0 /\ t.maximum[d] = 0
    BY <1>7 DEF Unlimited, NoCoins
  <2>2. \A d \in Denom : Raised(c, d) = c.cumulativePay[d] + t.amount[d]
    BY <1>2, <2>1 DEF Raised
  <2>3. \A d \in Denom : Adjusted(c)[d] = Raised(c, d)
    BY <2>1 DEF Adjusted
  <2>4. \A d \in Denom : pay[d] = t.amount[d]
    BY <1>1, <1>2, <2>2, <2>3
  <2> QED
    BY <1>3, <1>4, <2>4
<1>8. ASSUME NEW d \in Denom
      PROVE  \/ pay[d] <= t.amount[d]
             \/ c.cumulativePay = NoCoins /\ pay[d] <= t.minimum[d]
  <2>1. Adjusted(c)[d] <= Raised(c, d)
    BY <1>2 DEF Adjusted
  <2>2. CASE Raised(c, d) = c.cumulativePay[d] + t.amount[d]
    BY <1>1, <1>2, <2>1, <2>2
  <2>3. CASE c.cumulativePay = NoCoins /\ Raised(c, d) = t.minimum[d]
    BY <1>1, <1>2, <2>1, <2>3
  <2> QED
    BY <2>2, <2>3 DEF Raised
<1> QED
  BY <1>5, <1>6, <1>7, <1>8, CoinTypes DEF pay

\* Shares of coins are coins, whoever they go to.
LEMMA OutputType ==
  ASSUME NEW l, NEW c \in PContract, Payments(l)!PayDefined(c)
  PROVE  /\ Payments(l)!TotalInput(c) \in CoinSet
         /\ \A i \in DOMAIN c.recipients : \A d \in Denom : Payments(l)!Output(c, i)[d] \in Nat
<1>1. c.currentRemainder \in CoinSet
  BY DEF PContract
<1>2. Payments(l)!TotalInput(c) \in CoinSet
  <2>1. Payments(l)!TotalInput(c) = Add(Payments(l)!Pay(c), c.currentRemainder)
    BY SameOperators DEF Payments!TotalInput
  <2>2. Payments(l)!Pay(c) \in CoinSet
    BY PayFacts
  <2> QED
    BY <1>1, <2>1, <2>2, CoinTypes
<1>3. ASSUME NEW i \in DOMAIN c.recipients, NEW d \in Denom
      PROVE  Payments(l)!Output(c, i)[d] \in Nat
  <2> DEFINE q == c.recipients[i].percentage
             n == Payments(l)!TotalInput(c)[d]
  <2>1. q \in Nat
    <3>1. c.recipients \in Seq(PShare)
      BY DEF PContract
    <3>2. c.recipients[i] \in PShare
      BY <3>1
    <3> QED
      BY <3>2 DEF PShare
  <2>2. n \in Nat
    BY <1>2 DEF CoinSet
  <2>3. Payments(l)!Output(c, i)[d] = TruncateInt(Mul(ToDec(n), Quo(q, ToDec(100))))
    BY SameDecimals DEF Payments!Output
  <2> HIDE DEF q, n
  <2>4. ToDec(100) \in Nat \ {0}
    <3>1. \A u \in Nat \ {0} : 100 * u \in Nat \ {0}
      BY SMT
    <3> QED
      BY <3>1, UnitAssumption DEF ToDec
  <2>5. Quo(q, ToDec(100)) \in Nat /\ ToDec(n) \in Nat
    BY <2>1, <2>2, <2>4, QuoType, ToDecType
  <2>6. Mul(ToDec(n), Quo(q, ToDec(100))) \in Nat
    BY <2>5, MulType
  <2> QED
    BY <2>3, <2>6, CeilType
<1> QED
  BY <1>2, <1>3

LEMMA RecipientFacts ==
  ASSUME NEW c \in PContract
  PROVE  /\ IsFiniteSet(DOMAIN c.recipients)
         /\ \A i \in DOMAIN c.recipients : c.recipients[i].account \in Account
<1>1. c.recipients \in Seq(PShare)
  BY DEF PContract
<1>2. DOMAIN c.recipients = 1 .. Len(c.recipients) /\ Len(c.recipients) \in Nat
  BY <1>1
<1>3. IsFiniteSet(1 .. Len(c.recipients))
  BY <1>2, FS_Interval, SMT
<1>4. \A i \in DOMAIN c.recipients : c.recipients[i] \in PShare
  BY <1>1
<1> QED
  BY <1>2, <1>3, <1>4 DEF PShare

\* What goes to the accounts is what goes to the recipients, and what does not goes
\* to the pool.
LEMMA OutputFacts ==
  ASSUME NEW l, NEW c \in PContract, Payments(l)!PayDefined(c), Payments(l)!CanTransfer(c)
  PROVE  /\ Payments(l)!OutputToPool(c) \in CoinSet
         /\ Payments(l)!RemainderAfter(c) = Payments(l)!OutputToPool(c)
         /\ \A a : Payments(l)!OutputToAccount(c, a) \in CoinSet
         /\ \A d \in Denom :
              /\ Payments(l)!OutputToPayees(c)[d] \in Nat
              /\ Payments(l)!OutputToPool(c)[d]
                   = (Payments(l)!Pay(c)[d] + c.currentRemainder[d])
                        - Payments(l)!OutputToPayees(c)[d]
              /\ SumOf([a \in Account |-> Payments(l)!OutputToAccount(c, a)[d]], Account)
                   = Payments(l)!OutputToPayees(c)[d]
<1> DEFINE D == DOMAIN c.recipients
           out(d) == [i \in D |-> Payments(l)!Output(c, i)[d]]
           holder == [i \in D |-> c.recipients[i].account]
           payees == Payments(l)!OutputToPayees(c)
           received(a) == Payments(l)!OutputToAccount(c, a)
           toPool == Payments(l)!OutputToPool(c)
           input == Payments(l)!TotalInput(c)
<1>1. /\ IsFiniteSet(D) /\ \A i \in D : holder[i] \in Account
      /\ c.currentRemainder \in CoinSet /\ Payments(l)!Pay(c) \in CoinSet
      /\ input \in CoinSet
  BY RecipientFacts, PayFacts, OutputType DEF PContract
<1>2. \A d \in Denom : \A i \in D : out(d)[i] \in Nat
  BY OutputType
<1>3. payees = [d \in Denom |-> SumOf(out(d), D)]
  BY SameOperators DEF Payments!OutputToPayees
<1>4. \A a : received(a) = [d \in Denom |-> SumOf(out(d), {i \in D : holder[i] = a})]
  <2> SUFFICES ASSUME NEW a
               PROVE  received(a) = [d \in Denom |-> SumOf(out(d), {i \in D : holder[i] = a})]
    OBVIOUS
  <2>1. {i \in D : holder[i] = a} = {i \in DOMAIN c.recipients : c.recipients[i].account = a}
    OBVIOUS
  <2> DEFINE which == {i \in DOMAIN c.recipients : c.recipients[i].account = a}
  <2>2. received(a) = [d \in Denom |-> Payments(l)!SumOf(out(d), which)]
    BY DEF Payments!OutputToAccount
  <2> HIDE DEF out, received, which
  <2>3. received(a) = [d \in Denom |-> SumOf(out(d), which)]
    BY <2>2, SameOperators
  <2> QED
    BY <2>1, <2>3 DEF which
<1>5. /\ input = Add(Payments(l)!Pay(c), c.currentRemainder)
      /\ toPool = Sub(input, payees) /\ Covers(input, payees)
  BY SameOperators DEF Payments!OutputToPool, Payments!TotalInput, Payments!CanTransfer
<1>6. Payments(l)!RemainderAfter(c) = Sub(Add(c.currentRemainder, toPool), c.currentRemainder)
  BY SameOperators DEF Payments!RemainderAfter
<1> HIDE DEF D, out, holder, payees, received, toPool, input
<1>7. \A d \in Denom : \A S \in SUBSET D : SumOf(out(d), S) \in Nat
  <2> SUFFICES ASSUME NEW d \in Denom, NEW S \in SUBSET D PROVE SumOf(out(d), S) \in Nat
    OBVIOUS
  <2>1. IsFiniteSet(S)
    BY <1>1, FS_Subset
  <2> QED
    BY <1>2, <2>1, SumType
<1>8. payees \in CoinSet
  BY <1>3, <1>7 DEF CoinSet
<1>9. toPool \in CoinSet
  BY <1>1, <1>5, <1>8, CoinTypes
<1>10. \A a : received(a) \in CoinSet
  <2> SUFFICES ASSUME NEW a PROVE received(a) \in CoinSet
    OBVIOUS
  <2>1. {i \in D : holder[i] = a} \in SUBSET D
    OBVIOUS
  <2> QED
    BY <1>4, <1>7, <2>1 DEF CoinSet
<1>11. ASSUME NEW d \in Denom
       PROVE  SumOf([a \in Account |-> received(a)[d]], Account) = payees[d]
  <2> DEFINE g == [a \in Account |-> received(a)[d]]
             f == out(d)
             group == [a \in Account |-> {i \in D : holder[i] = a}]
  <2>1. \A a \in Account : g[a] = SumOf(f, group[a])
    BY <1>4
  <2>2. \A a \in Account : \A i : i \in group[a] <=> i \in D /\ holder[i] = a
    OBVIOUS
  <2>3. (\A i \in D : f[i] \in Nat) /\ payees[d] = SumOf(f, D)
    BY <1>2, <1>3
  <2>4. IsFiniteSet(Account)
    BY AccountsFinite
  <2> HIDE DEF g, f, group
  <2>5. SumOf(g, Account) = SumOf(f, D)
    BY <1>1, <2>1, <2>2, <2>3, <2>4, SumByGroup, Z3
  <2> QED
    BY <2>3, <2>5 DEF g
<1>12. \A d \in Denom :
         /\ payees[d] \in Nat
         /\ toPool[d] = (Payments(l)!Pay(c)[d] + c.currentRemainder[d]) - payees[d]
  BY <1>5, <1>8 DEF CoinSet, Add, Sub
<1>13. Payments(l)!RemainderAfter(c) = toPool
  <2>1. \A d \in Denom : c.currentRemainder[d] \in Nat /\ toPool[d] \in Nat
    BY <1>1, <1>9 DEF CoinSet
  <2>2. \A d \in Denom : (c.currentRemainder[d] + toPool[d]) - c.currentRemainder[d] = toPool[d]
    BY <2>1
  <2>3. toPool = [d \in Denom |-> toPool[d]]
    BY <1>9 DEF CoinSet
  <2> QED
    BY <1>6, <2>2, <2>3 DEF Add, Sub
<1> QED
  BY <1>9, <1>10, <1>11, <1>12, <1>13 DEF payees, received, toPool

-----------------------------------------------------------------------------
\* A payment that processPay is asked for in project p.
PaymentOf(p, y) ==
  /\ p \in DOMAIN projects
  /\ y.id \in ContractId /\ y.id[1] = p
  /\ y.id[3] \in DOMAIN projects[p].fees /\ y.template = projects[p].fees[y.id[3]]
  /\ y.template \in DOMAIN Templates
  /\ y.recipients \in Seq([account : Account, percentage : Int])

LEMMA NewContractType ==
  ASSUME NEW p, NEW y, PaymentOf(p, y), p \in Project,
         NEW l, Payments(l)!ValidRecipients(y.recipients)
  PROVE  /\ NewContract(p, y) \in PContract
         /\ OfProject(y.id, NewContract(p, y))
         /\ NewContract(p, y).cumulativePay = NoCoins
         /\ NewContract(p, y).currentRemainder = NoCoins
<1> DEFINE r == y.recipients
           S == [account : Account, percentage : Int]
<1>1. r \in Seq(S)
  BY DEF PaymentOf
<1>2. \A i \in DOMAIN r : r[i].percentage > 0
  BY DEF Payments!ValidRecipients
<1>3. \A i \in DOMAIN r : r[i] \in PShare
  <2> SUFFICES ASSUME NEW i \in DOMAIN r PROVE r[i] \in PShare
    OBVIOUS
  <2> HIDE DEF S
  <2>1. r[i] \in S
    BY <1>1
  <2> QED
    BY <1>2, <2>1 DEF S, PShare
<1>4. r \in Seq(PShare)
  <2> HIDE DEF S, r
  <2>1. Len(r) \in Nat /\ DOMAIN r = 1 .. Len(r) /\ r \in [1 .. Len(r) -> S]
    BY <1>1
  <2>2. r \in [1 .. Len(r) -> PShare]
    BY <1>3, <2>1
  <2> QED
    BY <2>1, <2>2
<1>5. Internal(p, p) \in Account
  BY DEF Internal, Account, InternalId
<1>6. NoCoins \in CoinSet
  BY DEF NoCoins, CoinSet
<1>7. y.template \in DOMAIN Templates
  BY DEF PaymentOf
<1> HIDE DEF r, S
<1>8. NewContract(p, y) \in PContract
  BY <1>4, <1>5, <1>6, <1>7 DEF NewContract, PContract, r
<1> QED
  BY <1>8 DEF NewContract, OfProject, PaymentOf

LEMMA FiniteContracts ==
  ASSUME NEW l, LedgerOK(l)
  PROVE  IsFiniteSet(DOMAIN l.contracts)
BY AccountsFinite, FS_Subset DEF LedgerOK

LEMMA WithContractFacts ==
  ASSUME NEW l, LedgerOK(l), NEW p \in Project, NEW y, PaymentOf(p, y),
         NEW k, Payments(k)!ValidRecipients(y.recipients),
         NEW m, m = WithContract(l, p, y)
  PROVE  /\ LedgerOK(m) /\ m.funds = l.funds /\ m.pool = l.pool
         /\ DOMAIN m.contracts = DOMAIN l.contracts \cup {y.id}
         /\ \A id \in DOMAIN l.contracts : m.contracts[id] = l.contracts[id]
         /\ y.id \notin DOMAIN l.contracts => m.contracts[y.id].cumulativePay = NoCoins
<1> DEFINE new == NewContract(p, y)
<1>1. CASE y.id \in DOMAIN l.contracts
  BY <1>1 DEF WithContract
<1>2. CASE y.id \notin DOMAIN l.contracts
  <2>1. /\ new \in PContract /\ OfProject(y.id, new)
        /\ new.cumulativePay = NoCoins /\ new.currentRemainder = NoCoins
    BY NewContractType
  <2> HIDE DEF new
  <2>2. m = [funds |-> l.funds, pool |-> l.pool, contracts |-> Store(l.contracts, y.id, new)]
    <3>1. l = [funds |-> l.funds, pool |-> l.pool, contracts |-> l.contracts]
      BY DEF LedgerOK
    <3>2. m = [l EXCEPT !.contracts = Store(l.contracts, y.id, new)]
      BY <1>2 DEF WithContract, new
    <3> QED
      BY <3>1, <3>2
  <2>3. /\ m.funds = l.funds /\ m.pool = l.pool
        /\ m.contracts = Store(l.contracts, y.id, new)
    BY <2>2
  <2>4. /\ DOMAIN m.contracts = DOMAIN l.contracts \cup {y.id}
        /\ m.contracts[y.id] = new
        /\ \A id \in DOMAIN l.contracts : m.contracts[id] = l.contracts[id]
    BY <1>2, <2>3 DEF Store
  <2>5. m.contracts \in [DOMAIN m.contracts -> PContract]
    <3>1. l.contracts \in [DOMAIN l.contracts -> PContract]
      BY DEF LedgerOK
    <3> QED
      BY <2>1, <2>3, <3>1 DEF Store
  <2>6. /\ DOMAIN m.contracts \subseteq ContractId
        /\ \A id \in DOMAIN m.contracts :
             id[1] \in DOMAIN projects /\ OfProject(id, m.contracts[id])
    BY <2>1, <2>4 DEF LedgerOK, PaymentOf
  <2>7. ASSUME NEW d \in Denom
        PROVE  m.pool[d] = SumOf([id \in DOMAIN m.contracts |-> m.contracts[id].currentRemainder[d]],
                                 DOMAIN m.contracts)
    <3> DEFINE S == DOMAIN l.contracts
               f == [id \in S |-> l.contracts[id].currentRemainder[d]]
               g == [id \in DOMAIN m.contracts |-> m.contracts[id].currentRemainder[d]]
    <3>1. IsFiniteSet(S) /\ l.pool[d] = SumOf(f, S)
      BY FiniteContracts DEF LedgerOK
    <3>2. \A id \in S : f[id] \in Nat
      <4>1. \A id \in S : l.contracts[id] \in PContract
        BY DEF LedgerOK
      <4> QED
        BY <4>1, TemplateType
    <3>3. (\A id \in S : g[id] = f[id]) /\ g[y.id] = 0
      BY <2>1, <2>4 DEF NoCoins
    <3>4. y.id \notin S /\ DOMAIN m.contracts = S \cup {y.id}
      BY <1>2, <2>4
    <3> HIDE DEF f, g, S
    <3>5. SumOf(g, S) = SumOf(f, S)
      BY <3>3, SumCongruence
    <3>6. SumOf(g, S \cup {y.id}) = SumOf(g, S) + g[y.id]
      <4>1. (\A id \in S : g[id] \in Nat) /\ g[y.id] \in Nat
        BY <3>2, <3>3
      <4> QED
        BY <3>1, <3>4, <4>1, SumAdd
    <3>7. SumOf(f, S) \in Nat
      BY <3>1, <3>2, SumType
    <3>8. SumOf(g, DOMAIN m.contracts) = l.pool[d]
      BY <3>1, <3>3, <3>4, <3>5, <3>6, <3>7
    <3> QED
      BY <2>3, <3>8 DEF g
  <2>8. LedgerOK(m)
    BY <2>2, <2>3, <2>5, <2>6, <2>7 DEF LedgerOK
  <2> QED
    BY <2>1, <2>3, <2>4, <2>8
<1> QED
  BY <1>1, <1>2

\* A payment that is effected moves coins from the project and the pool to the
\* recipients and the pool, and the contract records what was paid.
LEMMA EffectedFacts ==
  ASSUME NEW m, LedgerOK(m), NEW id \in DOMAIN m.contracts,
         NEW c, c = m.contracts[id], Payments(m)!Effected(c),
         NEW n, n = [funds |-> Payments(m)!FundsAfter(c), pool |-> Payments(m)!PoolAfter(c),
                     contracts |-> [m.contracts EXCEPT ![id] = Payments(m)!ContractAfter(c)]]
  PROVE  /\ LedgerOK(n)
         /\ DOMAIN n.contracts = DOMAIN m.contracts
         /\ \A i \in DOMAIN m.contracts : i # id => n.contracts[i] = m.contracts[i]
         /\ n.contracts[id].cumulativePay = Add(c.cumulativePay, Payments(m)!Pay(c))
         /\ \A a \in Account : \A d \in Denom :
              n.funds[a][d] >= m.funds[a][d] - (IF a = c.payer THEN Payments(m)!Pay(c)[d] ELSE 0)
<1> DEFINE pay == Payments(m)!Pay(c)
           toPool == Payments(m)!OutputToPool(c)
           payees == Payments(m)!OutputToPayees(c)
           received(a) == Payments(m)!OutputToAccount(c, a)
           new == Payments(m)!ContractAfter(c)
<1>1. /\ Payments(m)!PayDefined(c) /\ Payments(m)!CanTransfer(c)
      /\ Covers(m.funds[c.payer], pay)
  BY SameOperators DEF Payments!Effected, Payments!HasCoins
<1>2. c \in PContract /\ OfProject(id, c) /\ id[1] \in DOMAIN projects /\ id \in ContractId
  BY DEF LedgerOK
<1>3. /\ c.payer \in Account /\ c.currentRemainder \in CoinSet /\ c.cumulativePay \in CoinSet
      /\ m.funds \in [Account -> CoinSet] /\ m.pool \in CoinSet
      /\ m.contracts \in [DOMAIN m.contracts -> PContract]
  BY <1>2 DEF PContract, LedgerOK
<1>4. /\ pay \in CoinSet /\ Add(c.cumulativePay, pay) \in CoinSet
      /\ toPool \in CoinSet /\ \A a : received(a) \in CoinSet
      /\ Payments(m)!RemainderAfter(c) = toPool
  BY <1>1, <1>2, PayFacts, OutputFacts
<1>5. Covers(m.pool, c.currentRemainder)
  BY <1>1, SameOperators DEF Payments!CanTransfer
<1>6. n.funds = [a \in Account |->
                   Add(IF a = c.payer THEN Sub(m.funds[a], pay) ELSE m.funds[a], received(a))]
  BY SameOperators DEF Payments!FundsAfter
<1>7. n.pool = Add(Sub(m.pool, c.currentRemainder), toPool)
  BY SameOperators DEF Payments!PoolAfter
<1>8. new = [c EXCEPT !.cumulativePay = Add(c.cumulativePay, pay), !.currentRemainder = toPool]
  <2>1. Payments(m)!Add(c.cumulativePay, pay) = Add(c.cumulativePay, pay)
    BY SameOperators
  <2>2. new = [c EXCEPT !.cumulativePay = Payments(m)!Add(c.cumulativePay, pay),
                        !.currentRemainder = Payments(m)!RemainderAfter(c)]
    BY DEF Payments!ContractAfter
  <2> HIDE DEF pay, toPool, new
  <2> QED
    BY <1>4, <2>1, <2>2
<1>9. /\ n = [funds |-> n.funds, pool |-> n.pool, contracts |-> n.contracts]
      /\ n.contracts = [m.contracts EXCEPT ![id] = new]
  OBVIOUS
<1>10. \A d \in Denom :
         /\ payees[d] \in Nat
         /\ toPool[d] = (pay[d] + c.currentRemainder[d]) - payees[d]
         /\ SumOf([a \in Account |-> received(a)[d]], Account) = payees[d]
  BY <1>1, <1>2, OutputFacts
<1> HIDE DEF pay, toPool, payees, received, new
<1>11. /\ new \in PContract /\ new.cumulativePay = Add(c.cumulativePay, pay)
       /\ new.currentRemainder = toPool
       /\ new.template = c.template /\ new.payer = c.payer
  BY <1>2, <1>4, <1>8 DEF PContract
<1>12. /\ DOMAIN n.contracts = DOMAIN m.contracts
       /\ n.contracts[id] = new
       /\ \A i \in DOMAIN m.contracts : i # id => n.contracts[i] = m.contracts[i]
  BY <1>3, <1>9
<1>13. /\ \A d \in Denom : /\ m.pool[d] \in Nat /\ toPool[d] \in Nat /\ pay[d] \in Nat
                           /\ c.currentRemainder[d] \in Nat
                           /\ m.pool[d] >= c.currentRemainder[d]
       /\ \A a \in Account : \A d \in Denom :
            /\ m.funds[a][d] \in Nat /\ received(a)[d] \in Nat
            /\ a = c.payer => m.funds[a][d] >= pay[d]
  BY <1>1, <1>3, <1>4, <1>5 DEF CoinSet, Covers
<1>14. \A a \in Account : \A d \in Denom :
         n.funds[a][d] = (IF a = c.payer THEN m.funds[a][d] - pay[d] ELSE m.funds[a][d])
                            + received(a)[d]
  BY <1>6 DEF Add, Sub
<1>15. n.funds \in [Account -> CoinSet]
  <2>1. ASSUME NEW a \in Account
        PROVE  Add(IF a = c.payer THEN Sub(m.funds[a], pay) ELSE m.funds[a], received(a)) \in CoinSet
    <3>1. m.funds[a] \in CoinSet /\ received(a) \in CoinSet
      BY <1>3, <1>4
    <3>2. a = c.payer => Sub(m.funds[a], pay) \in CoinSet
      BY <1>1, <1>4, <3>1, CoinTypes
    <3> QED
      BY <3>1, <3>2, CoinTypes
  <2> QED
    BY <1>6, <2>1
<1>16. n.pool \in CoinSet
  <2>1. Sub(m.pool, c.currentRemainder) \in CoinSet
    BY <1>3, <1>5, CoinTypes
  <2> QED
    BY <1>4, <1>7, <2>1, CoinTypes
<1>17. \A d \in Denom : n.pool[d] = (m.pool[d] - c.currentRemainder[d]) + toPool[d]
  BY <1>7 DEF Add, Sub
<1>18. ASSUME NEW d \in Denom
       PROVE  SumOf([a \in Account |-> n.funds[a][d]], Account) + n.pool[d]
                = SumOf([a \in Account |-> InitialFunds[a][d]], Account)
  <2> DEFINE before == [a \in Account |-> m.funds[a][d]]
             rest == [a \in Account |-> IF a = c.payer THEN m.funds[a][d] - pay[d]
                                         ELSE m.funds[a][d]]
             got == [a \in Account |-> received(a)[d]]
             after == [a \in Account |-> n.funds[a][d]]
  <2>1. \A a \in Account :
          /\ before[a] \in Nat /\ rest[a] \in Nat /\ got[a] \in Nat
          /\ after[a] = rest[a] + got[a]
    BY <1>13, <1>14
  <2>2. /\ rest[c.payer] = before[c.payer] - pay[d]
        /\ \A a \in Account \ {c.payer} : rest[a] = before[a]
    BY <1>3
  <2>3. IsFiniteSet(Account) /\ SumOf(got, Account) = payees[d]
    BY <1>10, AccountsFinite
  <2>4. SumOf(before, Account) + m.pool[d] = SumOf([a \in Account |-> InitialFunds[a][d]], Account)
    BY DEF LedgerOK
  <2> HIDE DEF before, rest, got, after
  <2>5. SumOf(after, Account) = SumOf(rest, Account) + SumOf(got, Account)
    BY <2>1, <2>3, SumPlus
  <2>6. SumOf(rest, Account) = SumOf(before, Account) - before[c.payer] + rest[c.payer]
    BY <1>3, <2>1, <2>2, <2>3, SumUpdate
  <2>7. SumOf(rest, Account) = SumOf(before, Account) - pay[d]
    <3>1. /\ before[c.payer] \in Nat /\ rest[c.payer] \in Nat
          /\ SumOf(before, Account) \in Nat
      BY <1>3, <2>1, <2>3, SumType
    <3>2. pay[d] \in Nat
      BY <1>13
    <3> QED
      BY <2>2, <2>6, <3>1, <3>2
  <2>8. SumOf(before, Account) \in Nat /\ SumOf(rest, Account) \in Nat
    BY <2>1, <2>3, SumType
  <2>9. SumOf(after, Account) + n.pool[d] = SumOf(before, Account) + m.pool[d]
    <3>1. /\ payees[d] \in Nat /\ m.pool[d] \in Nat /\ toPool[d] \in Nat /\ pay[d] \in Nat
          /\ c.currentRemainder[d] \in Nat
          /\ toPool[d] = (pay[d] + c.currentRemainder[d]) - payees[d]
          /\ n.pool[d] = (m.pool[d] - c.currentRemainder[d]) + toPool[d]
      BY <1>10, <1>13, <1>17
    <3> QED
      BY <2>3, <2>5, <2>7, <2>8, <3>1
  <2> QED
    BY <2>4, <2>9 DEF after
<1>19. ASSUME NEW d \in Denom
       PROVE  n.pool[d] = SumOf([i \in DOMAIN n.contracts |-> n.contracts[i].currentRemainder[d]],
                                DOMAIN n.contracts)
  <2> DEFINE S == DOMAIN m.contracts
             f == [i \in S |-> m.contracts[i].currentRemainder[d]]
             g == [i \in S |-> n.contracts[i].currentRemainder[d]]
  <2>1. IsFiniteSet(S) /\ m.pool[d] = SumOf(f, S)
    BY FiniteContracts DEF LedgerOK
  <2>2. \A i \in S : f[i] \in Nat
    <3>1. \A i \in S : m.contracts[i] \in PContract
      BY <1>3
    <3> QED
      BY <3>1, TemplateType
  <2>3. /\ f[id] = c.currentRemainder[d] /\ g[id] = toPool[d] /\ id \in S
        /\ \A i \in S \ {id} : g[i] = f[i]
    BY <1>11, <1>12
  <2>4. \A i \in S : g[i] \in Nat
    BY <1>13, <2>2, <2>3
  <2> HIDE DEF S, f, g
  <2>5. SumOf(g, S) = SumOf(f, S) - f[id] + g[id]
    BY <2>1, <2>2, <2>3, <2>4, SumUpdate
  <2>6. SumOf(f, S) \in Nat /\ f[id] \in Nat /\ g[id] \in Nat
    BY <2>1, <2>2, <2>3, <2>4, SumType
  <2>7. n.pool[d] = SumOf(g, S)
    BY <1>17, <2>1, <2>3, <2>5, <2>6
  <2> QED
    BY <1>12, <2>7 DEF S, g
<1>20. /\ n.contracts \in [DOMAIN n.contracts -> PContract]
       /\ DOMAIN n.contracts \subseteq ContractId
       /\ \A i \in DOMAIN n.contracts : i[1] \in DOMAIN projects /\ OfProject(i, n.contracts[i])
  <2>1. n.contracts \in [DOMAIN n.contracts -> PContract]
    BY <1>3, <1>9, <1>11
  <2>2. OfProject(id, new)
    BY <1>2, <1>11 DEF OfProject
  <2> QED
    BY <1>12, <2>1, <2>2 DEF LedgerOK
<1>21. LedgerOK(n)
  BY <1>9, <1>15, <1>16, <1>18, <1>19, <1>20 DEF LedgerOK
<1>22. ASSUME NEW a \in Account, NEW d \in Denom
       PROVE  n.funds[a][d] >= m.funds[a][d] - (IF a = c.payer THEN pay[d] ELSE 0)
  BY <1>13, <1>14
<1> QED
  BY <1>11, <1>12, <1>21, <1>22 DEF pay

\* processPay, when it succeeds: the contract of the payment records what left the
\* account of the project, and no other contract changes.
LEMMA ProcessPayFacts ==
  ASSUME NEW l, LedgerOK(l), NEW p \in Project, NEW y, PaymentOf(p, y),
         PaySucceeds(l, p, y), NEW n, n = ProcessPay(l, p, y)
  PROVE  /\ LedgerOK(n)
         /\ DOMAIN n.contracts = DOMAIN l.contracts \cup {y.id}
         /\ \A i \in DOMAIN l.contracts : i # y.id => n.contracts[i] = l.contracts[i]
         /\ \E pay \in CoinSet :
              /\ n.contracts[y.id].cumulativePay
                   = IF y.id \in DOMAIN l.contracts
                     THEN Add(l.contracts[y.id].cumulativePay, pay) ELSE pay
              /\ Unlimited(y.template) => pay = Templates[y.template].amount
              /\ \A a \in Account : \A d \in Denom :
                   n.funds[a][d] >= l.funds[a][d] - (IF a = Internal(p, p) THEN pay[d] ELSE 0)
<1> DEFINE m == WithContract(l, p, y)
           c == m.contracts[y.id]
           pay == Payments(m)!Pay(c)
<1>1. Payments(m)!ValidRecipients(y.recipients) /\ Payments(m)!Effected(c)
  BY DEF PaySucceeds, PayAttempted
<1>2. n = [funds |-> Payments(m)!FundsAfter(c), pool |-> Payments(m)!PoolAfter(c),
           contracts |-> [m.contracts EXCEPT ![y.id] = Payments(m)!ContractAfter(c)]]
  BY DEF ProcessPay
<1>3. Payments(m)!PayDefined(c)
  BY <1>1 DEF Payments!Effected
<1> HIDE DEF m
<1>4. /\ LedgerOK(m) /\ m.funds = l.funds
      /\ DOMAIN m.contracts = DOMAIN l.contracts \cup {y.id}
      /\ \A id \in DOMAIN l.contracts : m.contracts[id] = l.contracts[id]
      /\ y.id \notin DOMAIN l.contracts => c.cumulativePay = NoCoins
  BY <1>1, WithContractFacts DEF m
<1>5. y.id \in DOMAIN m.contracts
  BY <1>4
<1>6. c \in PContract /\ c.template = y.template /\ c.payer = Internal(p, p)
  BY <1>4, <1>5 DEF LedgerOK, OfProject, PaymentOf
<1>7. /\ LedgerOK(n)
      /\ DOMAIN n.contracts = DOMAIN m.contracts
      /\ \A i \in DOMAIN m.contracts : i # y.id => n.contracts[i] = m.contracts[i]
      /\ n.contracts[y.id].cumulativePay = Add(c.cumulativePay, pay)
      /\ \A a \in Account : \A d \in Denom :
           n.funds[a][d] >= m.funds[a][d] - (IF a = c.payer THEN pay[d] ELSE 0)
  BY <1>1, <1>2, <1>4, <1>5, EffectedFacts
<1>8. /\ pay \in CoinSet
      /\ Unlimited(y.template) => pay = Templates[y.template].amount
  BY <1>3, <1>6, PayFacts
<1>9. Add(NoCoins, pay) = pay
  <2> HIDE DEF c, pay
  <2>1. pay = [d \in Denom |-> pay[d]] /\ \A d \in Denom : 0 + pay[d] = pay[d]
    BY <1>8 DEF CoinSet
  <2> QED
    BY <2>1 DEF NoCoins, Add
<1> HIDE DEF c, pay
<1>10. /\ y.id \in DOMAIN l.contracts => c = l.contracts[y.id]
       /\ y.id \notin DOMAIN l.contracts => c.cumulativePay = NoCoins
  BY <1>4 DEF c
<1>11. n.contracts[y.id].cumulativePay
         = IF y.id \in DOMAIN l.contracts
           THEN Add(l.contracts[y.id].cumulativePay, pay) ELSE pay
  BY <1>7, <1>9, <1>10
<1>12. \A a \in Account : \A d \in Denom :
         n.funds[a][d] >= l.funds[a][d] - (IF a = Internal(p, p) THEN pay[d] ELSE 0)
  BY <1>4, <1>6, <1>7
<1>13. /\ DOMAIN n.contracts = DOMAIN l.contracts \cup {y.id}
       /\ \A i \in DOMAIN l.contracts : i # y.id => n.contracts[i] = l.contracts[i]
  BY <1>4, <1>7
<1> QED
  BY <1>7, <1>8, <1>11, <1>12, <1>13

\* What is in the records of the stores, the accounts and the parameters.
TypesInv ==
  /\ claims \in [DOMAIN claims -> Claim]
  /\ \A p \in DOMAIN projects :
       /\ accounts[p] \subseteq InternalId /\ withdrawals[p] \in Seq(Withdrawal)
       /\ \A type \in DOMAIN projects[p].fees : projects[p].fees[type] \in DOMAIN Templates
  /\ exists \subseteq Account /\ FeeCollector \in exists
  /\ params \in Params

\* The inductive invariant of the coins: no payment, payout or withdrawal can find
\* a contract whose payer, template or remainder is not the project's own.
CoinsInv == StoresInv /\ TypesInv /\ LedgerOK(ledger)

-----------------------------------------------------------------------------
\* The recipients of both kinds of payments are accounts with integer shares.
LEMMA OraclePaymentOf ==
  ASSUME StoresInv, TypesInv, NEW p \in DOMAIN projects, NEW oracle \in Did \cup Project,
         OracleDue(p)
  PROVE  PaymentOf(p, OraclePayment(p, oracle)) /\ p \in Project
<1> DEFINE y == OraclePayment(p, oracle)
           S == [account : Account, percentage : Int]
<1>1. p \in Project
  BY DEF StoresInv, StoresByProject
<1>2. /\ y.id = <<p, oracle, "OracleFee">> /\ y.template = projects[p].fees["OracleFee"]
      /\ y.recipients = OraclePayRecipients(p, oracle)
  BY DEF OraclePayment, Payment
<1>3. /\ y.id \in ContractId /\ y.id[1] = p /\ y.id[3] = "OracleFee"
  BY <1>1, <1>2 DEF ContractId, FeeType
<1>4. /\ "OracleFee" \in DOMAIN projects[p].fees
      /\ projects[p].fees["OracleFee"] \in DOMAIN Templates
  BY DEF OracleDue, TypesInv
<1>5. params.oracleFeePercentage \in Nat /\ params.nodeFeePercentage \in Nat
  BY DEF TypesInv, Params
<1>6. NodeFeeShare \in Nat
  <2>1. QuoInt(params.nodeFeePercentage, 100) \in Nat
    BY <1>5, Division DEF QuoInt
  <2> QED
    BY <1>5, <2>1, MulType DEF NodeFeeShare
<1>7. ToDec(100) \in Nat
  BY ToDecType
<1>8. /\ Internal(p, IxoPayFees) \in Account /\ Internal(p, InitiatingNodePayFees) \in Account
      /\ oracle \in Account
  BY <1>1 DEF Internal, Account, InternalId, FeeAccounts
<1>9. y.recipients \in Seq(S)
  <2> DEFINE r1 == [account |-> Internal(p, IxoPayFees),
                    percentage |-> params.oracleFeePercentage - NodeFeeShare]
             r2 == [account |-> Internal(p, InitiatingNodePayFees), percentage |-> NodeFeeShare]
             r3 == [account |-> oracle, percentage |-> ToDec(100) - params.oracleFeePercentage]
  <2>1. r1 \in S /\ r2 \in S /\ r3 \in S
    BY <1>5, <1>6, <1>7, <1>8
  <2>2. y.recipients = <<r1, r2, r3>>
    BY <1>2 DEF OraclePayRecipients
  <2> HIDE DEF r1, r2, r3, S
  <2> QED
    BY <2>1, <2>2
<1> QED
  BY <1>1, <1>2, <1>3, <1>4, <1>9 DEF PaymentOf

LEMMA ServicePaymentOf ==
  ASSUME StoresInv, TypesInv, NEW p \in DOMAIN projects, NEW claimer \in Did \cup Project,
         "FeeForService" \in DOMAIN projects[p].fees
  PROVE  PaymentOf(p, ServicePayment(p, claimer))
<1> DEFINE y == ServicePayment(p, claimer)
           S == [account : Account, percentage : Int]
<1>1. p \in Project
  BY DEF StoresInv, StoresByProject
<1>2. /\ y.id = <<p, claimer, "FeeForService">>
      /\ y.template = projects[p].fees["FeeForService"]
      /\ y.recipients = << [account |-> claimer, percentage |-> ToDec(100)] >>
  BY DEF ServicePayment, Payment, ClaimerOnly
<1>3. /\ y.id \in ContractId /\ y.id[1] = p /\ y.id[3] = "FeeForService"
  BY <1>1, <1>2 DEF ContractId, FeeType
<1>4. projects[p].fees["FeeForService"] \in DOMAIN Templates
  BY DEF TypesInv
<1>5. ToDec(100) \in Nat /\ claimer \in Account
  BY ToDecType DEF Account
<1>6. y.recipients \in Seq(S)
  <2> DEFINE r == [account |-> claimer, percentage |-> ToDec(100)]
  <2>1. r \in S
    BY <1>5
  <2> HIDE DEF r, S
  <2> QED
    BY <1>2, <2>1 DEF r
<1> QED
  BY <1>1, <1>2, <1>3, <1>4, <1>6 DEF PaymentOf

-----------------------------------------------------------------------------
\* Coins go from one account to others, and none are made or lost.
SameTotals(f, g) ==
  /\ g \in [Account -> CoinSet]
  /\ \A d \in Denom : SumOf([a \in Account |-> g[a][d]], Account)
                        = SumOf([a \in Account |-> f[a][d]], Account)

LEMMA MoveCoins ==
  ASSUME NEW f \in [Account -> CoinSet], NEW coins \in CoinSet,
         NEW from \in Account, NEW to \in Account, from # to, Covers(f[from], coins),
         NEW g, g = [a \in Account |-> IF a = from THEN Sub(f[a], coins)
                                       ELSE IF a = to THEN Add(f[a], coins) ELSE f[a]]
  PROVE  SameTotals(f, g)
<1>1. g \in [Account -> CoinSet]
  <2>1. /\ Sub(f[from], coins) \in CoinSet /\ Add(f[to], coins) \in CoinSet
    BY CoinTypes
  <2>2. \A a \in Account : f[a] \in CoinSet
    OBVIOUS
  <2> QED
    BY <2>1, <2>2
<1>2. ASSUME NEW d \in Denom
      PROVE  SumOf([a \in Account |-> g[a][d]], Account)
               = SumOf([a \in Account |-> f[a][d]], Account)
  <2> DEFINE before == [a \in Account |-> f[a][d]]
             after == [a \in Account |-> g[a][d]]
  <2>1. \A a \in Account : before[a] \in Nat /\ after[a] \in Nat
    <3>1. \A a \in Account : f[a] \in CoinSet /\ g[a] \in CoinSet
      BY <1>1
    <3> QED
      BY <3>1 DEF CoinSet
  <2>2. /\ after[from] = before[from] - coins[d] /\ after[to] = before[to] + coins[d]
        /\ \A a \in Account \ {from, to} : after[a] = before[a]
    BY DEF Add, Sub
  <2>3. coins[d] \in Nat /\ IsFiniteSet(Account)
    BY AccountsFinite DEF CoinSet
  <2> HIDE DEF before, after
  <2>4. SumOf(after, Account) = SumOf(before, Account)
    BY <2>1, <2>2, <2>3, SumMove
  <2> QED
    BY <2>4 DEF before, after
<1> QED
  BY <1>1, <1>2 DEF SameTotals

LEMMA SentFacts ==
  ASSUME funds \in [Account -> CoinSet], NEW coins \in CoinSet,
         NEW from \in Account, NEW to \in Account, Covers(funds[from], coins)
  PROVE  SameTotals(funds, Sent(from, to, coins))
<1>1. CASE from # to
  <2>1. Sent(from, to, coins) =
          [a \in Account |-> IF a = from THEN Sub(funds[a], coins)
                             ELSE IF a = to THEN Add(funds[a], coins) ELSE funds[a]]
    BY <1>1 DEF Sent
  <2> QED
    BY <1>1, <2>1, MoveCoins
<1>2. CASE from = to
  <2>1. Add(Sub(funds[from], coins), coins) = funds[from]
    <3>1. funds[from] \in CoinSet /\ funds[from] = [d \in Denom |-> funds[from][d]]
      BY DEF CoinSet
    <3>2. \A d \in Denom : (funds[from][d] - coins[d]) + coins[d] = funds[from][d]
      BY <3>1 DEF CoinSet
    <3> QED
      BY <3>1, <3>2 DEF Add, Sub
  <2>2. Sent(from, to, coins) = [a \in Account |-> funds[a]]
    BY <1>2, <2>1 DEF Sent
  <2>3. Sent(from, to, coins) = funds
    BY <2>2
  <2> QED
    BY <2>3 DEF SameTotals
<1> QED
  BY <1>1, <1>2

LEMMA CoinType ==
  ASSUME NEW n \in Nat
  PROVE  Coin(n) \in CoinSet /\ Coin(n)[Native] = n
  BY ProjectAssumption DEF Coin, CoinSet

\* What the sender pays for a new project goes to the fee collector and to the
\* address of the project, which is neither of the two.
LEMMA ChargedFacts ==
  ASSUME TypesInv, funds \in [Account -> CoinSet],
         NEW sender \in Did, NEW p \in Project, CanCharge(sender, p)
  PROVE  /\ SameTotals(funds, Charged(sender, p))
         /\ \A a \in Account \ {sender} : \A d \in Denom : Charged(sender, p)[a][d] >= funds[a][d]
<1> DEFINE fee == Coin(TransactionFee)
           rest == Coin(TotalFee - TransactionFee)
           mid == [a \in Account |-> IF a = sender THEN Sub(funds[a], fee)
                                     ELSE IF a = FeeCollector THEN Add(funds[a], fee)
                                     ELSE funds[a]]
           end == [a \in Account |-> IF a = sender THEN Sub(mid[a], rest)
                                     ELSE IF a = p THEN Add(mid[a], rest) ELSE mid[a]]
<1>1. /\ TransactionFee \in Nat /\ TotalFee \in Nat /\ TotalFee - TransactionFee \in Nat
      /\ Native \in Denom
  BY ProjectAssumption
<1>2. fee \in CoinSet /\ rest \in CoinSet
  BY <1>1, CoinType
<1>3. /\ sender \in Account /\ FeeCollector \in Account /\ p \in Account
      /\ sender # FeeCollector /\ sender # p /\ p # FeeCollector
      /\ funds[sender][Native] >= TotalFee
  BY ProjectAssumption DEF CanCharge, TypesInv, Account
<1>4. \A d \in Denom : /\ funds[sender][d] \in Nat
                       /\ fee[d] = (IF d = Native THEN TransactionFee ELSE 0)
                       /\ rest[d] = (IF d = Native THEN TotalFee - TransactionFee ELSE 0)
  <2>1. funds[sender] \in CoinSet
    BY <1>3
  <2> QED
    BY <2>1 DEF Coin, CoinSet
<1> HIDE DEF fee, rest
<1>5. Covers(funds[sender], fee)
  BY <1>1, <1>3, <1>4 DEF Covers
<1>6. SameTotals(funds, mid)
  <2> HIDE DEF mid
  <2> QED
    BY <1>2, <1>3, <1>5, MoveCoins DEF mid
<1>7. mid[sender] = Sub(funds[sender], fee)
  BY <1>3
<1>8. Covers(mid[sender], rest)
  <2>1. \A d \in Denom : mid[sender][d] = funds[sender][d] - fee[d]
    BY <1>7 DEF Sub
  <2> HIDE DEF mid
  <2> QED
    BY <1>1, <1>3, <1>4, <2>1 DEF Covers
<1>9. mid \in [Account -> CoinSet]
  BY <1>6 DEF SameTotals
<1>10. SameTotals(mid, end)
  <2> HIDE DEF mid, end
  <2> QED
    BY <1>2, <1>3, <1>8, <1>9, MoveCoins DEF end
<1>11. Sub(mid[sender], rest) = Sub(funds[sender], Coin(TotalFee))
  <2>1. \A d \in Denom : mid[sender][d] - rest[d] = funds[sender][d] - Coin(TotalFee)[d]
    <3>1. \A d \in Denom : /\ mid[sender][d] = funds[sender][d] - fee[d]
                           /\ Coin(TotalFee)[d] = (IF d = Native THEN TotalFee ELSE 0)
      BY <1>7 DEF Sub, Coin
    <3> HIDE DEF mid
    <3> QED
      BY <1>1, <1>4, <3>1
  <2> HIDE DEF mid
  <2> QED
    BY <2>1 DEF Sub
<1>12. Charged(sender, p) = end
  <2>1. ASSUME NEW a \in Account PROVE Charged(sender, p)[a] = end[a]
    <3>1. CASE a = sender
      <4>1. end[a] = Sub(mid[a], rest)
        BY <3>1
      <4>2. Charged(sender, p)[a] = Sub(funds[a], Coin(TotalFee))
        BY <1>3, <3>1 DEF Charged
      <4> HIDE DEF mid, end
      <4> QED
        BY <1>11, <3>1, <4>1, <4>2
    <3>2. CASE a = FeeCollector
      BY <1>3, <3>2 DEF Charged, fee
    <3>3. CASE a = p
      BY <1>3, <3>3 DEF Charged, rest
    <3>4. CASE a # sender /\ a # FeeCollector /\ a # p
      BY <3>4 DEF Charged
    <3> QED
      BY <3>1, <3>2, <3>3, <3>4
  <2>2. end = [a \in Account |-> end[a]]
    OBVIOUS
  <2>3. Charged(sender, p) = [a \in Account |-> Charged(sender, p)[a]]
    BY DEF Charged
  <2> HIDE DEF end
  <2> QED
    BY <2>1, <2>2, <2>3
<1>13. SameTotals(funds, end)
  BY <1>6, <1>10 DEF SameTotals
<1>14. ASSUME NEW a \in Account \ {sender}, NEW d \in Denom
       PROVE  Charged(sender, p)[a][d] >= funds[a][d]
  <2>1. funds[a][d] \in Nat /\ Coin(TransactionFee)[d] \in Nat
          /\ Coin(TotalFee - TransactionFee)[d] \in Nat
    <3>1. funds[a] \in CoinSet
      OBVIOUS
    <3> QED
      BY <1>1, <3>1 DEF CoinSet, Coin
  <2>2. \/ Charged(sender, p)[a][d] = funds[a][d]
        \/ Charged(sender, p)[a][d] = funds[a][d] + Coin(TransactionFee)[d]
        \/ Charged(sender, p)[a][d] = funds[a][d] + Coin(TotalFee - TransactionFee)[d]
    BY DEF Charged, Add
  <2> QED
    BY <2>1, <2>2
<1> QED
  BY <1>12, <1>13, <1>14

\* The fee accounts hold what the payout takes out of them.
LEMMA FeesHeldFacts ==
  ASSUME AccountsAgree, funds \in [Account -> CoinSet], NEW p \in DOMAIN projects, p \in Project
  PROVE  /\ FeesHeld(p) \in Nat
         /\ FeesHeld(p) = SumOf([id \in FeeAccounts |-> funds[Internal(p, id)][Native]], FeeAccounts)
         /\ \A id \in FeeAccounts : /\ Internal(p, id) \in Account
                                    /\ funds[Internal(p, id)][Native] \in Nat
<1>1. \A id \in FeeAccounts : Internal(p, id) \in Account
  BY DEF Internal, Account, InternalId
<1>2. \A id \in FeeAccounts : funds[Internal(p, id)][Native] \in Nat
  <2>1. \A id \in FeeAccounts : funds[Internal(p, id)] \in CoinSet
    BY <1>1
  <2> QED
    BY <2>1, ProjectAssumption DEF CoinSet
<1> DEFINE f == [id \in FeeAccounts |-> IxoAmount(p, id)]
           g == [id \in FeeAccounts |-> funds[Internal(p, id)][Native]]
<1>3. \A id \in FeeAccounts : f[id] = g[id] /\ g[id] \in Nat
  BY <1>2 DEF IxoAmount, AccountsAgree
<1> HIDE DEF f, g
<1>4. SumOf(f, FeeAccounts) = SumOf(g, FeeAccounts) /\ SumOf(g, FeeAccounts) \in Nat
  BY <1>3, SumCongruence, SumType, AccountsFinite
<1> QED
  BY <1>1, <1>2, <1>4 DEF FeesHeld, f, g

\* A payout empties the fee accounts into the account of ixo.
LEMMA PaidOutFacts ==
  ASSUME TypesInv, AccountsAgree, funds \in [Account -> CoinSet],
         NEW p \in DOMAIN projects, p \in Project
  PROVE  SameTotals(funds, PaidOut(p))
<1> DEFINE E == {Internal(p, id) : id \in FeeAccounts}
           R == Account \ E
           ixo == params.ixoDid
           g == PaidOut(p)
<1>1. /\ FeesHeld(p) \in Nat
      /\ FeesHeld(p) = SumOf([id \in FeeAccounts |-> funds[Internal(p, id)][Native]], FeeAccounts)
      /\ \A id \in FeeAccounts : Internal(p, id) \in Account
  BY FeesHeldFacts
<1>2. E \subseteq Account /\ IsFiniteSet(E) /\ IsFiniteSet(R) /\ IsFiniteSet(Account)
      /\ Account = R \cup E /\ R \cap E = {}
  <2>1. E \subseteq Account
    BY <1>1
  <2>2. IsFiniteSet(E) /\ IsFiniteSet(R)
    <3> HIDE DEF E
    <3> QED
      BY <2>1, AccountsFinite, FS_Subset
  <2> QED
    BY <2>1, <2>2, AccountsFinite
<1>3. ixo \in R /\ ixo \in Account
  <2>1. ixo \in Did
    BY DEF TypesInv, Params
  <2>2. E \subseteq Project \X InternalId
    BY DEF Internal, InternalId
  <2>3. ixo \notin E
    BY <2>1, <2>2, ProjectAssumption
  <2> QED
    BY <2>1, <2>3 DEF Account
<1>4. Native \in Denom /\ Coin(FeesHeld(p)) \in CoinSet /\ Coin(FeesHeld(p))[Native] = FeesHeld(p)
      /\ \A d \in Denom : d # Native => Coin(FeesHeld(p))[d] = 0
  BY <1>1, ProjectAssumption, CoinType DEF Coin
<1>5. \A a \in Account :
        /\ a \in E => g[a] = [funds[a] EXCEPT ![Native] = 0]
        /\ a \notin E /\ a = ixo => g[a] = Add(funds[a], Coin(FeesHeld(p)))
        /\ a \notin E /\ a # ixo => g[a] = funds[a]
  BY DEF PaidOut
<1>6. g = [a \in Account |-> g[a]]
  BY DEF PaidOut
<1> HIDE DEF E, R, g, ixo
<1>7. g \in [Account -> CoinSet]
  <2>1. ASSUME NEW a \in Account PROVE g[a] \in CoinSet
    <3>1. funds[a] \in CoinSet
      OBVIOUS
    <3>2. CASE a \in E
      <4>1. g[a] = [funds[a] EXCEPT ![Native] = 0]
        BY <1>5, <3>2
      <4>2. DOMAIN funds[a] = Denom /\ \A d \in Denom : funds[a][d] \in Nat
        BY <3>1 DEF CoinSet
      <4>3. g[a] = [d \in Denom |-> IF d = Native THEN 0 ELSE funds[a][d]]
        BY <4>1, <4>2
      <4>4. \A d \in Denom : (IF d = Native THEN 0 ELSE funds[a][d]) \in Nat
        BY <4>2
      <4> QED
        BY <4>3, <4>4 DEF CoinSet
    <3>3. CASE a \notin E
      BY <1>4, <1>5, <3>1, <3>3, CoinTypes
    <3> QED
      BY <3>2, <3>3
  <2> QED
    BY <1>6, <2>1
<1>8. ASSUME NEW d \in Denom
      PROVE  SumOf([a \in Account |-> g[a][d]], Account)
               = SumOf([a \in Account |-> funds[a][d]], Account)
  <2> DEFINE before == [a \in Account |-> funds[a][d]]
             after == [a \in Account |-> g[a][d]]
  <2>1. \A a \in Account : before[a] \in Nat /\ after[a] \in Nat
    <3>1. \A a \in Account : funds[a] \in CoinSet /\ g[a] \in CoinSet
      BY <1>7
    <3> QED
      BY <3>1 DEF CoinSet
  <2>2. CASE d # Native
    <3>1. \A a \in Account : before[a] = after[a]
      <4> SUFFICES ASSUME NEW a \in Account PROVE funds[a][d] = g[a][d]
        OBVIOUS
      <4>1. funds[a] \in CoinSet /\ funds[a][d] \in Nat
        BY <2>1
      <4>2. CASE a \in E
        BY <1>5, <2>2, <4>1, <4>2 DEF CoinSet
      <4>3. CASE a \notin E /\ a = ixo
        <5>1. g[a] = Add(funds[a], Coin(FeesHeld(p))) /\ Coin(FeesHeld(p))[d] = 0
          BY <1>4, <1>5, <2>2, <4>3
        <5>2. g[a][d] = funds[a][d] + 0
          BY <5>1 DEF Add
        <5> QED
          BY <4>1, <5>2
      <4>4. CASE a \notin E /\ a # ixo
        BY <1>5, <4>4
      <4> QED
        BY <4>2, <4>3, <4>4
    <3> HIDE DEF before, after
    <3>2. SumOf(before, Account) = SumOf(after, Account)
      BY <3>1, SumCongruence
    <3> QED
      BY <3>2 DEF before, after
  <2>3. CASE d = Native
    <3>1. /\ \A a \in E : after[a] = 0
          /\ \A a \in R \ {ixo} : after[a] = before[a]
          /\ after[ixo] = before[ixo] + FeesHeld(p)
      <4>1. \A a \in E : after[a] = 0
        <5>1. \A a \in E : a \in Account /\ funds[a] \in CoinSet
          BY <1>2
        <5> QED
          BY <1>5, <2>3, <5>1 DEF CoinSet
      <4>2. \A a \in R \ {ixo} : after[a] = before[a]
        BY <1>2, <1>5 DEF R
      <4>3. after[ixo] = before[ixo] + FeesHeld(p)
        <5>1. g[ixo] = Add(funds[ixo], Coin(FeesHeld(p)))
          BY <1>2, <1>3, <1>5
        <5>2. g[ixo][d] = funds[ixo][d] + FeesHeld(p)
          BY <1>4, <2>3, <5>1 DEF Add
        <5> QED
          BY <1>3, <5>2
      <4> QED
        BY <4>1, <4>2, <4>3
    <3>2. SumOf(before, E) = FeesHeld(p)
      <4> DEFINE holder == [e \in E |-> e[2]]
                 group == [id \in FeeAccounts |-> {Internal(p, id)}]
                 h == [id \in FeeAccounts |-> funds[Internal(p, id)][Native]]
      <4>1. \A e \in E : \E id \in FeeAccounts : e = <<p, id>>
        BY DEF E, Internal
      <4>2. \A e \in E : holder[e] \in FeeAccounts /\ e = Internal(p, holder[e])
        BY <4>1 DEF Internal
      <4>3. \A id \in FeeAccounts : Internal(p, id) \in E /\ holder[Internal(p, id)] = id
        BY DEF E, Internal
      <4>4. \A id \in FeeAccounts : \A e : e \in group[id] <=> e \in E /\ holder[e] = id
        BY <4>2, <4>3
      <4>5. \A id \in FeeAccounts : h[id] = SumOf(before, group[id])
        <5> SUFFICES ASSUME NEW id \in FeeAccounts PROVE h[id] = SumOf(before, group[id])
          OBVIOUS
        <5>1. h[id] = before[Internal(p, id)] /\ group[id] = {Internal(p, id)}
                /\ before[Internal(p, id)] \in Nat
          BY <1>1, <2>1, <2>3
        <5> HIDE DEF h, before, group
        <5>2. SumOf(before, {} \cup {Internal(p, id)}) = SumOf(before, {}) + before[Internal(p, id)]
          BY <5>1, SumAdd, FS_EmptySet
        <5>3. SumOf(before, {}) = 0 /\ {} \cup {Internal(p, id)} = {Internal(p, id)}
          BY SumEmpty
        <5> QED
          BY <5>1, <5>2, <5>3
      <4>6. /\ \A e \in E : before[e] \in Nat
            /\ \A e \in E : holder[e] \in FeeAccounts
            /\ FeesHeld(p) = SumOf(h, FeeAccounts)
            /\ IsFiniteSet(FeeAccounts)
        BY <1>1, <1>2, <2>1, <4>2, AccountsFinite
      <4> HIDE DEF before, holder, group, h
      <4>7. SumOf(h, FeeAccounts) = SumOf(before, E)
        BY <1>2, <4>4, <4>5, <4>6, SumByGroup, Z3
      <4> QED
        BY <4>6, <4>7
    <3>3. SumOf(after, E) = 0
      <4>1. 0 \in Nat /\ Cardinality(E) \in Nat
        BY <1>2, FS_CardinalityType
      <4> HIDE DEF after
      <4>2. SumOf(after, E) = Cardinality(E) * 0
        BY <1>2, <3>1, <4>1, SumConstant
      <4> QED
        BY <4>1, <4>2
    <3> HIDE DEF before, after
    <3>4. SumOf(after, R) = SumOf(before, R) - before[ixo] + after[ixo]
      BY <1>2, <1>3, <2>1, <3>1, SumUpdate
    <3>5. /\ SumOf(before, R \cup E) = SumOf(before, R) + SumOf(before, E)
          /\ SumOf(after, R \cup E) = SumOf(after, R) + SumOf(after, E)
      BY <1>2, <2>1, SumUnion
    <3>6. SumOf(before, R) \in Nat /\ before[ixo] \in Nat
      BY <1>2, <1>3, <2>1, SumType
    <3>7. SumOf(after, Account) = SumOf(before, Account)
      BY <1>1, <1>2, <3>1, <3>2, <3>3, <3>4, <3>5, <3>6
    <3> QED
      BY <3>7 DEF before, after
  <2> QED
    BY <2>2, <2>3
<1> QED
  BY <1>7, <1>8 DEF SameTotals, g

-----------------------------------------------------------------------------
\* Who is where: what the types of the next state need of each kind of step.
LEMMA InternalAccount ==
  ASSUME NEW p \in Project, NEW id \in InternalId
  PROVE  Internal(p, id) \in Account
  BY DEF Internal, Account

LEMMA MoveFacts ==
  ASSUME TypesInv, NEW f, NEW created, created \subseteq Account, Move(f, created)
  PROVE  exists' \subseteq Account /\ FeeCollector \in exists' /\ funds' = f
  BY DEF TypesInv, Move

LEMMA GetFacts ==
  ASSUME StoresInv, TypesInv, NEW p \in DOMAIN projects, NEW ids, ids \subseteq InternalId,
         Get(p, ids)
  PROVE  \A q \in DOMAIN projects : accounts'[q] \subseteq InternalId
<1>1. DOMAIN accounts = DOMAIN projects
  BY DEF StoresInv, StoresByProject
<1>2. \A q \in DOMAIN projects :
        accounts'[q] = IF q = p THEN accounts[p] \cup ids ELSE accounts[q]
  BY <1>1 DEF Get
<1> QED
  BY <1>2 DEF TypesInv

LEMMA WithdrawalFacts ==
  ASSUME StoresInv, TypesInv, NEW p \in DOMAIN projects,
         NEW recipient \in Did \cup Project, NEW amount \in Nat,
         AddWithdrawal(p, recipient, amount)
  PROVE  \A q \in DOMAIN projects : withdrawals'[q] \in Seq(Withdrawal)
<1> DEFINE e == [recipient |-> recipient, amount |-> amount]
<1>1. DOMAIN withdrawals = DOMAIN projects
  BY DEF StoresInv, StoresByProject
<1>2. withdrawals' = [withdrawals EXCEPT ![p] = Append(withdrawals[p], e)]
  BY DEF AddWithdrawal
<1>3. e \in Withdrawal
  BY DEF Withdrawal
<1>4. \A q \in DOMAIN projects : withdrawals[q] \in Seq(Withdrawal)
  BY DEF TypesInv
<1> HIDE DEF e
<1>5. Append(withdrawals[p], e) \in Seq(Withdrawal)
  BY <1>3, <1>4, AppendProperties
<1> QED
  BY <1>1, <1>2, <1>4, <1>5

LEMMA FeesKept ==
  ASSUME StoresInv, NEW p \in DOMAIN projects, NEW new, SetStatus(p, new)
  PROVE  /\ DOMAIN projects' = DOMAIN projects
         /\ \A q \in DOMAIN projects : projects'[q].fees = projects[q].fees
<1>1. projects' = [projects EXCEPT ![p] = [projects[p] EXCEPT !.status = new]]
  BY DEF SetStatus
<1>2. projects[p] \in Doc
  BY DEF StoresInv, StoresByProject
<1>3. [projects[p] EXCEPT !.status = new].fees = projects[p].fees
  BY <1>2 DEF Doc
<1> QED
  BY <1>1, <1>3

\* The ledger of the next state, as the coins and contracts of a point in time.
LEMMA LedgerNext ==
  ASSUME NEW l, LedgerOK(l)', funds' = l.funds, pool' = l.pool, contracts' = l.contracts
  PROVE  LedgerOK(ledger)'
<1>1. /\ ledger'.funds = l.funds /\ ledger'.pool = l.pool /\ ledger'.contracts = l.contracts
      /\ ledger' = [funds |-> l.funds, pool |-> l.pool, contracts |-> l.contracts]
  BY DEF ledger
<1> HIDE DEF ledger
<1> QED
  BY <1>1 DEF LedgerOK, OfProject

\* Steps without payments: as long as coins only change hands, the books agree.
LEMMA LedgerKept ==
  ASSUME LedgerOK(ledger), SameTotals(funds, funds'), UNCHANGED <<contracts, pool>>,
         \A q \in DOMAIN projects : q \in DOMAIN projects' /\ projects'[q].fees = projects[q].fees
  PROVE  LedgerOK(ledger)'
<1>1. /\ ledger.funds = funds /\ ledger.pool = pool /\ ledger.contracts = contracts
  BY DEF ledger
<1>2. /\ pool \in CoinSet /\ DOMAIN contracts \subseteq ContractId
      /\ contracts \in [DOMAIN contracts -> PContract]
      /\ \A id \in DOMAIN contracts : id[1] \in DOMAIN projects /\ OfProject(id, contracts[id])
      /\ \A d \in Denom :
           /\ SumOf([a \in Account |-> funds[a][d]], Account) + pool[d]
                = SumOf([a \in Account |-> InitialFunds[a][d]], Account)
           /\ pool[d] = SumOf([id \in DOMAIN contracts |-> contracts[id].currentRemainder[d]],
                              DOMAIN contracts)
  BY <1>1 DEF LedgerOK
<1>3. PICK l : l = [funds |-> funds', pool |-> pool, contracts |-> contracts]
  OBVIOUS
<1>4. /\ l.funds = funds' /\ l.pool = pool /\ l.contracts = contracts
      /\ l = [funds |-> l.funds, pool |-> l.pool, contracts |-> l.contracts]
  BY <1>3
<1>5. \A id \in DOMAIN l.contracts : id[1] \in DOMAIN projects' /\ OfProject(id, l.contracts[id])'
  BY <1>2, <1>4 DEF OfProject
<1>6. \A d \in Denom : SumOf([a \in Account |-> funds'[a][d]], Account) + pool[d]
                          = SumOf([a \in Account |-> InitialFunds[a][d]], Account)
  BY <1>2 DEF SameTotals
<1>7. funds' \in [Account -> CoinSet]
  BY DEF SameTotals
<1>8. LedgerOK(l)'
  BY <1>2, <1>4, <1>5, <1>6, <1>7 DEF LedgerOK
<1> QED
  BY <1>4, <1>8, LedgerNext

\* A step of a payment: the next state is the ledger that the payment leaves.
LEMMA LedgerPaid ==
  ASSUME NEW l, LedgerOK(l), UNCHANGED projects,
         funds' = l.funds, pool' = l.pool, contracts' = l.contracts
  PROVE  LedgerOK(ledger)'
<1>1. LedgerOK(l)'
  BY DEF LedgerOK, OfProject
<1> QED
  BY <1>1, LedgerNext

-----------------------------------------------------------------------------
LEMMA CreateProjectCoins ==
  ASSUME CoinsInv, NEW sender \in Did, NEW p \in Project, NEW fees \in FeesMaps,
         CreateProject(sender, p, fees)
  PROVE  TypesInv' /\ LedgerOK(ledger)'
<1> DEFINE doc == [creator |-> sender, status |-> "", fees |-> fees]
           created == {p} \cup {Internal(p, id) : id \in InitialAccounts(p)}
<1>1. StoresInv /\ TypesInv /\ LedgerOK(ledger) /\ funds \in [Account -> CoinSet]
  BY DEF CoinsInv, LedgerOK, ledger
<1>2. /\ CanCharge(sender, p) /\ p \notin DOMAIN projects
      /\ \A type \in DOMAIN fees : fees[type] \in DOMAIN Templates
      /\ projects' = Store(projects, p, doc)
      /\ accounts' = Store(accounts, p, InitialAccounts(p))
      /\ withdrawals' = Store(withdrawals, p, <<>>)
      /\ Move(Charged(sender, p), created)
      /\ UNCHANGED <<claims, contracts, pool, params>>
  BY DEF CreateProject, CanCreateProject
<1>3. /\ DOMAIN accounts = DOMAIN projects /\ DOMAIN withdrawals = DOMAIN projects
  BY <1>1 DEF StoresInv, StoresByProject
<1>4. /\ DOMAIN projects' = DOMAIN projects \cup {p}
      /\ projects'[p].fees = fees /\ accounts'[p] = InitialAccounts(p) /\ withdrawals'[p] = <<>>
      /\ \A q \in DOMAIN projects : /\ projects'[q] = projects[q]
                                    /\ accounts'[q] = accounts[q]
                                    /\ withdrawals'[q] = withdrawals[q]
  BY <1>2, <1>3 DEF Store
<1>5. InitialAccounts(p) \subseteq InternalId
  BY DEF InitialAccounts, InternalId
<1>6. created \subseteq Account
  BY <1>5, InternalAccount DEF Account
<1> HIDE DEF created
<1>7. exists' \subseteq Account /\ FeeCollector \in exists' /\ funds' = Charged(sender, p)
  BY <1>1, <1>2, <1>6, MoveFacts
<1>8. SameTotals(funds, funds')
  BY <1>1, <1>2, <1>7, ChargedFacts
<1>9. LedgerOK(ledger)'
  BY <1>1, <1>2, <1>4, <1>8, LedgerKept
<1>10. <<>> \in Seq(Withdrawal)
  OBVIOUS
<1>11. \A q \in DOMAIN projects' :
         /\ accounts'[q] \subseteq InternalId /\ withdrawals'[q] \in Seq(Withdrawal)
         /\ \A type \in DOMAIN projects'[q].fees : projects'[q].fees[type] \in DOMAIN Templates
  BY <1>1, <1>2, <1>4, <1>5, <1>10 DEF TypesInv
<1>12. TypesInv'
  BY <1>1, <1>2, <1>7, <1>11 DEF TypesInv
<1> QED
  BY <1>9, <1>12

\* Steps that leave the documents alone.
LEMMA DocsKept ==
  ASSUME CoinsInv, UNCHANGED <<docs, contracts, pool>>, SameTotals(funds, funds'),
         exists' \subseteq Account, FeeCollector \in exists', params' \in Params
  PROVE  TypesInv' /\ LedgerOK(ledger)'
<1>1. TypesInv /\ LedgerOK(ledger)
  BY DEF CoinsInv
<1>2. UNCHANGED <<projects, accounts, claims, withdrawals>>
  BY DEF docs
<1>3. LedgerOK(ledger)'
  BY <1>1, <1>2, LedgerKept
<1>4. TypesInv'
  BY <1>1, <1>2 DEF TypesInv
<1> QED
  BY <1>3, <1>4

LEMMA SameCoins ==
  ASSUME CoinsInv, UNCHANGED funds
  PROVE  SameTotals(funds, funds')
<1>1. funds \in [Account -> CoinSet]
  BY DEF CoinsInv, LedgerOK, ledger
<1> QED
  BY <1>1 DEF SameTotals

LEMMA FailToCreateProjectCoins ==
  ASSUME CoinsInv, NEW sender \in Did, NEW p \in Project, NEW fees,
         FailToCreateProject(sender, p, fees)
  PROVE  TypesInv' /\ LedgerOK(ledger)'
<1>1. StoresInv /\ TypesInv /\ LedgerOK(ledger) /\ funds \in [Account -> CoinSet]
  BY DEF CoinsInv, LedgerOK, ledger
<1>2. /\ CanCharge(sender, p) /\ Move(Charged(sender, p), {p})
      /\ UNCHANGED <<docs, contracts, pool, params>>
  BY DEF FailToCreateProject
<1>3. {p} \subseteq Account
  BY DEF Account
<1>4. exists' \subseteq Account /\ FeeCollector \in exists' /\ funds' = Charged(sender, p)
  BY <1>1, <1>2, <1>3, MoveFacts
<1>5. SameTotals(funds, funds')
  BY <1>1, <1>2, <1>4, ChargedFacts
<1>6. params' \in Params
  BY <1>1, <1>2 DEF TypesInv
<1> QED
  BY <1>2, <1>4, <1>5, <1>6, DocsKept

LEMMA SendCoins ==
  ASSUME CoinsInv, NEW from \in Did, NEW to \in SendTargets, NEW coins \in SendAmounts,
         Send(from, to, coins)
  PROVE  TypesInv' /\ LedgerOK(ledger)'
<1>1. StoresInv /\ TypesInv /\ LedgerOK(ledger) /\ funds \in [Account -> CoinSet]
  BY DEF CoinsInv, LedgerOK, ledger
<1>2. /\ Covers(funds[from], coins) /\ Move(Sent(from, to, coins), {})
      /\ UNCHANGED <<docs, contracts, pool, params>>
  BY DEF Send, CanSend
<1>3. from \in Account /\ to \in Account /\ coins \in CoinSet
  BY ProjectAssumption DEF Account
<1>4. exists' \subseteq Account /\ FeeCollector \in exists' /\ funds' = Sent(from, to, coins)
  BY <1>1, <1>2, MoveFacts
<1>5. SameTotals(funds, funds')
  BY <1>1, <1>2, <1>3, <1>4, SentFacts
<1>6. params' \in Params
  BY <1>1, <1>2 DEF TypesInv
<1> QED
  BY <1>2, <1>4, <1>5, <1>6, DocsKept

LEMMA ChangeParamsCoins ==
  ASSUME CoinsInv, NEW new \in ParamChoices, ChangeParams(new)
  PROVE  TypesInv' /\ LedgerOK(ledger)'
<1>1. UNCHANGED <<docs, contracts, pool>> /\ UNCHANGED <<funds, exists>> /\ params' = new
  BY DEF ChangeParams, bank
<1>2. exists' \subseteq Account /\ FeeCollector \in exists' /\ params' \in Params
  BY <1>1, ProjectAssumption DEF CoinsInv, TypesInv
<1>3. SameTotals(funds, funds')
  BY <1>1, SameCoins
<1> QED
  BY <1>1, <1>2, <1>3, DocsKept

\* Steps of a project that has been created, other than payments.
LEMMA WorkCoins ==
  ASSUME CoinsInv, UNCHANGED <<contracts, pool, params>>, SameTotals(funds, funds'),
         exists' \subseteq Account, FeeCollector \in exists',
         claims' \in [DOMAIN claims' -> Claim],
         DOMAIN projects' = DOMAIN projects,
         \A q \in DOMAIN projects : /\ projects'[q].fees = projects[q].fees
                                    /\ accounts'[q] \subseteq InternalId
                                    /\ withdrawals'[q] \in Seq(Withdrawal)
  PROVE  TypesInv' /\ LedgerOK(ledger)'
<1>1. TypesInv /\ LedgerOK(ledger)
  BY DEF CoinsInv
<1>2. LedgerOK(ledger)'
  BY <1>1, LedgerKept
<1>3. \A q \in DOMAIN projects' :
        /\ accounts'[q] \subseteq InternalId /\ withdrawals'[q] \in Seq(Withdrawal)
        /\ \A type \in DOMAIN projects'[q].fees : projects'[q].fees[type] \in DOMAIN Templates
  BY <1>1 DEF TypesInv
<1>4. TypesInv'
  BY <1>1, <1>3 DEF TypesInv
<1> QED
  BY <1>2, <1>4

LEMMA UpdateProjectStatusCoins ==
  ASSUME CoinsInv, NEW p \in Project, NEW new, UpdateProjectStatus(p, new)
  PROVE  TypesInv' /\ LedgerOK(ledger)'
<1>1. StoresInv /\ TypesInv
  BY DEF CoinsInv
<1>2. /\ p \in DOMAIN projects /\ SetStatus(p, new)
      /\ UNCHANGED <<accounts, claims, withdrawals, contracts, pool, params>>
      /\ UNCHANGED <<funds, exists>>
  BY DEF UpdateProjectStatus, IsValidProgression, bank
<1>3. SameTotals(funds, funds')
  BY <1>2, SameCoins
<1>4. /\ DOMAIN projects' = DOMAIN projects
      /\ \A q \in DOMAIN projects : projects'[q].fees = projects[q].fees
  BY <1>1, <1>2, FeesKept
<1>5. /\ exists' \subseteq Account /\ FeeCollector \in exists'
      /\ claims' \in [DOMAIN claims' -> Claim]
      /\ \A q \in DOMAIN projects : /\ accounts'[q] \subseteq InternalId
                                    /\ withdrawals'[q] \in Seq(Withdrawal)
  BY <1>1, <1>2 DEF TypesInv
<1> QED
  BY <1>2, <1>3, <1>4, <1>5, WorkCoins

LEMMA FundProjectCoins ==
  ASSUME CoinsInv, NEW p \in Project, FundProject(p)
  PROVE  TypesInv' /\ LedgerOK(ledger)'
<1>1. StoresInv /\ TypesInv
  BY DEF CoinsInv
<1>2. /\ p \in DOMAIN projects /\ SetStatus(p, "FUNDED")
      /\ Get(p, {p}) /\ Move(funds, {Internal(p, p)})
      /\ UNCHANGED <<claims, withdrawals, contracts, pool, params>>
  BY DEF FundProject, IsValidProgression
<1>3. p \in InternalId /\ {Internal(p, p)} \subseteq Account
  BY InternalAccount DEF InternalId
<1>4. exists' \subseteq Account /\ FeeCollector \in exists' /\ funds' = funds
  BY <1>1, <1>2, <1>3, MoveFacts
<1>5. SameTotals(funds, funds')
  BY <1>4, SameCoins
<1>6. /\ DOMAIN projects' = DOMAIN projects
      /\ \A q \in DOMAIN projects : projects'[q].fees = projects[q].fees
  BY <1>1, <1>2, FeesKept
<1>7. \A q \in DOMAIN projects : accounts'[q] \subseteq InternalId
  BY <1>1, <1>2, <1>3, GetFacts
<1>8. /\ claims' \in [DOMAIN claims' -> Claim]
      /\ \A q \in DOMAIN projects : withdrawals'[q] \in Seq(Withdrawal)
  BY <1>1, <1>2 DEF TypesInv
<1> QED
  BY <1>2, <1>4, <1>5, <1>6, <1>7, <1>8, WorkCoins

LEMMA PayOutProjectCoins ==
  ASSUME CoinsInv, NEW p \in Project, PayOutProject(p)
  PROVE  TypesInv' /\ LedgerOK(ledger)' /\ funds' = PaidOut(p)
<1>1. StoresInv /\ TypesInv /\ AccountsAgree /\ funds \in [Account -> CoinSet]
  BY DEF CoinsInv, StoresInv, LedgerOK, ledger
<1> DEFINE created == {Internal(p, id) : id \in FeeAccounts}
<1>2. /\ p \in DOMAIN projects /\ SetStatus(p, "PAIDOUT")
      /\ AddWithdrawal(p, params.ixoDid, FeesHeld(p))
      /\ Get(p, FeeAccounts) /\ Move(PaidOut(p), created)
      /\ UNCHANGED <<claims, contracts, pool, params>>
  BY DEF PayOutProject, IsValidProgression
<1>3. FeeAccounts \subseteq InternalId /\ created \subseteq Account
  <2>1. FeeAccounts \subseteq InternalId
    BY DEF InternalId
  <2> QED
    BY <2>1, InternalAccount
<1> HIDE DEF created
<1>4. exists' \subseteq Account /\ FeeCollector \in exists' /\ funds' = PaidOut(p)
  BY <1>1, <1>2, <1>3, MoveFacts
<1>5. SameTotals(funds, funds')
  BY <1>1, <1>2, <1>4, PaidOutFacts
<1>6. /\ DOMAIN projects' = DOMAIN projects
      /\ \A q \in DOMAIN projects : projects'[q].fees = projects[q].fees
  BY <1>1, <1>2, FeesKept
<1>7. \A q \in DOMAIN projects : accounts'[q] \subseteq InternalId
  BY <1>1, <1>2, <1>3, GetFacts
<1>8. claims' \in [DOMAIN claims' -> Claim]
  BY <1>1, <1>2 DEF TypesInv
<1>9. \A q \in DOMAIN projects : withdrawals'[q] \in Seq(Withdrawal)
  <2>1. FeesHeld(p) \in Nat /\ params.ixoDid \in Did \cup Project
    BY <1>1, <1>2, FeesHeldFacts DEF TypesInv, Params
  <2> QED
    BY <1>1, <1>2, <2>1, WithdrawalFacts
<1> QED
  BY <1>2, <1>4, <1>5, <1>6, <1>7, <1>8, <1>9, WorkCoins

LEMMA CreateAgentCoins ==
  ASSUME CoinsInv, NEW p \in Project, NEW agent \in Agents, CreateAgent(p, agent)
  PROVE  TypesInv' /\ LedgerOK(ledger)'
<1>1. StoresInv /\ TypesInv
  BY DEF CoinsInv
<1>2. /\ p \in DOMAIN projects /\ Get(p, {agent}) /\ Move(funds, {Internal(p, agent)})
      /\ UNCHANGED <<projects, claims, withdrawals, contracts, pool, params>>
  BY DEF CreateAgent
<1>3. agent \in InternalId
  BY ProjectAssumption DEF InternalId
<1>4. {Internal(p, agent)} \subseteq Account
  BY <1>3, InternalAccount
<1>5. exists' \subseteq Account /\ FeeCollector \in exists' /\ funds' = funds
  BY <1>1, <1>2, <1>4, MoveFacts
<1>6. SameTotals(funds, funds')
  BY <1>5, SameCoins
<1>7. \A q \in DOMAIN projects : accounts'[q] \subseteq InternalId
  BY <1>1, <1>2, <1>3, GetFacts
<1>8. /\ claims' \in [DOMAIN claims' -> Claim]
      /\ \A q \in DOMAIN projects : withdrawals'[q] \in Seq(Withdrawal)
  BY <1>1, <1>2 DEF TypesInv
<1> QED
  BY <1>2, <1>5, <1>6, <1>7, <1>8, WorkCoins

LEMMA CreateClaimCoins ==
  ASSUME CoinsInv, NEW p \in Project, NEW claimer \in Agents, NEW id \in ClaimId,
         CreateClaim(p, claimer, id)
  PROVE  TypesInv' /\ LedgerOK(ledger)'
<1> DEFINE claim == [claimer |-> claimer, status |-> "pending"]
<1>1. StoresInv /\ TypesInv
  BY DEF CoinsInv
<1>2. /\ claims' = Store(claims, <<p, id>>, claim)
      /\ UNCHANGED <<projects, accounts, withdrawals, contracts, pool, params>>
      /\ UNCHANGED <<funds, exists>>
  BY DEF CreateClaim, bank
<1>3. claim \in Claim
  BY ProjectAssumption DEF Claim, ClaimStatus
<1> HIDE DEF claim
<1>4. claims' \in [DOMAIN claims' -> Claim]
  BY <1>1, <1>2, <1>3 DEF TypesInv, Store
<1>5. SameTotals(funds, funds')
  BY <1>2, SameCoins
<1>6. /\ exists' \subseteq Account /\ FeeCollector \in exists'
      /\ \A q \in DOMAIN projects : /\ accounts'[q] \subseteq InternalId
                                    /\ withdrawals'[q] \in Seq(Withdrawal)
  BY <1>1, <1>2 DEF TypesInv
<1> QED
  BY <1>2, <1>4, <1>5, <1>6, WorkCoins

LEMMA WithdrawFundsCoins ==
  ASSUME CoinsInv, NEW p \in Project, NEW recipient \in Agents, NEW amount \in Amounts,
         NEW isRefund, WithdrawFunds(p, recipient, amount, isRefund)
  PROVE  /\ TypesInv' /\ LedgerOK(ledger)'
         /\ amount \in Nat \ {0}
         /\ LET from == Internal(p, WithdrawFrom(p, recipient, isRefund))
            IN  /\ from \in Account /\ recipient \in Account /\ from # recipient
                /\ funds[from][Native] >= amount
                /\ funds' = Sent(from, recipient, Coin(amount))
<1> DEFINE id == WithdrawFrom(p, recipient, isRefund)
           from == Internal(p, id)
<1>1. StoresInv /\ TypesInv /\ funds \in [Account -> CoinSet]
  BY DEF CoinsInv, LedgerOK, ledger
<1>2. /\ p \in DOMAIN projects /\ CanSend(from, Coin(amount))
      /\ Get(p, {id}) /\ Move(Sent(from, recipient, Coin(amount)), {from})
      /\ AddWithdrawal(p, recipient, amount)
      /\ UNCHANGED <<projects, claims, contracts, pool, params>>
  BY DEF WithdrawFunds, MayWithdraw
<1>3. /\ recipient \in Did \cup Project /\ amount \in Nat \ {0} /\ Native \in Denom
  BY ProjectAssumption
<1>4. id \in InternalId
  BY <1>3 DEF WithdrawFrom, InternalId
<1>5. from \in Account /\ recipient \in Account
  BY <1>3, <1>4, InternalAccount DEF Account
<1>6. from # recipient
  <2>1. from \in Project \X InternalId
    BY <1>4 DEF Internal
  <2> QED
    BY <1>3, <2>1, ProjectAssumption
<1> HIDE DEF from, id
<1>7. {from} \subseteq Account
  BY <1>5
<1>8. exists' \subseteq Account /\ FeeCollector \in exists'
        /\ funds' = Sent(from, recipient, Coin(amount))
  BY <1>1, <1>2, <1>7, MoveFacts
<1>9. Coin(amount) \in CoinSet /\ Coin(amount)[Native] = amount
  BY <1>3, CoinType
<1>10. Covers(funds[from], Coin(amount)) /\ funds[from][Native] >= amount
  BY <1>2, <1>3, <1>9 DEF CanSend, Covers
<1>11. SameTotals(funds, funds')
  BY <1>1, <1>5, <1>8, <1>9, <1>10, SentFacts
<1>12. \A q \in DOMAIN projects : accounts'[q] \subseteq InternalId
  BY <1>1, <1>2, <1>4, GetFacts
<1>13. \A q \in DOMAIN projects : withdrawals'[q] \in Seq(Withdrawal)
  BY <1>1, <1>2, <1>3, WithdrawalFacts
<1>14. claims' \in [DOMAIN claims' -> Claim]
  BY <1>1, <1>2 DEF TypesInv
<1>15. TypesInv' /\ LedgerOK(ledger)'
  BY <1>2, <1>8, <1>11, <1>12, <1>13, <1>14, WorkCoins
<1> QED
  BY <1>3, <1>5, <1>6, <1>8, <1>10, <1>15 DEF from, id

-----------------------------------------------------------------------------
\* What the contracts of a project for one kind of payment have been paid.
Paid(k, p, type, d) ==
  LET ids == {id \in DOMAIN k : id[1] = p /\ id[3] = type}
  IN  SumOf([id \in ids |-> k[id].cumulativePay[d]], ids)

LEMMA PaidType ==
  ASSUME NEW l, LedgerOK(l), NEW p, NEW type, NEW d \in Denom
  PROVE  Paid(l.contracts, p, type, d) \in Nat
<1> DEFINE ids == {id \in DOMAIN l.contracts : id[1] = p /\ id[3] = type}
           f == [id \in ids |-> l.contracts[id].cumulativePay[d]]
<1>1. IsFiniteSet(ids)
  BY FiniteContracts, FS_Subset
<1>2. \A id \in ids : f[id] \in Nat
  <2>1. \A id \in ids : l.contracts[id] \in PContract
    BY DEF LedgerOK
  <2> QED
    BY <2>1, TemplateType
<1> HIDE DEF ids, f
<1>3. SumOf(f, ids) \in Nat
  BY <1>1, <1>2, SumType
<1> QED
  BY <1>3 DEF Paid, ids, f

\* A payment adds its amount to what has been paid for its kind in its project.
LEMMA PaidAfter ==
  ASSUME NEW l, LedgerOK(l), NEW n, LedgerOK(n), NEW id, NEW pay \in CoinSet,
         DOMAIN n.contracts = DOMAIN l.contracts \cup {id},
         \A i \in DOMAIN l.contracts : i # id => n.contracts[i] = l.contracts[i],
         n.contracts[id].cumulativePay
           = IF id \in DOMAIN l.contracts THEN Add(l.contracts[id].cumulativePay, pay) ELSE pay,
         NEW p, NEW type, NEW d \in Denom
  PROVE  Paid(n.contracts, p, type, d)
           = Paid(l.contracts, p, type, d) + (IF id[1] = p /\ id[3] = type THEN pay[d] ELSE 0)
<1> DEFINE S == {i \in DOMAIN l.contracts : i[1] = p /\ i[3] = type}
           T == {i \in DOMAIN n.contracts : i[1] = p /\ i[3] = type}
           f == [i \in S |-> l.contracts[i].cumulativePay[d]]
           g == [i \in T |-> n.contracts[i].cumulativePay[d]]
<1>1. IsFiniteSet(S) /\ IsFiniteSet(T)
  BY FiniteContracts, FS_Subset
<1>2. \A i \in S : f[i] \in Nat
  <2>1. \A i \in S : l.contracts[i] \in PContract
    BY DEF LedgerOK
  <2> QED
    BY <2>1, TemplateType
<1>3. \A i \in T : g[i] \in Nat
  <2>1. \A i \in T : n.contracts[i] \in PContract
    BY DEF LedgerOK
  <2> QED
    BY <2>1, TemplateType
<1>4. pay[d] \in Nat
  BY DEF CoinSet
<1>5. \A i \in S : i # id => i \in T /\ g[i] = f[i]
  OBVIOUS
<1>6. Paid(n.contracts, p, type, d) = SumOf(g, T) /\ Paid(l.contracts, p, type, d) = SumOf(f, S)
  BY DEF Paid
<1>7. CASE id[1] = p /\ id[3] = type /\ id \in DOMAIN l.contracts
  <2>1. S = T /\ id \in S /\ g[id] = f[id] + pay[d]
    BY <1>7 DEF Add
  <2> HIDE DEF S, T, f, g
  <2>2. SumOf(g, T) = SumOf(f, T) - f[id] + g[id]
    BY <1>1, <1>2, <1>3, <1>5, <2>1, SumUpdate
  <2>3. SumOf(f, T) \in Nat /\ f[id] \in Nat
    BY <1>1, <1>2, <2>1, SumType
  <2> QED
    BY <1>4, <1>6, <1>7, <2>1, <2>2, <2>3
<1>8. CASE id[1] = p /\ id[3] = type /\ id \notin DOMAIN l.contracts
  <2>1. T = S \cup {id} /\ id \notin S /\ g[id] = pay[d] /\ \A i \in S : g[i] = f[i]
    BY <1>8
  <2> HIDE DEF S, T, f, g
  <2>2. SumOf(g, S \cup {id}) = SumOf(g, S) + g[id]
    BY <1>1, <1>3, <1>4, <2>1, SumAdd
  <2>3. SumOf(g, S) = SumOf(f, S)
    BY <2>1, SumCongruence
  <2> QED
    BY <1>6, <1>8, <2>1, <2>2, <2>3
<1>9. CASE ~(id[1] = p /\ id[3] = type)
  <2>1. S = T /\ \A i \in S : g[i] = f[i]
    BY <1>9
  <2> HIDE DEF S, T, f, g
  <2>2. SumOf(g, T) = SumOf(f, S)
    BY <2>1, SumCongruence
  <2>3. SumOf(f, S) \in Nat
    BY <1>1, <1>2, SumType
  <2> QED
    BY <1>6, <1>9, <2>2, <2>3
<1> QED
  BY <1>7, <1>8, <1>9

\* From one ledger to the next: the project has paid this much for one kind.
PaidMore(l, n, p, type, pay) ==
  /\ \A a \in Account : \A d \in Denom :
       n.funds[a][d] >= l.funds[a][d] - (IF a = Internal(p, p) THEN pay[d] ELSE 0)
  /\ \A q, t : \A d \in Denom :
       Paid(n.contracts, q, t, d)
         = Paid(l.contracts, q, t, d) + (IF q = p /\ t = type THEN pay[d] ELSE 0)

LEMMA PaymentMade ==
  ASSUME NEW l, LedgerOK(l), NEW p \in Project, NEW y, PaymentOf(p, y), PaySucceeds(l, p, y),
         NEW n, n = ProcessPay(l, p, y), NEW type, y.id[3] = type
  PROVE  /\ LedgerOK(n)
         /\ \E pay \in CoinSet : /\ Unlimited(y.template) => pay = Templates[y.template].amount
                                 /\ PaidMore(l, n, p, type, pay)
<1>1. PICK id : id = y.id
  OBVIOUS
<1>2. id[1] = p /\ id[3] = type
  BY <1>1 DEF PaymentOf
<1>3. /\ LedgerOK(n)
      /\ DOMAIN n.contracts = DOMAIN l.contracts \cup {id}
      /\ \A i \in DOMAIN l.contracts : i # id => n.contracts[i] = l.contracts[i]
  BY <1>1, ProcessPayFacts
<1>4. \E pay \in CoinSet :
        /\ n.contracts[y.id].cumulativePay
             = IF y.id \in DOMAIN l.contracts
               THEN Add(l.contracts[y.id].cumulativePay, pay) ELSE pay
        /\ Unlimited(y.template) => pay = Templates[y.template].amount
        /\ \A a \in Account : \A d \in Denom :
             n.funds[a][d] >= l.funds[a][d] - (IF a = Internal(p, p) THEN pay[d] ELSE 0)
  BY ProcessPayFacts
<1>5. PICK pay \in CoinSet :
        /\ n.contracts[y.id].cumulativePay
             = IF y.id \in DOMAIN l.contracts
               THEN Add(l.contracts[y.id].cumulativePay, pay) ELSE pay
        /\ Unlimited(y.template) => pay = Templates[y.template].amount
        /\ \A a \in Account : \A d \in Denom :
             n.funds[a][d] >= l.funds[a][d] - (IF a = Internal(p, p) THEN pay[d] ELSE 0)
  BY <1>4
<1>6. n.contracts[id].cumulativePay
        = IF id \in DOMAIN l.contracts THEN Add(l.contracts[id].cumulativePay, pay) ELSE pay
  BY <1>1, <1>5
<1>7. ASSUME NEW q, NEW t, NEW d \in Denom
      PROVE  Paid(n.contracts, q, t, d)
               = Paid(l.contracts, q, t, d) + (IF q = p /\ t = type THEN pay[d] ELSE 0)
  <2>1. Paid(n.contracts, q, t, d)
          = Paid(l.contracts, q, t, d) + (IF id[1] = q /\ id[3] = t THEN pay[d] ELSE 0)
    BY <1>3, <1>6, PaidAfter
  <2> QED
    BY <1>2, <2>1
<1>8. PaidMore(l, n, p, type, pay)
  BY <1>5, <1>7 DEF PaidMore
<1> QED
  BY <1>3, <1>5, <1>8

LEMMA NoPaymentMade ==
  ASSUME NEW l, LedgerOK(l), NEW p, NEW type
  PROVE  NoCoins \in CoinSet /\ PaidMore(l, l, p, type, NoCoins)
<1>1. NoCoins \in CoinSet /\ \A d \in Denom : NoCoins[d] = 0
  BY DEF NoCoins, CoinSet
<1>2. \A a \in Account : \A d \in Denom : l.funds[a][d] \in Nat
  BY DEF LedgerOK, CoinSet
<1>3. \A q, t : \A d \in Denom : Paid(l.contracts, q, t, d) \in Nat
  BY PaidType
<1> QED
  BY <1>1, <1>2, <1>3 DEF PaidMore

\* An evaluation: what the project pays for it, to oracles and to claimers, is what
\* leaves its account at most, and is what its contracts record.
EvaluationPays(p, status, oraclePay, servicePay) ==
  LET fees == projects[p].fees
  IN  /\ ("OracleFee" \in DOMAIN fees /\ Unlimited(fees["OracleFee"]))
           => oraclePay = Templates[fees["OracleFee"]].amount
      /\ ("FeeForService" \in DOMAIN fees /\ Unlimited(fees["FeeForService"]) /\ status = "approved")
           => servicePay = Templates[fees["FeeForService"]].amount
      /\ status # "approved" => servicePay = NoCoins
      /\ \A a \in Account : \A d \in Denom :
           funds'[a][d] >= funds[a][d]
                             - (IF a = Internal(p, p) THEN oraclePay[d] + servicePay[d] ELSE 0)
      /\ \A q : \A d \in Denom :
           /\ PaidFor(q, "OracleFee", d)'
                = PaidFor(q, "OracleFee", d) + (IF q = p THEN oraclePay[d] ELSE 0)
           /\ PaidFor(q, "FeeForService", d)'
                = PaidFor(q, "FeeForService", d) + (IF q = p THEN servicePay[d] ELSE 0)

LEMMA CreateEvaluationCoins ==
  ASSUME CoinsInv, NEW p \in Project, NEW oracle \in Agents, NEW id \in ClaimId,
         NEW status \in ClaimStatus, CreateEvaluation(p, oracle, id, status)
  PROVE  /\ TypesInv' /\ LedgerOK(ledger)'
         /\ \E oraclePay, servicePay \in CoinSet : EvaluationPays(p, status, oraclePay, servicePay)
<1> DEFINE claimer == claims[<<p, id>>].claimer
           first == AfterOraclePay(p, oracle)
           last == AfterServicePay(first, p, claimer, status)
           ids == (IF OracleDue(p) THEN {IxoPayFees, InitiatingNodePayFees, p} ELSE {})
                    \cup (IF ServiceDue(p, status) THEN {p} ELSE {})
           created == {Internal(p, i) : i \in ids}
           yo == OraclePayment(p, oracle)
           ys == ServicePayment(p, claimer)
           fees == projects[p].fees
<1>1. StoresInv /\ TypesInv /\ LedgerOK(ledger)
  BY DEF CoinsInv
<1>2. /\ p \in DOMAIN projects /\ <<p, id>> \in DOMAIN claims
      /\ OracleDue(p) => PaySucceeds(ledger, p, yo)
      /\ ServiceDue(p, status) => PaySucceeds(first, p, ys)
      /\ contracts' = last.contracts /\ pool' = last.pool
      /\ Get(p, ids) /\ Move(last.funds, created)
      /\ claims' = [claims EXCEPT ![<<p, id>>].status = status]
      /\ UNCHANGED <<projects, withdrawals, params>>
  BY DEF CreateEvaluation, CanEvaluate, Started, Pending
<1>3. oracle \in Did \cup Project /\ claims[<<p, id>>] \in Claim /\ claimer \in Did \cup Project
  BY <1>1, <1>2, ProjectAssumption DEF TypesInv, Claim
<1>4. OracleDue(p) => PaymentOf(p, yo)
  BY <1>1, <1>2, <1>3, OraclePaymentOf
<1>5. ServiceDue(p, status) => PaymentOf(p, ys)
  BY <1>1, <1>2, <1>3, ServicePaymentOf DEF ServiceDue
<1>6. /\ yo.id[3] = "OracleFee" /\ yo.template = fees["OracleFee"]
      /\ ys.id[3] = "FeeForService" /\ ys.template = fees["FeeForService"]
  BY DEF OraclePayment, ServicePayment, Payment
<1>7. ids \subseteq InternalId
  BY DEF InternalId, FeeAccounts
<1>8. created \subseteq Account
  BY <1>7, InternalAccount
<1>9. /\ first = IF OracleDue(p) THEN ProcessPay(ledger, p, yo) ELSE ledger
      /\ last = IF ServiceDue(p, status) THEN ProcessPay(first, p, ys) ELSE first
  BY DEF AfterOraclePay, AfterServicePay
<1> HIDE DEF claimer, first, last, ids, created, yo, ys
<1>11. /\ LedgerOK(first)
       /\ \E pay \in CoinSet :
            /\ ~OracleDue(p) => pay = NoCoins
            /\ (OracleDue(p) /\ Unlimited(yo.template)) => pay = Templates[yo.template].amount
            /\ PaidMore(ledger, first, p, "OracleFee", pay)
  <2>1. CASE OracleDue(p)
    <3>1. /\ LedgerOK(first)
          /\ \E pay \in CoinSet : /\ Unlimited(yo.template) => pay = Templates[yo.template].amount
                                  /\ PaidMore(ledger, first, p, "OracleFee", pay)
      BY <1>1, <1>2, <1>4, <1>6, <1>9, <2>1, PaymentMade
    <3> QED
      BY <2>1, <3>1
  <2>2. CASE ~OracleDue(p)
    <3>1. first = ledger
      BY <1>9, <2>2
    <3>2. NoCoins \in CoinSet /\ PaidMore(ledger, first, p, "OracleFee", NoCoins)
      BY <1>1, <3>1, NoPaymentMade
    <3> QED
      BY <1>1, <2>2, <3>1, <3>2
  <2> QED
    BY <2>1, <2>2
<1>12. /\ LedgerOK(last)
       /\ \E pay \in CoinSet :
            /\ ~ServiceDue(p, status) => pay = NoCoins
            /\ (ServiceDue(p, status) /\ Unlimited(ys.template)) => pay = Templates[ys.template].amount
            /\ PaidMore(first, last, p, "FeeForService", pay)
  <2>1. CASE ServiceDue(p, status)
    <3>1. /\ LedgerOK(last)
          /\ \E pay \in CoinSet : /\ Unlimited(ys.template) => pay = Templates[ys.template].amount
                                  /\ PaidMore(first, last, p, "FeeForService", pay)
      BY <1>2, <1>5, <1>6, <1>9, <1>11, <2>1, PaymentMade
    <3> QED
      BY <2>1, <3>1
  <2>2. CASE ~ServiceDue(p, status)
    <3>1. last = first
      BY <1>9, <2>2
    <3>2. NoCoins \in CoinSet /\ PaidMore(first, last, p, "FeeForService", NoCoins)
      BY <1>11, <3>1, NoPaymentMade
    <3> QED
      BY <1>11, <2>2, <3>1, <3>2
  <2> QED
    BY <2>1, <2>2
<1>13. PICK po \in CoinSet :
            /\ ~OracleDue(p) => po = NoCoins
            /\ (OracleDue(p) /\ Unlimited(yo.template)) => po = Templates[yo.template].amount
            /\ PaidMore(ledger, first, p, "OracleFee", po)
  BY <1>11
<1>14. PICK ps \in CoinSet :
            /\ ~ServiceDue(p, status) => ps = NoCoins
            /\ (ServiceDue(p, status) /\ Unlimited(ys.template)) => ps = Templates[ys.template].amount
            /\ PaidMore(first, last, p, "FeeForService", ps)
  BY <1>12
<1>15. exists' \subseteq Account /\ FeeCollector \in exists' /\ funds' = last.funds
  BY <1>1, <1>2, <1>8, MoveFacts
<1>16. LedgerOK(ledger)'
  BY <1>2, <1>12, <1>15, LedgerPaid
<1>17. TypesInv'
  <2>1. \A q \in DOMAIN projects : accounts'[q] \subseteq InternalId
    BY <1>1, <1>2, <1>7, GetFacts
  <2>2. claims' \in [DOMAIN claims' -> Claim]
    <3>1. [claims[<<p, id>>] EXCEPT !.status = status] \in Claim
      BY <1>3 DEF Claim
    <3>2. claims' = [claims EXCEPT ![<<p, id>>] = [claims[<<p, id>>] EXCEPT !.status = status]]
      BY <1>2
    <3> QED
      BY <1>1, <3>1, <3>2 DEF TypesInv
  <2> QED
    BY <1>1, <1>2, <1>15, <2>1, <2>2 DEF TypesInv
<1>18. ledger.funds = funds /\ ledger.contracts = contracts
  BY DEF ledger
<1>19. ASSUME NEW a \in Account, NEW d \in Denom
       PROVE  funds'[a][d] >= funds[a][d]
                                - (IF a = Internal(p, p) THEN po[d] + ps[d] ELSE 0)
  <2>1. /\ po[d] \in Nat /\ ps[d] \in Nat /\ funds[a][d] \in Nat
        /\ first.funds[a][d] \in Nat /\ last.funds[a][d] \in Nat
    BY <1>1, <1>11, <1>12, <1>18 DEF LedgerOK, CoinSet
  <2>2. /\ first.funds[a][d] >= funds[a][d] - (IF a = Internal(p, p) THEN po[d] ELSE 0)
        /\ last.funds[a][d] >= first.funds[a][d] - (IF a = Internal(p, p) THEN ps[d] ELSE 0)
    BY <1>13, <1>14, <1>18 DEF PaidMore
  <2> QED
    BY <1>15, <2>1, <2>2
<1>20. ASSUME NEW q, NEW d \in Denom
       PROVE  /\ Paid(contracts', q, "OracleFee", d)
                   = Paid(contracts, q, "OracleFee", d) + (IF q = p THEN po[d] ELSE 0)
              /\ Paid(contracts', q, "FeeForService", d)
                   = Paid(contracts, q, "FeeForService", d) + (IF q = p THEN ps[d] ELSE 0)
  <2>1. \A type : /\ Paid(contracts, q, type, d) \in Nat
                  /\ Paid(first.contracts, q, type, d) \in Nat
                  /\ Paid(contracts', q, type, d) \in Nat
    BY <1>1, <1>2, <1>11, <1>12, <1>18, PaidType
  <2>2. /\ Paid(first.contracts, q, "OracleFee", d)
             = Paid(contracts, q, "OracleFee", d) + (IF q = p THEN po[d] ELSE 0)
        /\ Paid(first.contracts, q, "FeeForService", d) = Paid(contracts, q, "FeeForService", d) + 0
    BY <1>13, <1>18 DEF PaidMore
  <2>3. /\ Paid(contracts', q, "OracleFee", d) = Paid(first.contracts, q, "OracleFee", d) + 0
        /\ Paid(contracts', q, "FeeForService", d)
             = Paid(first.contracts, q, "FeeForService", d) + (IF q = p THEN ps[d] ELSE 0)
    BY <1>2, <1>14 DEF PaidMore
  <2> QED
    BY <2>1, <2>2, <2>3
<1>21. EvaluationPays(p, status, po, ps)
  <2>1. ("OracleFee" \in DOMAIN fees /\ Unlimited(fees["OracleFee"]))
           => po = Templates[fees["OracleFee"]].amount
    BY <1>6, <1>13 DEF OracleDue
  <2>2. /\ ("FeeForService" \in DOMAIN fees /\ Unlimited(fees["FeeForService"]) /\ status = "approved")
             => ps = Templates[fees["FeeForService"]].amount
        /\ status # "approved" => ps = NoCoins
    BY <1>6, <1>14 DEF ServiceDue
  <2> QED
    BY <1>19, <1>20, <2>1, <2>2 DEF EvaluationPays, PaidFor, Paid
<1> QED
  BY <1>16, <1>17, <1>21

-----------------------------------------------------------------------------
LEMMA CoinsInit == Init => CoinsInv
<1> SUFFICES ASSUME Init PROVE CoinsInv
  OBVIOUS
<1>1. /\ DOMAIN projects = {} /\ DOMAIN claims = {} /\ DOMAIN contracts = {}
      /\ claims \in [{} -> Claim] /\ contracts \in [{} -> PContract]
      /\ funds = InitialFunds /\ pool = NoCoins
      /\ exists = {FeeCollector} \cup {a \in Account : InitialFunds[a] # NoCoins}
      /\ params \in ParamChoices
  BY DEF Init, Empty
<1>2. StoresInv
  BY StoresInit
<1>3. TypesInv
  <2>1. FeeCollector \in Account /\ ParamChoices \subseteq Params
    BY ProjectAssumption DEF Account
  <2> QED
    BY <1>1, <2>1 DEF TypesInv
<1>4. /\ ledger.funds = funds /\ ledger.pool = pool /\ ledger.contracts = contracts
      /\ ledger = [funds |-> ledger.funds, pool |-> ledger.pool, contracts |-> ledger.contracts]
  BY DEF ledger
<1>5. ASSUME NEW d \in Denom
      PROVE  /\ SumOf([a \in Account |-> funds[a][d]], Account) + pool[d]
                  = SumOf([a \in Account |-> InitialFunds[a][d]], Account)
             /\ pool[d] = SumOf([id \in DOMAIN contracts |-> contracts[id].currentRemainder[d]],
                                DOMAIN contracts)
  <2> DEFINE before == [a \in Account |-> InitialFunds[a][d]]
             g == [id \in DOMAIN contracts |-> contracts[id].currentRemainder[d]]
  <2>1. \A a \in Account : before[a] \in Nat
    BY ProjectAssumption DEF CoinSet
  <2> HIDE DEF before, g
  <2>2. SumOf(before, Account) \in Nat
    BY <2>1, SumType, AccountsFinite
  <2>3. SumOf(g, {}) = 0
    BY SumEmpty
  <2>4. pool[d] = 0
    BY <1>1 DEF NoCoins
  <2> QED
    BY <1>1, <2>2, <2>3, <2>4 DEF before, g
<1>6. funds \in [Account -> CoinSet] /\ pool \in CoinSet
  BY <1>1, ProjectAssumption DEF NoCoins, CoinSet
<1>7. LedgerOK(ledger)
  <2> HIDE DEF ledger
  <2> QED
    BY <1>1, <1>4, <1>5, <1>6 DEF LedgerOK
<1> QED
  BY <1>2, <1>3, <1>7 DEF CoinsInv

LEMMA CoinsNext == CoinsInv /\ [Next]_vars => CoinsInv'
<1> SUFFICES ASSUME CoinsInv, [Next]_vars PROVE TypesInv' /\ LedgerOK(ledger)'
  BY StoresNext DEF CoinsInv
<1>1. ASSUME NEW s \in Did, NEW p \in Project, NEW f \in FeesMaps, CreateProject(s, p, f)
      PROVE  TypesInv' /\ LedgerOK(ledger)'
  BY <1>1, CreateProjectCoins
<1>2. ASSUME NEW s \in Did, NEW p \in Project, NEW f \in FeesMaps,
             FailToCreateProject(s, p, f)
      PROVE  TypesInv' /\ LedgerOK(ledger)'
  BY <1>2, FailToCreateProjectCoins
<1>3. ASSUME NEW p \in Project, NEW s \in Status, UpdateProjectStatus(p, s)
      PROVE  TypesInv' /\ LedgerOK(ledger)'
  BY <1>3, UpdateProjectStatusCoins
<1>4. ASSUME NEW p \in Project, FundProject(p) PROVE TypesInv' /\ LedgerOK(ledger)'
  BY <1>4, FundProjectCoins
<1>5. ASSUME NEW p \in Project, PayOutProject(p) PROVE TypesInv' /\ LedgerOK(ledger)'
  BY <1>5, PayOutProjectCoins
<1>6. ASSUME NEW p \in Project, NEW a \in Agents, CreateAgent(p, a)
      PROVE  TypesInv' /\ LedgerOK(ledger)'
  BY <1>6, CreateAgentCoins
<1>7. ASSUME NEW p \in Project, NEW c \in Agents, NEW i \in ClaimId, CreateClaim(p, c, i)
      PROVE  TypesInv' /\ LedgerOK(ledger)'
  BY <1>7, CreateClaimCoins
<1>8. ASSUME NEW p \in Project, NEW o \in Agents, NEW i \in ClaimId, NEW s \in ClaimStatus,
             CreateEvaluation(p, o, i, s)
      PROVE  TypesInv' /\ LedgerOK(ledger)'
  BY <1>8, CreateEvaluationCoins
<1>9. ASSUME NEW p \in Project, NEW r \in Agents, NEW n \in Amounts, NEW b \in BOOLEAN,
             WithdrawFunds(p, r, n, b)
      PROVE  TypesInv' /\ LedgerOK(ledger)'
  BY <1>9, WithdrawFundsCoins
<1>10. ASSUME NEW a \in Did, NEW b \in SendTargets, NEW c \in SendAmounts, Send(a, b, c)
       PROVE  TypesInv' /\ LedgerOK(ledger)'
  BY <1>10, SendCoins
<1>11. ASSUME NEW new \in ParamChoices, ChangeParams(new)
       PROVE  TypesInv' /\ LedgerOK(ledger)'
  BY <1>11, ChangeParamsCoins
<1>12. CASE UNCHANGED vars
  <2>1. UNCHANGED <<docs, contracts, pool, funds, exists, params>>
    BY <1>12 DEF vars, bank
  <2>2. /\ exists' \subseteq Account /\ FeeCollector \in exists' /\ params' \in Params
        /\ SameTotals(funds, funds')
    BY <2>1, SameCoins DEF CoinsInv, TypesInv
  <2> QED
    BY <2>1, <2>2, DocsKept
<1> QED
  BY <1>1, <1>2, <1>3, <1>4, <1>5, <1>6, <1>7, <1>8, <1>9, <1>10, <1>11, <1>12 DEF Next

\* Every contract belongs to a project and pays from its account, the coins of all
\* accounts and of the pool are those there were at the start, and the pool holds the
\* remainders of the contracts, through all evaluations, payouts and withdrawals.
THEOREM CoinsInvariant == Spec => []CoinsInv
<1> QED
  BY CoinsInit, CoinsNext, PTL DEF Spec

\* The records of types/types.go and types/docs.go keep their types, and no balance
\* is ever negative.
THEOREM TypeCorrect == Spec => []TypeOK
<1>1. CoinsInv => TypeOK
  <2> SUFFICES ASSUME CoinsInv PROVE TypeOK
    OBVIOUS
  <2>1. StoresByProject /\ TypesInv
    BY DEF CoinsInv, StoresInv
  <2>2. /\ funds \in [Account -> CoinSet] /\ pool \in CoinSet
        /\ DOMAIN contracts \subseteq ContractId
    BY DEF CoinsInv, LedgerOK, ledger
  <2>3. \A p \in DOMAIN projects : /\ projects[p].creator \in Did /\ projects[p].status \in Status
                                   /\ projects[p].fees \in FeesMaps
    BY <2>1 DEF StoresByProject, Doc
  <2> QED
    BY <2>1, <2>2, <2>3 DEF TypeOK, StoresByProject, TypesInv
<1> QED
  BY <1>1, CoinsInvariant, PTL

\* Creation, payments, payouts and withdrawals make and lose no coins, and the pool of
\* the payments module holds what the contracts say is left over (processPay,
\* payoutFees, payoutAndRecon).
THEOREM CoinsCorrect == Spec => []CoinsAccounted
<1>1. CoinsInv => CoinsAccounted
  <2> SUFFICES ASSUME CoinsInv PROVE CoinsAccounted
    OBVIOUS
  <2>1. /\ LedgerOK(ledger)
        /\ ledger.funds = funds /\ ledger.pool = pool /\ ledger.contracts = contracts
    BY DEF CoinsInv, ledger
  <2> HIDE DEF ledger
  <2> QED
    BY <2>1 DEF CoinsAccounted, CoinsConserved, PoolIsRemainders, LedgerOK
<1> QED
  BY <1>1, CoinsInvariant, PTL

-----------------------------------------------------------------------------
(***************************************************************************)
(* Evaluations and what is paid for them                                   *)
(***************************************************************************)
EvaluationPaid(p, d) ==
  LET fees == projects[p].fees
  IN  /\ ("FeeForService" \in DOMAIN fees /\ Unlimited(fees["FeeForService"])) =>
           PaidFor(p, "FeeForService", d) =
             Templates[fees["FeeForService"]].amount[d] * Cardinality(ClaimsOf(p, {"approved"}))
      /\ ("OracleFee" \in DOMAIN fees /\ Unlimited(fees["OracleFee"])) =>
           PaidFor(p, "OracleFee", d) >=
             Templates[fees["OracleFee"]].amount[d]
               * Cardinality(ClaimsOf(p, {"approved", "rejected"}))

\* Nothing that the payments for a project depend on has changed.
LEMMA EvaluationPaidKept ==
  ASSUME NEW p \in DOMAIN projects, NEW d \in Denom, EvaluationPaid(p, d),
         projects'[p].fees = projects[p].fees, UNCHANGED contracts,
         ClaimsOf(p, {"approved"})' = ClaimsOf(p, {"approved"}),
         ClaimsOf(p, {"approved", "rejected"})' = ClaimsOf(p, {"approved", "rejected"})
  PROVE  EvaluationPaid(p, d)'
<1>1. \A type : PaidFor(p, type, d)' = PaidFor(p, type, d)
  BY DEF PaidFor
<1> QED
  BY <1>1, Zenon DEF EvaluationPaid, Unlimited, NoCoins

LEMMA ClaimsFinite ==
  ASSUME NEW p, NEW statuses
  PROVE  /\ IsFiniteSet(ClaimsOf(p, statuses))
         /\ Cardinality(ClaimsOf(p, statuses)) \in Nat
<1>1. ClaimsOf(p, statuses) \subseteq ClaimId /\ IsFiniteSet(ClaimId)
  BY ProjectAssumption DEF ClaimsOf
<1> QED
  BY <1>1, FS_Subset, FS_CardinalityType

LEMMA NewProjectPaid ==
  ASSUME CoinsInv, NEW sender \in Did, NEW p \in Project, NEW fees \in FeesMaps,
         CreateProject(sender, p, fees), NEW d \in Denom
  PROVE  EvaluationPaid(p, d)'
<1>1. p \notin DOMAIN projects /\ UNCHANGED <<claims, contracts>>
  BY DEF CreateProject, CanCreateProject
<1>2. StoresByProject
  BY DEF CoinsInv, StoresInv
<1>3. \A type : PaidFor(p, type, d)' = 0
  <2> SUFFICES ASSUME NEW type PROVE PaidFor(p, type, d)' = 0
    OBVIOUS
  <2> DEFINE f == [id \in {} |-> contracts[id].cumulativePay[d]]
  <2>1. {id \in DOMAIN contracts : id[1] = p /\ id[3] = type} = {}
    BY <1>1, <1>2 DEF StoresByProject
  <2>2. PaidFor(p, type, d)' = SumOf(f, {})
    BY <1>1, <2>1 DEF PaidFor
  <2> HIDE DEF f
  <2> QED
    BY <2>2, SumEmpty
<1>4. \A statuses : ClaimsOf(p, statuses)' = {}
  BY <1>1, <1>2 DEF StoresByProject, ClaimsOf
<1>5. Cardinality({}) = 0
  BY FS_EmptySet
<1>6. Cardinality(ClaimsOf(p, {"approved"})') = 0
      /\ Cardinality(ClaimsOf(p, {"approved", "rejected"})') = 0
  BY <1>4, <1>5
<1>7. /\ TypesInv' /\ p \in DOMAIN projects'
  <2>1. projects' = Store(projects, p, [creator |-> sender, status |-> "", fees |-> fees])
    BY DEF CreateProject
  <2>2. p \in DOMAIN projects'
    BY <2>1 DEF Store
  <2> QED
    BY <2>2, CreateProjectCoins
<1>8. \A type \in DOMAIN projects'[p].fees :
        /\ projects'[p].fees[type] \in DOMAIN Templates
        /\ Templates[projects'[p].fees[type]].amount[d] * 0 = 0
  <2>1. \A type \in DOMAIN projects'[p].fees : projects'[p].fees[type] \in DOMAIN Templates
    BY <1>7 DEF TypesInv
  <2>2. \A t \in DOMAIN Templates : Templates[t].amount[d] \in Nat
    BY ProjectAssumption DEF CoinSet
  <2> QED
    BY <2>1, <2>2
<1> QED
  BY <1>3, <1>6, <1>8 DEF EvaluationPaid

LEMMA PriceTimes ==
  ASSUME NEW a \in Nat, NEW n \in Nat
  PROVE  a * (n + 1) = a * n + a
  OBVIOUS

LEMMA EvaluatedPaid ==
  ASSUME CoinsInv, NEW p \in Project, NEW oracle \in Agents, NEW id \in ClaimId,
         NEW status \in ClaimStatus, CreateEvaluation(p, oracle, id, status),
         NEW q \in DOMAIN projects, NEW d \in Denom, EvaluationPaid(q, d)
  PROVE  EvaluationPaid(q, d)'
<1>1. PICK po \in CoinSet : \E ps \in CoinSet : EvaluationPays(p, status, po, ps)
  BY CreateEvaluationCoins
<1>2. PICK ps \in CoinSet : EvaluationPays(p, status, po, ps)
  BY <1>1
<1>3. /\ p \in DOMAIN projects /\ <<p, id>> \in DOMAIN claims
      /\ claims[<<p, id>>].status = "pending"
      /\ claims' = [claims EXCEPT ![<<p, id>>].status = status]
      /\ UNCHANGED projects
  BY DEF CreateEvaluation, CanEvaluate, Started, Pending
<1>4. claims \in [DOMAIN claims -> Claim] /\ LedgerOK(ledger) /\ ledger.contracts = contracts
  BY DEF CoinsInv, TypesInv, ledger
<1>5. /\ DOMAIN claims' = DOMAIN claims
      /\ claims'[<<p, id>>].status = status
      /\ \A i \in DOMAIN claims : i # <<p, id>> => claims'[i] = claims[i]
  <2>1. claims' = [claims EXCEPT ![<<p, id>>] = [claims[<<p, id>>] EXCEPT !.status = status]]
    BY <1>3
  <2>2. claims[<<p, id>>] \in Claim
    BY <1>3, <1>4
  <2>3. [claims[<<p, id>>] EXCEPT !.status = status].status = status
    BY <2>2 DEF Claim
  <2> QED
    BY <1>3, <2>1, <2>3
<1>6. /\ \A type : PaidFor(q, type, d) = Paid(contracts, q, type, d)
      /\ \A type : Paid(contracts, q, type, d) \in Nat
  <2>1. \A type : PaidFor(q, type, d) = Paid(contracts, q, type, d)
    BY DEF PaidFor, Paid
  <2> QED
    BY <1>4, <2>1, PaidType
<1>7. \A type : PaidFor(q, type, d) \in Nat
  BY <1>6
<1>8. /\ PaidFor(q, "OracleFee", d)'
           = PaidFor(q, "OracleFee", d) + (IF q = p THEN po[d] ELSE 0)
      /\ PaidFor(q, "FeeForService", d)'
           = PaidFor(q, "FeeForService", d) + (IF q = p THEN ps[d] ELSE 0)
  BY <1>2 DEF EvaluationPays
<1> DEFINE fees == projects[q].fees
           approved == ClaimsOf(q, {"approved"})
           evaluated == ClaimsOf(q, {"approved", "rejected"})
<1>9. CASE q # p
  <2>1. \A statuses : ClaimsOf(q, statuses)' = ClaimsOf(q, statuses)
    <3>1. \A i \in ClaimId : <<q, i>> \in DOMAIN claims => claims'[<<q, i>>] = claims[<<q, i>>]
      BY <1>5, <1>9
    <3> QED
      BY <1>5, <3>1 DEF ClaimsOf
  <2>2. /\ PaidFor(q, "OracleFee", d)' = PaidFor(q, "OracleFee", d)
        /\ PaidFor(q, "FeeForService", d)' = PaidFor(q, "FeeForService", d)
    BY <1>7, <1>8, <1>9
  <2>3. approved' = approved /\ evaluated' = evaluated /\ fees' = fees
    BY <1>3, <2>1
  <2> HIDE DEF approved, evaluated
  <2> QED
    BY <2>2, <2>3, <1>3, Zenon DEF EvaluationPaid, Unlimited, NoCoins, approved, evaluated
<1>10. CASE q = p
  <2>1. \A statuses : "pending" \notin statuses =>
          ClaimsOf(p, statuses)' = ClaimsOf(p, statuses)
                                     \cup (IF status \in statuses THEN {id} ELSE {})
    <3>1. \A i \in ClaimId : i # id =>
            (<<p, i>> \in DOMAIN claims => claims'[<<p, i>>] = claims[<<p, i>>])
      BY <1>5
    <3>2. SUFFICES ASSUME NEW statuses, "pending" \notin statuses, NEW i
                   PROVE  i \in ClaimsOf(p, statuses)' <=>
                            i \in ClaimsOf(p, statuses)
                              \cup (IF status \in statuses THEN {id} ELSE {})
      OBVIOUS
    <3>3. CASE i = id
      BY <1>3, <1>5, <3>2, <3>3 DEF ClaimsOf
    <3>4. CASE i # id
      BY <1>5, <3>1, <3>4 DEF ClaimsOf
    <3> QED
      BY <3>3, <3>4
  <2>2. /\ approved' = approved \cup (IF status = "approved" THEN {id} ELSE {})
        /\ evaluated' = evaluated \cup (IF status \in {"approved", "rejected"} THEN {id} ELSE {})
        /\ id \notin approved /\ id \notin evaluated
    <3>1. id \notin approved /\ id \notin evaluated
      BY <1>3, <1>10 DEF ClaimsOf
    <3>2. "pending" \notin {"approved"} /\ "pending" \notin {"approved", "rejected"}
      OBVIOUS
    <3>3. status \in {"approved"} <=> status = "approved"
      OBVIOUS
    <3> QED
      BY <1>10, <2>1, <3>1, <3>2, <3>3
  <2>3. /\ IsFiniteSet(approved) /\ IsFiniteSet(evaluated)
        /\ Cardinality(approved) \in Nat /\ Cardinality(evaluated) \in Nat
    BY ClaimsFinite
  <2> HIDE DEF approved, evaluated
  <2>4. \/ Cardinality(evaluated') = Cardinality(evaluated)
        \/ Cardinality(evaluated') = Cardinality(evaluated) + 1
    BY <2>2, <2>3, FS_AddElement
  <2>5. Cardinality(approved') = Cardinality(approved) + (IF status = "approved" THEN 1 ELSE 0)
    <3>1. CASE status = "approved"
      <4>1. approved' = approved \cup {id} /\ id \notin approved
        BY <2>2, <3>1
      <4>2. Cardinality(approved \cup {id}) = Cardinality(approved) + 1
        BY <2>3, <4>1, FS_AddElement
      <4> QED
        BY <3>1, <4>1, <4>2
    <3>2. CASE status # "approved"
      <4>1. approved' = approved
        BY <2>2, <3>2
      <4> QED
        BY <2>3, <3>2, <4>1
    <3> QED
      BY <3>1, <3>2
  <2>6. ASSUME "FeeForService" \in DOMAIN fees, Unlimited(fees["FeeForService"])
        PROVE  PaidFor(q, "FeeForService", d)' =
                 Templates[fees["FeeForService"]].amount[d] * Cardinality(approved')
    <3> DEFINE a == Templates[fees["FeeForService"]].amount[d]
               k == Cardinality(approved)
               m == PaidFor(q, "FeeForService", d)
    <3>1. a \in Nat
      <4>1. fees["FeeForService"] \in DOMAIN Templates
        BY <1>3, <1>10, <2>6 DEF CoinsInv, TypesInv
      <4> QED
        BY <4>1, ProjectAssumption DEF CoinSet
    <3>2. m = a * k
      BY <2>6 DEF EvaluationPaid, approved
    <3>3. ps[d] = IF status = "approved" THEN a ELSE 0
      BY <1>2, <1>10, <2>6 DEF EvaluationPays, NoCoins
    <3>4. PaidFor(q, "FeeForService", d)' = m + ps[d]
      BY <1>8, <1>10
    <3>5. k \in Nat /\ Cardinality(approved') = k + (IF status = "approved" THEN 1 ELSE 0)
      BY <2>3, <2>5
    <3> HIDE DEF a, k, m
    <3>6. a * (k + 1) = a * k + a /\ a * k \in Nat
      BY <3>1, <3>5, PriceTimes
    <3>7. PaidFor(q, "FeeForService", d)' = a * Cardinality(approved')
      BY <3>1, <3>2, <3>3, <3>4, <3>5, <3>6
    <3> QED
      BY <3>7 DEF a
  <2>7. ASSUME "OracleFee" \in DOMAIN fees, Unlimited(fees["OracleFee"])
        PROVE  PaidFor(q, "OracleFee", d)' >=
                 Templates[fees["OracleFee"]].amount[d] * Cardinality(evaluated')
    <3> DEFINE a == Templates[fees["OracleFee"]].amount[d]
               k == Cardinality(evaluated)
               m == PaidFor(q, "OracleFee", d)
    <3>1. a \in Nat
      <4>1. fees["OracleFee"] \in DOMAIN Templates
        BY <1>3, <1>10, <2>7 DEF CoinsInv, TypesInv
      <4> QED
        BY <4>1, ProjectAssumption DEF CoinSet
    <3>2. m >= a * k /\ m \in Nat
      BY <1>7, <2>7 DEF EvaluationPaid, evaluated
    <3>3. po[d] = a
      BY <1>2, <1>10, <2>7 DEF EvaluationPays
    <3>4. PaidFor(q, "OracleFee", d)' = m + po[d]
      BY <1>8, <1>10
    <3>5. k \in Nat /\ (Cardinality(evaluated') = k \/ Cardinality(evaluated') = k + 1)
      BY <2>3, <2>4
    <3> HIDE DEF a, k, m
    <3>6. a * (k + 1) = a * k + a /\ a * k \in Nat
      BY <3>1, <3>5, PriceTimes
    <3>7. PaidFor(q, "OracleFee", d)' >= a * Cardinality(evaluated')
      BY <3>1, <3>2, <3>3, <3>4, <3>5, <3>6
    <3> QED
      BY <3>7 DEF a
  <2> QED
    BY <1>3, <2>6, <2>7 DEF EvaluationPaid, Unlimited, NoCoins, approved, evaluated
<1> QED
  BY <1>9, <1>10

\* Steps that leave the claims and contracts of existing projects alone.
LEMMA EvaluationsKept ==
  ASSUME EvaluationsArePaid, UNCHANGED <<claims, contracts>>,
         DOMAIN projects' = DOMAIN projects,
         \A q \in DOMAIN projects : projects'[q].fees = projects[q].fees
  PROVE  EvaluationsArePaid'
<1>1. \A q, statuses : ClaimsOf(q, statuses)' = ClaimsOf(q, statuses)
  BY DEF ClaimsOf
<1>2. ASSUME NEW q \in DOMAIN projects, NEW d \in Denom PROVE EvaluationPaid(q, d)'
  <2>1. EvaluationPaid(q, d)
    BY DEF EvaluationsArePaid, EvaluationPaid
  <2> QED
    BY <1>1, <2>1, EvaluationPaidKept
<1> QED
  BY <1>2 DEF EvaluationsArePaid, EvaluationPaid

LEMMA EvaluationsNext ==
  CoinsInv /\ EvaluationsArePaid /\ [Next]_vars => EvaluationsArePaid'
<1> SUFFICES ASSUME CoinsInv, EvaluationsArePaid, [Next]_vars PROVE EvaluationsArePaid'
  OBVIOUS
<1>a. StoresInv
  BY DEF CoinsInv
<1>b. \A q \in DOMAIN projects : \A d \in Denom : EvaluationPaid(q, d)
  BY DEF EvaluationsArePaid, EvaluationPaid
<1>1. ASSUME NEW s \in Did, NEW p \in Project, NEW f \in FeesMaps, CreateProject(s, p, f)
      PROVE  EvaluationsArePaid'
  <2>1. /\ projects' = Store(projects, p, [creator |-> s, status |-> "", fees |-> f])
        /\ p \notin DOMAIN projects /\ UNCHANGED <<claims, contracts>>
    BY <1>1 DEF CreateProject, CanCreateProject
  <2>2. /\ DOMAIN projects' = DOMAIN projects \cup {p}
        /\ \A q \in DOMAIN projects : projects'[q] = projects[q]
    BY <2>1 DEF Store
  <2>3. \A q, statuses : ClaimsOf(q, statuses)' = ClaimsOf(q, statuses)
    BY <2>1 DEF ClaimsOf
  <2>4. ASSUME NEW q \in DOMAIN projects', NEW d \in Denom PROVE EvaluationPaid(q, d)'
    <3>1. CASE q = p
      BY <1>1, <3>1, NewProjectPaid
    <3>2. CASE q \in DOMAIN projects
      BY <1>b, <2>1, <2>2, <2>3, <3>2, EvaluationPaidKept
    <3> QED
      BY <2>2, <3>1, <3>2
  <2> QED
    BY <2>4 DEF EvaluationsArePaid, EvaluationPaid
<1>2. ASSUME NEW s \in Did, NEW p \in Project, NEW f \in FeesMaps,
             FailToCreateProject(s, p, f)
      PROVE  EvaluationsArePaid'
  BY <1>2, EvaluationsKept DEF FailToCreateProject, docs
<1>3. ASSUME NEW p \in DOMAIN projects, NEW s, SetStatus(p, s), UNCHANGED <<claims, contracts>>
      PROVE  EvaluationsArePaid'
  BY <1>3, <1>a, FeesKept, EvaluationsKept
<1>4. ASSUME NEW p \in Project, NEW s \in Status, UpdateProjectStatus(p, s)
      PROVE  EvaluationsArePaid'
  BY <1>3, <1>4 DEF UpdateProjectStatus, IsValidProgression
<1>5. ASSUME NEW p \in Project, FundProject(p) PROVE EvaluationsArePaid'
  BY <1>3, <1>5 DEF FundProject, IsValidProgression
<1>6. ASSUME NEW p \in Project, PayOutProject(p) PROVE EvaluationsArePaid'
  BY <1>3, <1>6 DEF PayOutProject, IsValidProgression
<1>7. ASSUME NEW p \in Project, NEW a \in Agents, CreateAgent(p, a) PROVE EvaluationsArePaid'
  BY <1>7, EvaluationsKept DEF CreateAgent
<1>8. ASSUME NEW p \in Project, NEW c \in Agents, NEW i \in ClaimId, CreateClaim(p, c, i)
      PROVE  EvaluationsArePaid'
  <2>1. /\ claims' = Store(claims, <<p, i>>, [claimer |-> c, status |-> "pending"])
        /\ <<p, i>> \notin DOMAIN claims /\ UNCHANGED <<projects, contracts>>
    BY <1>8 DEF CreateClaim, CanClaim
  <2>2. /\ DOMAIN claims' = DOMAIN claims \cup {<<p, i>>}
        /\ claims'[<<p, i>>].status = "pending"
        /\ \A k \in DOMAIN claims : claims'[k] = claims[k]
    BY <2>1 DEF Store
  <2>3. ASSUME NEW q, NEW statuses, "pending" \notin statuses
        PROVE  ClaimsOf(q, statuses)' = ClaimsOf(q, statuses)
    BY <2>1, <2>2, <2>3 DEF ClaimsOf
  <2>4. ASSUME NEW q \in DOMAIN projects, NEW d \in Denom PROVE EvaluationPaid(q, d)'
    <3>1. "pending" \notin {"approved"} /\ "pending" \notin {"approved", "rejected"}
      OBVIOUS
    <3>2. /\ ClaimsOf(q, {"approved"})' = ClaimsOf(q, {"approved"})
          /\ ClaimsOf(q, {"approved", "rejected"})' = ClaimsOf(q, {"approved", "rejected"})
      BY <2>3, <3>1
    <3> QED
      BY <1>b, <2>1, <3>2, EvaluationPaidKept
  <2> QED
    BY <2>1, <2>4 DEF EvaluationsArePaid, EvaluationPaid
<1>9. ASSUME NEW p \in Project, NEW o \in Agents, NEW i \in ClaimId, NEW s \in ClaimStatus,
             CreateEvaluation(p, o, i, s)
      PROVE  EvaluationsArePaid'
  <2>1. UNCHANGED projects
    BY <1>9 DEF CreateEvaluation
  <2>2. ASSUME NEW q \in DOMAIN projects, NEW d \in Denom PROVE EvaluationPaid(q, d)'
    BY <1>b, <1>9, EvaluatedPaid
  <2> QED
    BY <2>1, <2>2 DEF EvaluationsArePaid, EvaluationPaid
<1>10. ASSUME NEW p \in Project, NEW r \in Agents, NEW n \in Amounts, NEW b \in BOOLEAN,
              WithdrawFunds(p, r, n, b)
       PROVE  EvaluationsArePaid'
  BY <1>10, EvaluationsKept DEF WithdrawFunds
<1>11. ASSUME NEW a \in Did, NEW b \in SendTargets, NEW c \in SendAmounts, Send(a, b, c)
       PROVE  EvaluationsArePaid'
  BY <1>11, EvaluationsKept DEF Send, docs
<1>12. ASSUME NEW new \in ParamChoices, ChangeParams(new) PROVE EvaluationsArePaid'
  BY <1>12, EvaluationsKept DEF ChangeParams, docs
<1>13. CASE UNCHANGED vars
  BY <1>13, EvaluationsKept DEF vars, docs
<1> QED
  BY <1>1, <1>2, <1>4, <1>5, <1>6, <1>7, <1>8, <1>9, <1>10, <1>11, <1>12, <1>13 DEF Next

\* The claimers have been paid once for every claim that is approved and for no other,
\* and the oracles at least once for every claim that is evaluated: nobody is paid
\* twice for a claim and nobody goes without, over all claimers, oracles and projects
\* (handleMsgCreateEvaluation).
THEOREM EvaluationsCorrect == Spec => []EvaluationsArePaid
<1>1. Init => EvaluationsArePaid
  BY DEF Init, Empty, EvaluationsArePaid
<1>2. CoinsInv /\ EvaluationsArePaid /\ [Next]_vars => EvaluationsArePaid'
  BY EvaluationsNext
<1> QED
  BY <1>1, <1>2, CoinsInvariant, PTL DEF Spec

-----------------------------------------------------------------------------
LEMMA PanicBelowMinimum ==
  ASSUME NEW l, LedgerOK(l), NEW p \in Project, NEW y, PaymentOf(p, y), PayPanics(l, p, y)
  PROVE  BelowMinimum(l, p, y)
<1> DEFINE m == WithContract(l, p, y)
           c == m.contracts[y.id]
           pay == Payments(m)!Pay(c)
           t == Templates[c.template]
<1>1. /\ Payments(m)!ValidRecipients(y.recipients) /\ Payments(m)!CanEffectPayment(c)
      /\ Covers(m.funds[c.payer], Templates[y.template].amount)
      /\ Payments(m)!NotEffected(c)
  BY DEF PayPanics, PayAttempted
<1>2. Payments(m)!PayDefined(c) /\ ~Covers(m.funds[c.payer], pay)
  BY <1>1, SameOperators DEF Payments!NotEffected, Payments!HasCoins
<1> HIDE DEF m
<1>3. /\ LedgerOK(m) /\ m.funds = l.funds
      /\ DOMAIN m.contracts = DOMAIN l.contracts \cup {y.id}
  BY <1>1, WithContractFacts DEF m
<1>4. y.id \in DOMAIN m.contracts
  BY <1>3
<1>5. c \in PContract /\ c.template = y.template
  BY <1>3, <1>4 DEF LedgerOK, OfProject, PaymentOf
<1>6. /\ pay \in CoinSet
      /\ \A d \in Denom : \/ pay[d] <= t.amount[d]
                          \/ c.cumulativePay = NoCoins /\ pay[d] <= t.minimum[d]
  BY <1>2, <1>5, PayFacts
<1>7. /\ m.funds[c.payer] \in CoinSet /\ c.payer \in Account
      /\ t.amount \in CoinSet /\ t.minimum \in CoinSet
  BY <1>3, <1>5, ProjectAssumption DEF LedgerOK, PContract
<1>8. PICK d \in Denom : ~(m.funds[c.payer][d] >= pay[d])
  BY <1>2 DEF Covers
<1> DEFINE have == m.funds[c.payer][d]
<1>9. have >= t.amount[d]
  BY <1>1, <1>5 DEF Covers
<1>10. /\ have \in Nat /\ pay[d] \in Nat /\ t.amount[d] \in Nat /\ t.minimum[d] \in Nat
  BY <1>6, <1>7 DEF CoinSet
<1>11. c.cumulativePay = NoCoins /\ pay[d] <= t.minimum[d]
  <2> HIDE DEF pay, t, have
  <2>1. ~(have >= pay[d])
    BY <1>8 DEF have
  <2> QED
    BY <1>6, <1>9, <1>10, <2>1
<1>12. ~Covers(l.funds[c.payer], t.minimum)
  <2>1. ~(have >= t.minimum[d])
    <3> HIDE DEF pay, t, have
    <3>1. ~(have >= pay[d])
      BY <1>8 DEF have
    <3> QED
      BY <1>10, <1>11, <3>1
  <2> QED
    BY <1>3, <2>1 DEF Covers
<1> QED
  BY <1>11, <1>12 DEF BelowMinimum, m

\* processPay panics on a payment that it has found possible only if it is the first
\* one of its contract and the project cannot afford the minimum.
THEOREM PanicsCorrect == Spec => []PanicsOnlyBelowMinimum
<1>1. CoinsInv => PanicsOnlyBelowMinimum
  <2> SUFFICES ASSUME CoinsInv, NEW p \in DOMAIN projects, NEW o \in Agents, NEW i \in ClaimId,
                      CanEvaluate(p, i)
               PROVE  /\ OracleDue(p) /\ PayPanics(ledger, p, OraclePayment(p, o))
                           => BelowMinimum(ledger, p, OraclePayment(p, o))
                      /\ /\ OracleDue(p) => PaySucceeds(ledger, p, OraclePayment(p, o))
                         /\ ServiceDue(p, "approved")
                         /\ PayPanics(AfterOraclePay(p, o), p,
                                      ServicePayment(p, claims[<<p, i>>].claimer))
                         => BelowMinimum(AfterOraclePay(p, o), p,
                                         ServicePayment(p, claims[<<p, i>>].claimer))
    BY DEF PanicsOnlyBelowMinimum
  <2> DEFINE yo == OraclePayment(p, o)
             ys == ServicePayment(p, claims[<<p, i>>].claimer)
             first == AfterOraclePay(p, o)
  <2>1. StoresInv /\ TypesInv /\ LedgerOK(ledger) /\ p \in Project
    BY DEF CoinsInv, StoresInv, StoresByProject
  <2>2. o \in Did \cup Project /\ claims[<<p, i>>].claimer \in Did \cup Project
    BY <2>1, ProjectAssumption DEF TypesInv, Claim, CanEvaluate, Pending
  <2>3. OracleDue(p) => PaymentOf(p, yo)
    BY <2>1, <2>2, OraclePaymentOf
  <2>4. ServiceDue(p, "approved") => PaymentOf(p, ys)
    BY <2>1, <2>2, ServicePaymentOf DEF ServiceDue
  <2>5. first = IF OracleDue(p) THEN ProcessPay(ledger, p, yo) ELSE ledger
    BY DEF AfterOraclePay
  <2> HIDE DEF yo, ys, first
  <2>6. ASSUME OracleDue(p), PayPanics(ledger, p, yo) PROVE BelowMinimum(ledger, p, yo)
    BY <2>1, <2>3, <2>6, PanicBelowMinimum
  <2>7. ASSUME OracleDue(p) => PaySucceeds(ledger, p, yo),
               ServiceDue(p, "approved"), PayPanics(first, p, ys)
        PROVE  BelowMinimum(first, p, ys)
    <3>1. LedgerOK(first)
      <4>1. CASE OracleDue(p)
        BY <2>1, <2>3, <2>5, <2>7, <4>1, ProcessPayFacts
      <4>2. CASE ~OracleDue(p)
        BY <2>1, <2>5, <4>2
      <4> QED
        BY <4>1, <4>2
    <3> QED
      BY <2>1, <2>4, <2>7, <3>1, PanicBelowMinimum
  <2> QED
    BY <2>6, <2>7 DEF yo, ys, first
<1> QED
  BY <1>1, CoinsInvariant, PTL

-----------------------------------------------------------------------------
(***************************************************************************)
(* Payments that have to be made                                           *)
(***************************************************************************)
\* The template's maximum does not stop the next payment of a contract that has been
\* paid this much.
LeavesRoom(t, paid) ==
  t.maximum = NoCoins \/ \A d \in Denom : paid[d] # 0 => t.maximum[d] > paid[d]

\* Below the maximum there is something to pay.
LEMMA PaymentIsSomething ==
  ASSUME NEW l, NEW c \in PContract, NEW t, t = Templates[c.template],
         t.amount # NoCoins, LeavesRoom(t, c.cumulativePay)
  PROVE  Payments(l)!PayDefined(c) /\ Payments(l)!Pay(c) # NoCoins
<1> DEFINE paid == c.cumulativePay
           pay == Payments(l)!Pay(c)
<1>1. \A d \in Denom : /\ paid[d] \in Nat /\ t.amount[d] \in Nat /\ t.minimum[d] \in Nat
                       /\ t.maximum[d] \in Nat /\ Raised(c, d) \in Nat /\ Adjusted(c)[d] \in Nat
  BY TemplateType
<1>2. \A d \in Denom : t.maximum[d] # 0 => t.maximum[d] > paid[d]
  BY <1>1 DEF LeavesRoom, NoCoins
<1>3. \A d \in Denom : Raised(c, d) >= paid[d] + t.amount[d]
  BY <1>1 DEF Raised
<1>4. \A d \in Denom : \/ Adjusted(c)[d] = Raised(c, d)
                       \/ t.maximum[d] # 0 /\ Adjusted(c)[d] = t.maximum[d]
  BY DEF Adjusted
<1>5. \A d \in Denom : Adjusted(c)[d] >= paid[d] /\ (t.amount[d] # 0 => Adjusted(c)[d] # paid[d])
  <2> HIDE DEF paid
  <2> QED
    BY <1>1, <1>2, <1>3, <1>4
<1>6. Payments(l)!PayDefined(c)
  <2>1. Payments(l)!TemplateOf(c) = t /\ c.discountId = 0
    BY DEF Payments!TemplateOf, PContract
  <2>2. Payments(l)!DiscountKnown(c) /\ Payments(l)!Discount(c) = NoCoins
    BY <2>1, SameOperators DEF Payments!DiscountKnown, Payments!Discount
  <2>3. Covers(t.amount, NoCoins)
    BY <1>1 DEF Covers, NoCoins
  <2>4. Covers(Adjusted(c), c.cumulativePay)
    BY <1>5 DEF Covers
  <2> QED
    BY <2>1, <2>2, <2>3, <2>4, AmountDue, SameOperators DEF Payments!PayDefined
<1>7. PICK d \in Denom : t.amount[d] # 0
  <2>1. t.amount \in CoinSet
    BY ProjectAssumption DEF PContract
  <2> QED
    BY <2>1 DEF CoinSet, NoCoins
<1>8. pay[d] = Adjusted(c)[d] - paid[d]
  BY AmountDue DEF Sub
<1>9. pay[d] # 0
  <2> HIDE DEF pay, paid
  <2> QED
    BY <1>1, <1>5, <1>7, <1>8
<1> QED
  BY <1>6, <1>9 DEF NoCoins

\* Shares that are the whole distribute exactly what they are given, and in coins
\* no more than that.
LEMMA SharesAreExact ==
  ASSUME NEW l, NEW c \in PContract, Payments(l)!PayDefined(c),
         SumOf([i \in DOMAIN c.recipients |-> Quo(c.recipients[i].percentage, ToDec(100))],
               DOMAIN c.recipients) = Unit
  PROVE  /\ Payments(l)!ExactDistribution(c)
         /\ Covers(Payments(l)!TotalInput(c), Payments(l)!OutputToPayees(c))
<1> DEFINE D == DOMAIN c.recipients
           fraction == [i \in D |-> Quo(c.recipients[i].percentage, ToDec(100))]
<1>1. /\ IsFiniteSet(D) /\ \A i \in D : fraction[i] \in Nat
      /\ SumOf(fraction, D) = Unit
  <2>1. c.recipients \in Seq(PShare)
    BY DEF PContract
  <2>2. D = 1 .. Len(c.recipients) /\ Len(c.recipients) \in Nat
    BY <2>1
  <2>3. IsFiniteSet(1 .. Len(c.recipients))
    BY <2>2, FS_Interval, SMT
  <2>4. \A i \in D : c.recipients[i].percentage \in Nat
    <3>1. \A i \in D : c.recipients[i] \in PShare
      BY <2>1
    <3> QED
      BY <3>1 DEF PShare
  <2>5. ToDec(100) \in Nat \ {0}
    BY UnitAssumption DEF ToDec
  <2>6. \A i \in D : fraction[i] \in Nat
    BY <2>4, <2>5, QuoType
  <2> QED
    BY <2>2, <2>3, <2>6
<1>2. ASSUME NEW d \in Denom
      PROVE  LET total == Payments(l)!TotalInput(c)[d]
             IN  /\ SumOf([i \in D |-> Payments(l)!FractionOf(total, c.recipients[i].percentage)],
                          D) = ToDec(total)
                 /\ total >= Payments(l)!OutputToPayees(c)[d]
  <2> DEFINE total == Payments(l)!TotalInput(c)[d]
             exact == [i \in D |-> Payments(l)!FractionOf(total, c.recipients[i].percentage)]
             out == [i \in D |-> Payments(l)!Output(c, i)[d]]
             whole == [i \in D |-> Unit * out[i]]
  <2>1. total \in Nat
    BY OutputType DEF CoinSet
  <2>2. \A i \in D : exact[i] = total * fraction[i] /\ exact[i] \in Nat
    <3>1. \A i \in D : exact[i] = Mul(ToDec(total), fraction[i])
      BY SameDecimals
    <3> HIDE DEF exact, total, fraction, D
    <3> QED
      BY <1>1, <2>1, <3>1, MulByInteger
  <2>3. Unit \in Nat \ {0}
    BY UnitAssumption
  <2>4. \A i \in D : /\ out[i] = TruncateInt(exact[i]) /\ whole[i] = Unit * out[i]
    BY SameDecimals DEF Payments!Output
  <2>5. SumOf(out, D) = Payments(l)!OutputToPayees(c)[d]
    BY SameOperators DEF Payments!OutputToPayees
  <2> HIDE DEF exact, total, fraction, D, out, whole
  <2>6. SumOf(exact, D) = total * Unit
    <3>1. CASE total = 0
      <4>1. \A i \in D : exact[i] = 0
        BY <1>1, <2>2, <3>1
      <4>2. SumOf(exact, D) = Cardinality(D) * 0
        BY <1>1, <4>1, SumConstant
      <4>3. Cardinality(D) \in Nat
        BY <1>1, FS_CardinalityType
      <4> QED
        BY <2>3, <3>1, <4>2, <4>3
    <3>2. CASE total # 0
      <4>1. total \in Nat \ {0}
        BY <2>1, <3>2
      <4>2. SumOf(exact, D) = total * SumOf(fraction, D)
        BY <1>1, <2>2, <4>1, SumTimes
      <4> QED
        BY <1>1, <4>2
    <3> QED
      BY <3>1, <3>2
  <2>7. \A i \in D : out[i] \in Nat /\ whole[i] \in Nat /\ whole[i] <= exact[i]
    <3>1. \A i \in D : TruncateInt(exact[i]) \in Nat /\ Unit * TruncateInt(exact[i]) <= exact[i]
      BY <2>2, TruncateBelow, CeilType
    <3> QED
      BY <2>3, <2>4, <3>1
  <2>8. SumOf(whole, D) <= SumOf(exact, D)
    BY <1>1, <2>2, <2>7, SumMonotone
  <2>9. SumOf(whole, D) = Unit * SumOf(out, D)
    BY <1>1, <2>3, <2>4, <2>7, SumTimes
  <2> DEFINE o == SumOf(out, D)
  <2>10. o \in Nat
    BY <1>1, <2>7, SumType
  <2>11. Unit * o <= total * Unit
    BY <2>6, <2>8, <2>9
  <2> HIDE DEF o
  <2>12. o <= total
    <3>1. SUFFICES ASSUME total < o PROVE FALSE
      BY <2>1, <2>10
    <3>2. o - total \in Nat \ {0}
      BY <2>1, <2>10, <3>1
    <3>3. Unit * (o - total) > 0 /\ Unit * (o - total) = Unit * o - total * Unit
      BY <2>1, <2>3, <2>10, <3>2
    <3>4. Unit * o \in Nat /\ total * Unit \in Nat
      BY <2>1, <2>3, <2>10
    <3> QED
      BY <2>11, <3>3, <3>4
  <2> QED
    BY <2>1, <2>5, <2>6, <2>10, <2>12 DEF o, total, exact, ToDec, D
<1> QED
  BY <1>2, SameOperators
     DEF Payments!ExactDistribution, Payments!ToDec, ToDec, Covers

\* The pool holds the remainder of every contract.
LEMMA PoolCoversRemainder ==
  ASSUME NEW m, LedgerOK(m), NEW id \in DOMAIN m.contracts
  PROVE  Covers(m.pool, m.contracts[id].currentRemainder)
<1>1. IsFiniteSet(DOMAIN m.contracts)
  BY FiniteContracts
<1>2. ASSUME NEW d \in Denom PROVE m.pool[d] >= m.contracts[id].currentRemainder[d]
  <2> DEFINE S == DOMAIN m.contracts
             f == [i \in S |-> m.contracts[i].currentRemainder[d]]
  <2>1. m.pool[d] = SumOf(f, S)
    BY DEF LedgerOK
  <2>2. \A i \in S : f[i] \in Nat
    BY DEF LedgerOK, PContract, CoinSet
  <2>3. f[id] = m.contracts[id].currentRemainder[d] /\ id \in S
    OBVIOUS
  <2> HIDE DEF f, S
  <2>4. IsFiniteSet(S \ {id})
    BY <1>1, FS_RemoveElement DEF S
  <2>5. SumOf(f, S) = SumOf(f, S \ {id}) + f[id] /\ SumOf(f, S \ {id}) \in Nat
    BY <1>1, <2>2, <2>3, <2>4, SumRemove, SumType DEF S
  <2> QED
    BY <2>1, <2>2, <2>3, <2>5
<1> QED
  BY <1>2 DEF Covers

\* A payment that nothing can be said against is made.
LEMMA PaymentIsMade ==
  ASSUME NEW l, LedgerOK(l), NEW p \in Project, NEW y, PaymentOf(p, y), CanGet(p, p),
         \A k : Payments(k)!ValidRecipients(y.recipients), Unobjectionable(l, p, y)
  PROVE  PaySucceeds(l, p, y)
<1> DEFINE m == WithContract(l, p, y)
           c == m.contracts[y.id]
           t == Templates[y.template]
           pay == Payments(m)!Pay(c)
<1>1. c = IF y.id \in DOMAIN l.contracts THEN l.contracts[y.id] ELSE NewContract(p, y)
  BY DEF WithContract, Store
<1>2. /\ t.amount # NoCoins /\ LeavesRoom(t, c.cumulativePay)
      /\ Covers(l.funds[Internal(p, p)], t.amount) /\ Covers(l.funds[Internal(p, p)], t.minimum)
      /\ SumOf([i \in DOMAIN c.recipients |-> Quo(c.recipients[i].percentage, ToDec(100))],
               DOMAIN c.recipients) = Unit
  <2>1. CASE y.id \in DOMAIN l.contracts
    BY <1>1, <2>1 DEF Unobjectionable, LeavesRoom
  <2>2. CASE y.id \notin DOMAIN l.contracts
    <3>1. c.cumulativePay = NoCoins /\ c.recipients = y.recipients
      BY <1>1, <2>2 DEF NewContract
    <3> QED
      BY <2>2, <3>1 DEF Unobjectionable, LeavesRoom
  <2> QED
    BY <2>1, <2>2
<1>3. LedgerOK(m) /\ m.funds = l.funds /\ y.id \in DOMAIN m.contracts
  BY WithContractFacts
<1>4. c \in PContract /\ c.template = y.template /\ c.payer = Internal(p, p)
  BY <1>3 DEF LedgerOK, OfProject, PaymentOf
<1>5. Covers(m.pool, c.currentRemainder)
  BY <1>3, PoolCoversRemainder
<1> HIDE DEF m, c
<1>6. c.authorised = TRUE /\ Payments(m)!TemplateOf(c) = t
  BY <1>4 DEF PContract, Payments!TemplateOf
<1>7. Payments(m)!CanEffectPayment(c)
  BY <1>2, <1>6, SameOperators DEF LeavesRoom, Payments!CanEffectPayment, Payments!MaximumLeft
<1>8. Payments(m)!PayDefined(c) /\ pay # NoCoins
  BY <1>2, <1>4, PaymentIsSomething
<1>9. /\ Payments(m)!ExactDistribution(c)
      /\ Covers(Payments(m)!TotalInput(c), Payments(m)!OutputToPayees(c))
  BY <1>2, <1>4, <1>8, SharesAreExact
<1>10. Covers(m.funds[c.payer], pay)
  <2>1. /\ pay \in CoinSet
        /\ \A d \in Denom : pay[d] <= t.amount[d] \/ pay[d] <= t.minimum[d]
    BY <1>4, <1>8, PayFacts
  <2>2. /\ m.funds[c.payer] \in CoinSet
        /\ t.amount \in CoinSet /\ t.minimum \in CoinSet
    BY <1>3, <1>4, ProjectAssumption DEF LedgerOK, PContract
  <2> DEFINE have == m.funds[c.payer]
  <2>3. \A d \in Denom : have[d] >= t.amount[d] /\ have[d] >= t.minimum[d]
    BY <1>2, <1>3, <1>4 DEF Covers
  <2> HIDE DEF pay, t, have
  <2>4. \A d \in Denom : /\ pay[d] \in Nat /\ t.amount[d] \in Nat /\ t.minimum[d] \in Nat
                         /\ have[d] \in Nat
    BY <2>1, <2>2 DEF CoinSet, have
  <2>5. \A d \in Denom : have[d] >= pay[d]
    BY <2>1, <2>3, <2>4
  <2> QED
    BY <2>5 DEF Covers, have
<1>11. Payments(m)!CanSpend(c.payer, pay)
  <2>1. Payments(m)!Locked(c.payer) = NoCoins
    <3>1. c.payer \in Account
      BY <1>4 DEF PContract
    <3> QED
      BY <3>1, SameOperators DEF Payments!Locked
  <2>2. \A d \in Denom : m.funds[c.payer][d] >= pay[d] /\ pay[d] \in Nat
    BY <1>4, <1>8, <1>10, PayFacts DEF Covers, CoinSet
  <2>3. \A d \in Denom : m.funds[c.payer][d] >= NoCoins[d] + pay[d]
    BY <2>2 DEF NoCoins
  <2> QED
    BY <2>1, <2>3 DEF Payments!CanSpend
<1>12. Payments(m)!Effected(c)
  BY <1>5, <1>7, <1>8, <1>9, <1>10, <1>11, SameOperators
     DEF Payments!Effected, Payments!HasCoins, Payments!CanTransfer
<1>13. Covers(m.funds[c.payer], t.amount)
  BY <1>2, <1>3, <1>4
<1> QED
  BY <1>7, <1>12, <1>13 DEF PaySucceeds, PayAttempted, m, c

\* The shares of an oracle, and that of a claimer, are a distribution unless one
\* of them is zero.
LEMMA OracleSharesValid ==
  ASSUME TypesInv, NEW p, NEW oracle, NEW r, r = OraclePayRecipients(p, oracle),
         \A i \in DOMAIN r : r[i].percentage > 0, NEW k
  PROVE  Payments(k)!ValidRecipients(r)
<1> DEFINE f == params.oracleFeePercentage
           n == NodeFeeShare
           whole == ToDec(100)
           g == [i \in DOMAIN r |-> r[i].percentage]
<1>1. f \in Nat /\ n \in Nat /\ whole \in Nat
  <2>1. params.oracleFeePercentage \in Nat /\ params.nodeFeePercentage \in Nat
    BY DEF TypesInv, Params
  <2>2. QuoInt(params.nodeFeePercentage, 100) \in Nat
    BY <2>1, Division DEF QuoInt
  <2> QED
    BY <2>1, <2>2, MulType, ToDecType DEF NodeFeeShare
<1>2. DOMAIN r = {1, 2, 3} /\ g[1] = f - n /\ g[2] = n /\ g[3] = whole - f
  <2>1. /\ Len(r) = 3 /\ r \in Seq({r[1], r[2], r[3]})
        /\ r[1].percentage = f - n /\ r[2].percentage = n /\ r[3].percentage = whole - f
    BY DEF OraclePayRecipients
  <2>2. DOMAIN r = 1 .. 3
    BY <2>1
  <2>3. DOMAIN r = {1, 2, 3}
    BY <2>2
  <2> HIDE DEF f, n, whole
  <2> QED
    BY <2>1, <2>3
<1>3. g[1] > 0 /\ g[2] > 0 /\ g[3] > 0
  BY <1>2
<1> HIDE DEF f, n, whole, g
<1>4. g[1] \in Nat /\ g[2] \in Nat /\ g[3] \in Nat
  BY <1>1, <1>2, <1>3
<1>5. SumOf(g, {1, 2, 3}) = whole
  <2>1. IsFiniteSet({}) /\ IsFiniteSet({1}) /\ IsFiniteSet({1, 2})
    BY FS_EmptySet, FS_Singleton, FS_AddElement
  <2>2. SumOf(g, {} \cup {1}) = SumOf(g, {}) + g[1]
    BY <1>4, <2>1, SumAdd
  <2>3. SumOf(g, {1} \cup {2}) = SumOf(g, {1}) + g[2]
    BY <1>4, <2>1, SumAdd
  <2>4. SumOf(g, {1, 2} \cup {3}) = SumOf(g, {1, 2}) + g[3]
    BY <1>4, <2>1, SumAdd
  <2>5. /\ {} \cup {1} = {1} /\ {1} \cup {2} = {1, 2} /\ {1, 2} \cup {3} = {1, 2, 3}
    OBVIOUS
  <2>6. SumOf(g, {}) = 0
    BY SumEmpty
  <2>7. SumOf(g, {1}) = g[1] /\ SumOf(g, {1, 2}) = SumOf(g, {1}) + g[2]
    <3>1. SumOf(g, {1}) = SumOf(g, {} \cup {1}) /\ SumOf(g, {1, 2}) = SumOf(g, {1} \cup {2})
      BY <2>5, Zenon
    <3>2. SumOf(g, {} \cup {1}) = g[1]
      BY <1>4, <2>2, <2>6
    <3> QED
      BY <2>3, <3>1, <3>2, Zenon
  <2>8. SumOf(g, {1, 2, 3}) = g[1] + g[2] + g[3]
    BY <2>4, <2>5, <2>7
  <2> QED
    BY <1>1, <1>2, <2>8
<1>6. r # <<>>
  <2>1. 1 \in DOMAIN r
    BY <1>2
  <2> QED
    BY <2>1
<1>7. SumOf(Payments(k)!Percentages(r), DOMAIN r) = ToDec(100)
  BY <1>2, <1>5 DEF Payments!Percentages, g, whole
<1> QED
  BY <1>6, <1>7, SameOperators, SameDecimals DEF Payments!ValidRecipients

LEMMA ClaimerShareValid ==
  ASSUME NEW claimer, NEW k
  PROVE  Payments(k)!ValidRecipients(ClaimerOnly(claimer))
<1> DEFINE r == ClaimerOnly(claimer)
           g == [i \in DOMAIN r |-> r[i].percentage]
           whole == ToDec(100)
<1>1. DOMAIN r = {1} /\ r[1].percentage = whole /\ r # <<>>
  BY DEF ClaimerOnly
<1>2. whole \in Nat \ {0}
  BY UnitAssumption DEF ToDec
<1>3. g[1] = whole
  BY <1>1
<1> HIDE DEF r, g, whole
<1>4. SumOf(g, {1}) = whole
  <2>1. SumOf(g, {} \cup {1}) = SumOf(g, {}) + g[1]
    BY <1>2, <1>3, FS_EmptySet, SumAdd
  <2>2. {} \cup {1} = {1}
    OBVIOUS
  <2> QED
    BY <1>2, <1>3, <2>1, <2>2, SumEmpty
<1>5. \A i \in DOMAIN r : r[i].percentage > 0
  BY <1>1, <1>2
<1> QED
  BY <1>1, <1>4, <1>5, SameOperators, SameDecimals
     DEF Payments!ValidRecipients, Payments!Percentages, r, g, whole

\* Whatever came before, the payments of an evaluation are made unless the project
\* lacks coins, the maximum is reached or somebody's share is zero or inexact: accounts,
\* pool, authorisation and old contracts never stop them (processPay, handler.go:490).
THEOREM EvaluationsPayable == Spec => []EvaluationsCanBePaid
<1>1. CoinsInv => EvaluationsCanBePaid
  <2> SUFFICES ASSUME CoinsInv, NEW p \in DOMAIN projects, NEW o \in Agents, NEW i \in ClaimId,
                      CanEvaluate(p, i)
               PROVE  /\ OracleDue(p) /\ Unobjectionable(ledger, p, OraclePayment(p, o))
                           => PaySucceeds(ledger, p, OraclePayment(p, o))
                      /\ /\ OracleDue(p) => PaySucceeds(ledger, p, OraclePayment(p, o))
                         /\ ServiceDue(p, "approved")
                         /\ Unobjectionable(AfterOraclePay(p, o), p,
                                            ServicePayment(p, claims[<<p, i>>].claimer))
                         => PaySucceeds(AfterOraclePay(p, o), p,
                                        ServicePayment(p, claims[<<p, i>>].claimer))
    BY DEF EvaluationsCanBePaid
  <2> DEFINE yo == OraclePayment(p, o)
             ys == ServicePayment(p, claims[<<p, i>>].claimer)
             first == AfterOraclePay(p, o)
  <2>1. StoresInv /\ TypesInv /\ LedgerOK(ledger) /\ p \in Project
    BY DEF CoinsInv, StoresInv, StoresByProject
  <2>2. o \in Did \cup Project /\ claims[<<p, i>>].claimer \in Did \cup Project
    BY <2>1, ProjectAssumption DEF TypesInv, Claim, CanEvaluate, Pending
  <2>3. OracleDue(p) => PaymentOf(p, yo)
    BY <2>1, <2>2, OraclePaymentOf
  <2>4. ServiceDue(p, "approved") => PaymentOf(p, ys)
    BY <2>1, <2>2, ServicePaymentOf DEF ServiceDue
  <2>5. first = IF OracleDue(p) THEN ProcessPay(ledger, p, yo) ELSE ledger
    BY DEF AfterOraclePay
  <2>6. CanGet(p, p)
    BY <2>1 DEF StoresInv, OwnAccountWhenFunded, CanEvaluate, Started, CanGet
  <2>7. yo.recipients = OraclePayRecipients(p, o)
    BY DEF OraclePayment, Payment
  <2>8. ys.recipients = ClaimerOnly(claims[<<p, i>>].claimer)
    BY DEF ServicePayment, Payment
  <2> HIDE DEF yo, ys, first
  <2>9. ASSUME OracleDue(p), Unobjectionable(ledger, p, yo) PROVE PaySucceeds(ledger, p, yo)
    <3>1. \A j \in DOMAIN yo.recipients : yo.recipients[j].percentage > 0
      BY <2>9 DEF Unobjectionable
    <3>2. \A k : Payments(k)!ValidRecipients(yo.recipients)
      BY <2>1, <2>7, <3>1, OracleSharesValid
    <3> QED
      BY <2>1, <2>3, <2>6, <2>9, <3>2, PaymentIsMade
  <2>10. ASSUME OracleDue(p) => PaySucceeds(ledger, p, yo),
                ServiceDue(p, "approved"), Unobjectionable(first, p, ys)
         PROVE  PaySucceeds(first, p, ys)
    <3>1. LedgerOK(first)
      <4>1. CASE OracleDue(p)
        BY <2>1, <2>3, <2>5, <2>10, <4>1, ProcessPayFacts
      <4>2. CASE ~OracleDue(p)
        BY <2>1, <2>5, <4>2
      <4> QED
        BY <4>1, <4>2
    <3>2. \A k : Payments(k)!ValidRecipients(ys.recipients)
      BY <2>8, ClaimerShareValid
    <3> QED
      BY <2>1, <2>4, <2>6, <2>10, <3>1, <3>2, PaymentIsMade
  <2> QED
    BY <2>9, <2>10 DEF yo, ys, first
<1> QED
  BY <1>1, CoinsInvariant, PTL

-----------------------------------------------------------------------------
(***************************************************************************)
(* What leaves the accounts of a project                                   *)
(***************************************************************************)
Keeps(p) ==
  \A id \in InternalId :
    funds'[Internal(p, id)][Native] >= funds[Internal(p, id)][Native]

\* An evaluation takes from the project's own account what it pays.
StepPays ==
  \E q \in DOMAIN projects : \E n \in Nat :
    /\ Started(q) /\ PaidBy(q)' - PaidBy(q) = n
    /\ \A p \in Project : \A id \in InternalId :
         funds'[Internal(p, id)][Native]
           >= funds[Internal(p, id)][Native] - (IF p = q /\ id = q THEN n ELSE 0)

\* A payout takes all there is in the fee accounts, and nothing else.
StepPaysOut ==
  \E q \in DOMAIN projects :
    /\ projects'[q].status = "PAIDOUT" /\ Withdrawn(q)' - Withdrawn(q) = FeesHeld(q)
    /\ \A p \in Project : \A id \in InternalId :
         IF p = q /\ id \in FeeAccounts THEN funds'[Internal(p, id)][Native] = 0
         ELSE funds'[Internal(p, id)][Native] = funds[Internal(p, id)][Native]

\* A withdrawal takes its amount from one account, for one who may have it.
StepWithdraws ==
  \E q \in DOMAIN projects : \E from \in InternalId : \E to \in Did \cup Project :
    \E n \in Nat \ {0} :
      /\ projects'[q].status = "PAIDOUT" /\ Withdrawn(q)' - Withdrawn(q) = n
      /\ from = to \/ (from = q /\ to = projects[q].creator)
      /\ funds'[to][Native] - funds[to][Native] = n
      /\ \A p \in Project : \A id \in InternalId :
           funds'[Internal(p, id)][Native]
             = funds[Internal(p, id)][Native] - (IF p = q /\ id = from THEN n ELSE 0)

LEMMA Balances ==
  ASSUME NEW f \in [Account -> CoinSet]
  PROVE  /\ \A a \in Account : f[a][Native] \in Nat
         /\ \A p \in Project : \A id \in InternalId : f[Internal(p, id)][Native] \in Nat
<1>1. \A a \in Account : f[a][Native] \in Nat
  BY ProjectAssumption DEF CoinSet
<1> QED
  BY <1>1, InternalAccount

LEMMA InternalDistinct ==
  ASSUME NEW p \in Project, NEW id \in InternalId
  PROVE  /\ Internal(p, id) \notin Did \cup Project
         /\ \A q \in Project : \A i \in InternalId :
              Internal(p, id) = Internal(q, i) <=> p = q /\ id = i
<1>1. Internal(p, id) \in Project \X InternalId
  BY DEF Internal
<1> QED
  BY <1>1, ProjectAssumption DEF Internal

\* The amount of a new withdrawal is added to what has been withdrawn.
LEMMA WithdrawnMore ==
  ASSUME StoresInv, TypesInv, NEW p \in DOMAIN projects,
         NEW recipient \in Did \cup Project, NEW amount \in Nat,
         AddWithdrawal(p, recipient, amount)
  PROVE  Withdrawn(p)' - Withdrawn(p) = amount
<1> DEFINE e == [recipient |-> recipient, amount |-> amount]
           s == withdrawals[p]
           t == withdrawals'[p]
           f == [i \in DOMAIN s |-> s[i].amount]
           g == [i \in DOMAIN t |-> t[i].amount]
<1>1. p \in DOMAIN withdrawals
  BY DEF StoresInv, StoresByProject
<1>2. t = Append(s, e)
  BY <1>1 DEF AddWithdrawal
<1>3. s \in Seq(Withdrawal) /\ e \in Withdrawal
  BY DEF TypesInv, Withdrawal
<1>4. e.amount = amount
  OBVIOUS
<1> HIDE DEF e, s, t
<1>5. /\ Len(t) = Len(s) + 1 /\ Len(s) \in Nat
      /\ t[Len(s) + 1] = e /\ \A i \in 1 .. Len(s) : t[i] = s[i]
      /\ DOMAIN s = 1 .. Len(s) /\ DOMAIN t = 1 .. Len(t)
  <2>1. t \in Seq(Withdrawal)
    BY <1>2, <1>3, AppendProperties
  <2> QED
    BY <1>2, <1>3, <2>1, AppendProperties
<1>6. DOMAIN t = DOMAIN s \cup {Len(s) + 1} /\ Len(s) + 1 \notin DOMAIN s
  BY <1>5
<1>7. IsFiniteSet(DOMAIN s)
  BY <1>5, FS_Interval
<1>8. \A i \in DOMAIN s : s[i].amount \in Nat /\ g[i] = s[i].amount
  <2>1. \A i \in DOMAIN s : s[i] \in Withdrawal
    BY <1>3, <1>5
  <2> QED
    BY <1>5, <1>6, <2>1 DEF Withdrawal
<1>9. g[Len(s) + 1] = amount
  BY <1>4, <1>5, <1>6
<1>10. \A i \in DOMAIN s : f[i] = g[i] /\ g[i] \in Nat
  BY <1>8
<1> HIDE DEF f, g
<1>11. SumOf(g, DOMAIN s \cup {Len(s) + 1}) = SumOf(g, DOMAIN s) + g[Len(s) + 1]
  BY <1>6, <1>7, <1>9, <1>10, SumAdd
<1>12. SumOf(f, DOMAIN s) = SumOf(g, DOMAIN s) /\ SumOf(g, DOMAIN s) \in Nat
  BY <1>7, <1>10, SumCongruence, SumType
<1>13. Withdrawn(p)' = SumOf(g, DOMAIN t) /\ Withdrawn(p) = SumOf(f, DOMAIN s)
  BY DEF Withdrawn, f, g, s, t
<1> QED
  BY <1>6, <1>9, <1>11, <1>12, <1>13

LEMMA EvaluationOutflow ==
  ASSUME CoinsInv, NEW p \in Project, NEW oracle \in Agents, NEW id \in ClaimId,
         NEW status \in ClaimStatus, CreateEvaluation(p, oracle, id, status)
  PROVE  StepPays
<1>1. PICK po \in CoinSet : \E ps \in CoinSet : EvaluationPays(p, status, po, ps)
  BY CreateEvaluationCoins
<1>2. PICK ps \in CoinSet : EvaluationPays(p, status, po, ps)
  BY <1>1
<1>3. Started(p) /\ p \in DOMAIN projects
  BY DEF CreateEvaluation, CanEvaluate, Started
<1>4. Native \in Denom /\ po[Native] \in Nat /\ ps[Native] \in Nat
  BY ProjectAssumption DEF CoinSet
<1>5. /\ PaidFor(p, "OracleFee", Native)' = PaidFor(p, "OracleFee", Native) + po[Native]
      /\ PaidFor(p, "FeeForService", Native)' = PaidFor(p, "FeeForService", Native) + ps[Native]
      /\ \A a \in Account :
           funds'[a][Native] >= funds[a][Native]
                             - (IF a = Internal(p, p) THEN po[Native] + ps[Native] ELSE 0)
  BY <1>2, <1>4 DEF EvaluationPays
<1>6. PaidFor(p, "OracleFee", Native) \in Nat /\ PaidFor(p, "FeeForService", Native) \in Nat
  <2>1. LedgerOK(ledger) /\ ledger.contracts = contracts
    BY DEF CoinsInv, ledger
  <2> HIDE DEF ledger
  <2>2. \A type : Paid(contracts, p, type, Native) \in Nat
    BY <1>4, <2>1, PaidType
  <2> QED
    BY <2>2 DEF PaidFor, Paid
<1>7. PaidBy(p)' - PaidBy(p) = po[Native] + ps[Native]
  BY <1>4, <1>5, <1>6 DEF PaidBy
<1>8. p \in InternalId
  BY DEF InternalId
<1>9. ASSUME NEW q \in Project, NEW i \in InternalId
      PROVE  funds'[Internal(q, i)][Native]
               >= funds[Internal(q, i)][Native]
                    - (IF q = p /\ i = p THEN po[Native] + ps[Native] ELSE 0)
  <2>1. Internal(q, i) \in Account /\ (Internal(q, i) = Internal(p, p) <=> q = p /\ i = p)
    BY <1>8, InternalAccount, InternalDistinct
  <2> QED
    BY <1>5, <2>1
<1> QED
  BY <1>3, <1>4, <1>7, <1>9 DEF StepPays

LEMMA PayoutOutflow ==
  ASSUME CoinsInv, NEW p \in Project, PayOutProject(p)
  PROVE  StepPaysOut
<1>1. StoresInv /\ TypesInv /\ AccountsAgree /\ funds \in [Account -> CoinSet]
  BY DEF CoinsInv, StoresInv, LedgerOK, ledger
<1>2. /\ p \in DOMAIN projects /\ SetStatus(p, "PAIDOUT")
      /\ AddWithdrawal(p, params.ixoDid, FeesHeld(p))
  BY DEF PayOutProject, IsValidProgression
<1>3. funds' = PaidOut(p)
  BY PayOutProjectCoins
<1>4. FeesHeld(p) \in Nat /\ params.ixoDid \in Did
  BY <1>1, <1>2, FeesHeldFacts DEF TypesInv, Params
<1>5. Withdrawn(p)' - Withdrawn(p) = FeesHeld(p)
  BY <1>1, <1>2, <1>4, WithdrawnMore
<1>6. projects'[p].status = "PAIDOUT"
  BY <1>1, <1>2, SetStatusFacts DEF StoresInv, Status
<1>7. ASSUME NEW q \in Project, NEW id \in InternalId
      PROVE  IF q = p /\ id \in FeeAccounts THEN funds'[Internal(q, id)][Native] = 0
             ELSE funds'[Internal(q, id)][Native] = funds[Internal(q, id)][Native]
  <2>1. PICK a \in Account : a = Internal(q, id)
    BY InternalAccount
  <2>2. a # params.ixoDid
    BY <1>4, <2>1, InternalDistinct
  <2>3. FeeAccounts \subseteq InternalId
    BY DEF InternalId
  <2>4. a \in {Internal(p, i) : i \in FeeAccounts} <=> q = p /\ id \in FeeAccounts
    BY <2>1, <2>3, InternalDistinct
  <2>5. funds'[a] = IF a \in {Internal(p, i) : i \in FeeAccounts}
                    THEN [funds[a] EXCEPT ![Native] = 0] ELSE funds[a]
    BY <1>3, <2>2 DEF PaidOut
  <2>6. Native \in DOMAIN funds[a]
    BY <1>1, ProjectAssumption DEF CoinSet
  <2> QED
    BY <2>1, <2>4, <2>5, <2>6
<1> QED
  BY <1>2, <1>5, <1>6, <1>7 DEF StepPaysOut

LEMMA WithdrawalOutflow ==
  ASSUME CoinsInv, NEW p \in Project, NEW recipient \in Agents, NEW amount \in Amounts,
         NEW isRefund \in BOOLEAN, WithdrawFunds(p, recipient, amount, isRefund)
  PROVE  StepWithdraws
<1> DEFINE from == WithdrawFrom(p, recipient, isRefund)
           a == Internal(p, from)
<1>1. StoresInv /\ TypesInv /\ funds \in [Account -> CoinSet]
  BY DEF CoinsInv, LedgerOK, ledger
<1>2. /\ amount \in Nat \ {0} /\ a \in Account /\ recipient \in Account /\ a # recipient
      /\ funds[a][Native] >= amount /\ funds' = Sent(a, recipient, Coin(amount))
  BY WithdrawFundsCoins
<1>3. /\ p \in DOMAIN projects /\ projects[p].status = "PAIDOUT"
      /\ isRefund => recipient = projects[p].creator
      /\ AddWithdrawal(p, recipient, amount) /\ UNCHANGED projects
  BY DEF WithdrawFunds, MayWithdraw
<1>4. recipient \in Did \cup Project
  BY ProjectAssumption
<1>5. from \in InternalId /\ (from = recipient \/ (from = p /\ recipient = projects[p].creator))
  BY <1>3, <1>4 DEF WithdrawFrom, InternalId
<1>6. Withdrawn(p)' - Withdrawn(p) = amount
  BY <1>1, <1>2, <1>3, <1>4, WithdrawnMore
<1>7. Native \in Denom /\ Coin(amount)[Native] = amount /\ \A b \in Account : funds[b][Native] \in Nat
  BY <1>1, <1>2, ProjectAssumption, CoinType, Balances
<1>8. \A b \in Account :
        funds'[b][Native] = IF b = a THEN funds[b][Native] - amount
                            ELSE IF b = recipient THEN funds[b][Native] + amount
                            ELSE funds[b][Native]
  BY <1>2, <1>7 DEF Sent, Add, Sub
<1>9. funds'[recipient][Native] - funds[recipient][Native] = amount
  <2> HIDE DEF a
  <2> QED
    BY <1>2, <1>7, <1>8
<1> HIDE DEF from
<1>10. ASSUME NEW q \in Project, NEW id \in InternalId
       PROVE  funds'[Internal(q, id)][Native]
                = funds[Internal(q, id)][Native] - (IF q = p /\ id = from THEN amount ELSE 0)
  <2>1. PICK b \in Account : b = Internal(q, id)
    BY InternalAccount
  <2>2. b # recipient /\ (b = a <=> q = p /\ id = from)
    BY <1>4, <1>5, <2>1, InternalDistinct
  <2>3. funds'[b][Native] = funds[b][Native] - (IF q = p /\ id = from THEN amount ELSE 0)
    BY <1>7, <1>8, <2>2
  <2> QED
    BY <2>1, <2>3
<1>11. projects'[p].status = "PAIDOUT"
  BY <1>3
<1> QED
  BY <1>2, <1>3, <1>4, <1>5, <1>6, <1>9, <1>10, <1>11 DEF StepWithdraws

LEMMA ChargeKeeps ==
  ASSUME CoinsInv, NEW sender \in Did, NEW q \in Project, CanCharge(sender, q),
         NEW created, Move(Charged(sender, q), created)
  PROVE  \A p \in Project : Keeps(p)
<1>1. TypesInv /\ funds \in [Account -> CoinSet]
  BY DEF CoinsInv, LedgerOK, ledger
<1>2. funds' = Charged(sender, q)
  BY DEF Move
<1>3. \A a \in Account \ {sender} : \A d \in Denom : funds'[a][d] >= funds[a][d]
  BY <1>1, <1>2, ChargedFacts
<1> SUFFICES ASSUME NEW p \in Project, NEW id \in InternalId
             PROVE  funds'[Internal(p, id)][Native] >= funds[Internal(p, id)][Native]
  BY DEF Keeps
<1>4. Internal(p, id) \in Account /\ Internal(p, id) # sender
  BY InternalAccount, InternalDistinct
<1> QED
  BY <1>3, <1>4, ProjectAssumption

LEMMA SendKeeps ==
  ASSUME CoinsInv, NEW from \in Did, NEW to \in SendTargets, NEW coins \in SendAmounts,
         Send(from, to, coins)
  PROVE  \A p \in Project : Keeps(p)
<1>1. funds \in [Account -> CoinSet] /\ coins \in CoinSet
  BY ProjectAssumption DEF CoinsInv, LedgerOK, ledger
<1>2. funds' = Sent(from, to, coins)
  BY DEF Send, Move
<1> SUFFICES ASSUME NEW p \in Project, NEW id \in InternalId
             PROVE  funds'[Internal(p, id)][Native] >= funds[Internal(p, id)][Native]
  BY DEF Keeps
<1>3. PICK a \in Account : a = Internal(p, id)
  BY InternalAccount
<1>4. a # from
  BY <1>3, InternalDistinct
<1>5. Native \in Denom /\ coins[Native] \in Nat /\ funds[a][Native] \in Nat
  BY <1>1, ProjectAssumption, Balances DEF CoinSet
<1>6. funds'[a][Native] >= funds[a][Native]
  BY <1>2, <1>4, <1>5 DEF Sent, Add
<1> QED
  BY <1>3, <1>6

LEMMA SameKeeps ==
  ASSUME CoinsInv, UNCHANGED funds
  PROVE  \A p \in Project : Keeps(p)
<1>1. funds \in [Account -> CoinSet]
  BY DEF CoinsInv, LedgerOK, ledger
<1> QED
  BY <1>1, Balances DEF Keeps

\* Nothing else takes coins out of the accounts of a project.
LEMMA OutflowKinds ==
  ASSUME CoinsInv, [Next]_vars
  PROVE  (\A p \in Project : Keeps(p)) \/ StepPays \/ StepPaysOut \/ StepWithdraws
<1>1. ASSUME NEW s \in Did, NEW p \in Project, NEW f \in FeesMaps, CreateProject(s, p, f)
      PROVE  \A q \in Project : Keeps(q)
  BY <1>1, ChargeKeeps DEF CreateProject
<1>2. ASSUME NEW s \in Did, NEW p \in Project, NEW f \in FeesMaps,
             FailToCreateProject(s, p, f)
      PROVE  \A q \in Project : Keeps(q)
  BY <1>2, ChargeKeeps DEF FailToCreateProject
<1>3. ASSUME NEW p \in Project, NEW s \in Status, UpdateProjectStatus(p, s)
      PROVE  UNCHANGED funds
  BY <1>3 DEF UpdateProjectStatus, bank
<1>4. ASSUME NEW p \in Project, FundProject(p) PROVE UNCHANGED funds
  BY <1>4 DEF FundProject, Move
<1>5. ASSUME NEW p \in Project, PayOutProject(p) PROVE StepPaysOut
  BY <1>5, PayoutOutflow
<1>6. ASSUME NEW p \in Project, NEW a \in Agents, CreateAgent(p, a)
      PROVE  UNCHANGED funds
  BY <1>6 DEF CreateAgent, Move
<1>7. ASSUME NEW p \in Project, NEW c \in Agents, NEW i \in ClaimId, CreateClaim(p, c, i)
      PROVE  UNCHANGED funds
  BY <1>7 DEF CreateClaim, bank
<1>8. ASSUME NEW p \in Project, NEW o \in Agents, NEW i \in ClaimId, NEW s \in ClaimStatus,
             CreateEvaluation(p, o, i, s)
      PROVE  StepPays
  BY <1>8, EvaluationOutflow
<1>9. ASSUME NEW p \in Project, NEW r \in Agents, NEW n \in Amounts, NEW b \in BOOLEAN,
             WithdrawFunds(p, r, n, b)
      PROVE  StepWithdraws
  BY <1>9, WithdrawalOutflow
<1>10. ASSUME NEW a \in Did, NEW b \in SendTargets, NEW c \in SendAmounts, Send(a, b, c)
       PROVE  \A q \in Project : Keeps(q)
  BY <1>10, SendKeeps
<1>11. ASSUME NEW new \in ParamChoices, ChangeParams(new) PROVE UNCHANGED funds
  BY <1>11 DEF ChangeParams, bank
<1>12. CASE UNCHANGED vars
  BY <1>12, SameKeeps DEF vars, bank
<1> QED
  BY <1>1, <1>2, <1>3, <1>4, <1>5, <1>6, <1>7, <1>8, <1>9, <1>10, <1>11, <1>12, SameKeeps
     DEF Next

\* What leaves the accounts of a project: by evaluations and withdrawals from one of
\* them, by a payout from the fee accounts.
LEMMA TotalDrop ==
  ASSUME NEW f \in [Account -> CoinSet], NEW g \in [Account -> CoinSet], NEW p \in Project,
         NEW id \in InternalId, NEW n \in Nat,
         \A i \in InternalId :
           g[Internal(p, i)][Native] >= f[Internal(p, i)][Native] - (IF i = id THEN n ELSE 0)
  PROVE  SumOf([i \in InternalId |-> f[Internal(p, i)][Native]], InternalId)
           <= SumOf([i \in InternalId |-> g[Internal(p, i)][Native]], InternalId) + n
<1> DEFINE before == [i \in InternalId |-> f[Internal(p, i)][Native]]
           after == [i \in InternalId |-> g[Internal(p, i)][Native]]
           more == [i \in InternalId |-> IF i = id THEN after[i] + n ELSE after[i]]
<1>1. \A i \in InternalId : before[i] \in Nat /\ after[i] \in Nat
  BY Balances
<1>2. \A i \in InternalId : after[i] >= before[i] - (IF i = id THEN n ELSE 0)
  OBVIOUS
<1>3. IsFiniteSet(InternalId)
  BY AccountsFinite
<1> HIDE DEF before, after
<1>4. \A i \in InternalId : more[i] \in Nat /\ before[i] <= more[i]
  BY <1>1, <1>2
<1>5. more[id] = after[id] + n /\ \A i \in InternalId \ {id} : more[i] = after[i]
  OBVIOUS
<1> HIDE DEF more
<1>6. SumOf(more, InternalId) = SumOf(after, InternalId) - after[id] + more[id]
  BY <1>1, <1>3, <1>4, <1>5, SumUpdate
<1>7. SumOf(before, InternalId) <= SumOf(more, InternalId)
  BY <1>1, <1>3, <1>4, SumMonotone
<1>8. SumOf(after, InternalId) \in Nat /\ SumOf(before, InternalId) \in Nat
  BY <1>1, <1>3, SumType
<1>9. SumOf(before, InternalId) <= SumOf(after, InternalId) + n
  BY <1>1, <1>5, <1>6, <1>7, <1>8
<1> QED
  BY <1>9 DEF before, after

LEMMA TotalWithdrawn ==
  ASSUME NEW f \in [Account -> CoinSet], NEW g \in [Account -> CoinSet], NEW p \in Project,
         NEW id \in InternalId, NEW n \in Nat,
         \A i \in InternalId :
           g[Internal(p, i)][Native] = f[Internal(p, i)][Native] - (IF i = id THEN n ELSE 0)
  PROVE  SumOf([i \in InternalId |-> f[Internal(p, i)][Native]], InternalId)
           = SumOf([i \in InternalId |-> g[Internal(p, i)][Native]], InternalId) + n
<1> DEFINE before == [i \in InternalId |-> f[Internal(p, i)][Native]]
           after == [i \in InternalId |-> g[Internal(p, i)][Native]]
<1>1. \A i \in InternalId : before[i] \in Nat /\ after[i] \in Nat
  BY Balances
<1>2. after[id] = before[id] - n /\ \A i \in InternalId \ {id} : after[i] = before[i]
  <2>1. \A i \in InternalId : after[i] = before[i] - (IF i = id THEN n ELSE 0)
    OBVIOUS
  <2> HIDE DEF before, after
  <2> QED
    BY <1>1, <2>1
<1>3. IsFiniteSet(InternalId)
  BY AccountsFinite
<1> HIDE DEF before, after
<1>4. SumOf(after, InternalId) = SumOf(before, InternalId) - before[id] + after[id]
  BY <1>1, <1>2, <1>3, SumUpdate
<1>5. SumOf(after, InternalId) \in Nat /\ SumOf(before, InternalId) \in Nat
  BY <1>1, <1>3, SumType
<1>6. SumOf(before, InternalId) = SumOf(after, InternalId) + n
  BY <1>1, <1>2, <1>4, <1>5
<1> QED
  BY <1>6 DEF before, after

LEMMA TotalPaidOut ==
  ASSUME AccountsAgree, funds \in [Account -> CoinSet], NEW g \in [Account -> CoinSet],
         NEW p \in DOMAIN projects, p \in Project,
         \A i \in InternalId :
           IF i \in FeeAccounts THEN g[Internal(p, i)][Native] = 0
           ELSE g[Internal(p, i)][Native] = funds[Internal(p, i)][Native]
  PROVE  SumOf([i \in InternalId |-> funds[Internal(p, i)][Native]], InternalId)
           = SumOf([i \in InternalId |-> g[Internal(p, i)][Native]], InternalId) + FeesHeld(p)
<1> DEFINE before == [i \in InternalId |-> funds[Internal(p, i)][Native]]
           after == [i \in InternalId |-> g[Internal(p, i)][Native]]
           held == [i \in FeeAccounts |-> funds[Internal(p, i)][Native]]
           Rest == InternalId \ FeeAccounts
<1>1. \A i \in InternalId : before[i] \in Nat /\ after[i] \in Nat
  BY Balances
<1>2. /\ \A i \in FeeAccounts : after[i] = 0 /\ before[i] = held[i]
      /\ \A i \in Rest : after[i] = before[i]
  BY DEF InternalId
<1>3. FeesHeld(p) \in Nat /\ FeesHeld(p) = SumOf(held, FeeAccounts)
  BY FeesHeldFacts
<1>4. /\ IsFiniteSet(FeeAccounts) /\ IsFiniteSet(Rest)
      /\ Rest \cap FeeAccounts = {} /\ InternalId = Rest \cup FeeAccounts
  BY AccountsFinite, FS_Subset DEF InternalId
<1> HIDE DEF before, after, held, Rest
<1>5. /\ SumOf(before, InternalId) = SumOf(before, Rest) + SumOf(before, FeeAccounts)
      /\ SumOf(after, InternalId) = SumOf(after, Rest) + SumOf(after, FeeAccounts)
  BY <1>1, <1>4, SumUnion
<1>6. SumOf(before, FeeAccounts) = FeesHeld(p) /\ SumOf(before, Rest) = SumOf(after, Rest)
  BY <1>2, <1>3, SumCongruence
<1>7. SumOf(after, FeeAccounts) = 0
  <2>1. 0 \in Nat /\ Cardinality(FeeAccounts) \in Nat
    BY <1>4, FS_CardinalityType
  <2>2. SumOf(after, FeeAccounts) = Cardinality(FeeAccounts) * 0
    BY <1>2, <1>4, <2>1, SumConstant
  <2> QED
    BY <2>1, <2>2
<1>8. SumOf(after, Rest) \in Nat
  BY <1>1, <1>4, SumType
<1>9. SumOf(before, InternalId) = SumOf(after, InternalId) + FeesHeld(p)
  BY <1>3, <1>5, <1>6, <1>7, <1>8
<1> QED
  BY <1>9 DEF before, after

LEMMA TotalType ==
  ASSUME NEW f \in [Account -> CoinSet], NEW p \in Project
  PROVE  SumOf([i \in InternalId |-> f[Internal(p, i)][Native]], InternalId) \in Nat
<1> DEFINE held == [i \in InternalId |-> f[Internal(p, i)][Native]]
<1>1. \A i \in InternalId : held[i] \in Nat
  BY Balances
<1> HIDE DEF held
<1>2. SumOf(held, InternalId) \in Nat
  BY <1>1, SumType, AccountsFinite
<1> QED
  BY <1>2 DEF held

OutflowStep ==
  \A p \in DOMAIN projects : InternalTotal(p)' < InternalTotal(p) =>
    \/ /\ Started(p)
       /\ InternalTotal(p) - InternalTotal(p)' <= PaidBy(p)' - PaidBy(p)
    \/ /\ projects'[p].status = "PAIDOUT"
       /\ InternalTotal(p) - InternalTotal(p)' = Withdrawn(p)' - Withdrawn(p)

LEMMA NextOutflow ==
  ASSUME CoinsInv, [Next]_vars
  PROVE  OutflowStep
<1> SUFFICES ASSUME NEW p \in DOMAIN projects, InternalTotal(p)' < InternalTotal(p)
             PROVE  \/ /\ Started(p)
                       /\ InternalTotal(p) - InternalTotal(p)' <= PaidBy(p)' - PaidBy(p)
                    \/ /\ projects'[p].status = "PAIDOUT"
                       /\ InternalTotal(p) - InternalTotal(p)' = Withdrawn(p)' - Withdrawn(p)
  BY DEF OutflowStep
<1>1. CoinsInv'
  BY CoinsNext
<1>2. funds \in [Account -> CoinSet] /\ funds' \in [Account -> CoinSet]
  BY <1>1 DEF CoinsInv, LedgerOK, ledger
<1>3. AccountsAgree /\ p \in Project
  BY DEF CoinsInv, StoresInv, StoresByProject
<1>4. PICK g \in [Account -> CoinSet] : g = funds'
  BY <1>2
<1> DEFINE total == SumOf([i \in InternalId |-> funds[Internal(p, i)][Native]], InternalId)
           totalAfter == SumOf([i \in InternalId |-> g[Internal(p, i)][Native]], InternalId)
<1>5. InternalTotal(p) = total /\ InternalTotal(p)' = totalAfter
  BY <1>4 DEF InternalTotal
<1>6. total \in Nat /\ totalAfter \in Nat
  BY <1>2, <1>3, TotalType
<1>7. ASSUME NEW id \in InternalId, NEW n \in Nat,
             \A i \in InternalId :
               funds'[Internal(p, i)][Native]
                 >= funds[Internal(p, i)][Native] - (IF i = id THEN n ELSE 0)
      PROVE  total <= totalAfter + n
  BY <1>2, <1>3, <1>4, <1>7, TotalDrop
<1>8. p \in InternalId
  BY <1>3 DEF InternalId
<1>9. \A i \in InternalId : /\ funds[Internal(p, i)][Native] \in Nat
                             /\ funds'[Internal(p, i)][Native] \in Nat
  BY <1>2, <1>3, Balances
<1> HIDE DEF total, totalAfter
<1>10. totalAfter < total
  BY <1>5
<1>11. ~Keeps(p)
  <2> SUFFICES ASSUME Keeps(p) PROVE FALSE
    OBVIOUS
  <2>1. total <= totalAfter + 0
    BY <1>7, <1>8, <1>9 DEF Keeps
  <2> QED
    BY <1>6, <1>10, <2>1
<1>12. CASE StepPays
  <2>1. PICK q \in DOMAIN projects, n \in Nat :
          /\ Started(q) /\ PaidBy(q)' - PaidBy(q) = n
          /\ \A r \in Project : \A id \in InternalId :
               funds'[Internal(r, id)][Native]
                 >= funds[Internal(r, id)][Native] - (IF r = q /\ id = q THEN n ELSE 0)
    BY <1>12 DEF StepPays
  <2>2. p = q
    BY <1>3, <1>9, <1>11, <2>1 DEF Keeps
  <2>3. total <= totalAfter + n
    BY <1>3, <1>7, <1>8, <2>1, <2>2
  <2> QED
    BY <1>5, <1>6, <2>1, <2>2, <2>3
<1>13. CASE StepPaysOut
  <2>1. PICK q \in DOMAIN projects :
          /\ projects'[q].status = "PAIDOUT" /\ Withdrawn(q)' - Withdrawn(q) = FeesHeld(q)
          /\ \A r \in Project : \A id \in InternalId :
               IF r = q /\ id \in FeeAccounts THEN funds'[Internal(r, id)][Native] = 0
               ELSE funds'[Internal(r, id)][Native] = funds[Internal(r, id)][Native]
    BY <1>13 DEF StepPaysOut
  <2>2. p = q
    BY <1>3, <1>9, <1>11, <2>1 DEF Keeps
  <2>3. \A i \in InternalId :
          IF i \in FeeAccounts THEN g[Internal(p, i)][Native] = 0
          ELSE g[Internal(p, i)][Native] = funds[Internal(p, i)][Native]
    BY <1>3, <1>4, <2>1, <2>2
  <2>4. total = totalAfter + FeesHeld(p)
    BY <1>2, <1>3, <2>3, TotalPaidOut DEF total, totalAfter
  <2>5. FeesHeld(p) \in Nat
    BY <1>2, <1>3, FeesHeldFacts
  <2> QED
    BY <1>5, <1>6, <2>1, <2>2, <2>4, <2>5
<1>14. CASE StepWithdraws
  <2>1. PICK q \in DOMAIN projects, from \in InternalId, n \in Nat :
          /\ projects'[q].status = "PAIDOUT" /\ Withdrawn(q)' - Withdrawn(q) = n
          /\ \A r \in Project : \A id \in InternalId :
               funds'[Internal(r, id)][Native]
                 = funds[Internal(r, id)][Native] - (IF r = q /\ id = from THEN n ELSE 0)
    BY <1>14 DEF StepWithdraws
  <2>2. p = q
    BY <1>3, <1>9, <1>11, <2>1 DEF Keeps
  <2>3. \A i \in InternalId :
          g[Internal(p, i)][Native]
            = funds[Internal(p, i)][Native] - (IF i = from THEN n ELSE 0)
    BY <1>3, <1>4, <2>1, <2>2
  <2>4. total = totalAfter + n
    BY <1>2, <1>3, <2>3, TotalWithdrawn DEF total, totalAfter
  <2> QED
    BY <1>5, <1>6, <2>1, <2>2, <2>4
<1> QED
  BY <1>3, <1>11, <1>12, <1>13, <1>14, OutflowKinds

\* Coins leave the accounts of a project by evaluations while it is started, and by
\* payouts and withdrawals once it is paid out, and the contracts and the withdrawals
\* account for all of them (processPay, payoutFees, payoutAndRecon).
THEOREM PayoutsRecorded == Spec => OnlyRecordedPayouts
<1>1. CoinsInv /\ [Next]_vars => [OutflowStep]_vars
  BY NextOutflow
<1> QED
  BY <1>1, CoinsInvariant, PTL DEF Spec, OnlyRecordedPayouts, OutflowStep

OwnerStep ==
  \A p \in DOMAIN projects, id \in Did \cup Project :
    LET left == funds[Internal(p, id)][Native] - funds'[Internal(p, id)][Native]
        owners == IF id = p THEN {p, projects[p].creator} ELSE {id}
    IN  left > 0 /\ ~Started(p) =>
          \E o \in owners : funds'[o][Native] - funds[o][Native] = left

LEMMA NextOwner ==
  ASSUME CoinsInv, [Next]_vars
  PROVE  OwnerStep
<1> SUFFICES ASSUME NEW p \in DOMAIN projects, NEW id \in Did \cup Project,
                    funds[Internal(p, id)][Native] - funds'[Internal(p, id)][Native] > 0,
                    ~Started(p)
             PROVE  \E o \in (IF id = p THEN {p, projects[p].creator} ELSE {id}) :
                      funds'[o][Native] - funds[o][Native]
                        = funds[Internal(p, id)][Native] - funds'[Internal(p, id)][Native]
  BY DEF OwnerStep
<1>1. CoinsInv'
  BY CoinsNext
<1>2. p \in Project /\ id \in InternalId
  BY DEF CoinsInv, StoresInv, StoresByProject, InternalId
<1>3. funds[Internal(p, id)][Native] \in Nat /\ funds'[Internal(p, id)][Native] \in Nat
  BY <1>1, <1>2, Balances DEF CoinsInv, LedgerOK, ledger
<1>4. ~Keeps(p)
  BY <1>2, <1>3 DEF Keeps
<1>5. ~StepPays
  <2> SUFFICES ASSUME StepPays PROVE FALSE
    OBVIOUS
  <2>1. PICK q \in DOMAIN projects, n \in Nat :
          /\ Started(q)
          /\ \A r \in Project : \A i \in InternalId :
               funds'[Internal(r, i)][Native]
                 >= funds[Internal(r, i)][Native] - (IF r = q /\ i = q THEN n ELSE 0)
    BY DEF StepPays
  <2> QED
    BY <1>2, <1>3, <2>1
<1>6. ~StepPaysOut
  <2>1. id \notin FeeAccounts
    BY ProjectAssumption
  <2> QED
    BY <1>2, <1>3, <2>1 DEF StepPaysOut
<1>7. CASE StepWithdraws
  <2>1. PICK q \in DOMAIN projects, from \in InternalId, to \in Did \cup Project, n \in Nat \ {0} :
          /\ from = to \/ (from = q /\ to = projects[q].creator)
          /\ funds'[to][Native] - funds[to][Native] = n
          /\ \A r \in Project : \A i \in InternalId :
               funds'[Internal(r, i)][Native]
                 = funds[Internal(r, i)][Native] - (IF r = q /\ i = from THEN n ELSE 0)
    BY <1>7 DEF StepWithdraws
  <2>2. p = q /\ id = from
    BY <1>2, <1>3, <2>1
  <2>3. funds[Internal(p, id)][Native] - funds'[Internal(p, id)][Native] = n
    BY <1>2, <1>3, <2>1, <2>2
  <2> QED
    BY <2>1, <2>2, <2>3
<1> QED
  BY <1>2, <1>4, <1>5, <1>6, <1>7, OutflowKinds

\* After the work nobody gets what is another's: the account of an agent is emptied by
\* the agent, the account of the project by its creator or under its own DID.
THEOREM WithdrawalsCorrect == Spec => WithdrawnByOwner
<1>1. CoinsInv /\ [Next]_vars => [OwnerStep]_vars
  BY NextOwner
<1> QED
  BY <1>1, CoinsInvariant, PTL DEF Spec, WithdrawnByOwner, OwnerStep

=============================================================================
