-------------------------- MODULE ProjectsGenesis --------------------------
(***************************************************************************)
(* A chain of projects that is exported and started again from the         *)
(* exported genesis state.  The project module writes its store into four  *)
(* lists, one entry for each project, and reads them back by index.  The   *)
(* accounts, the coins and the contracts of the payments module travel     *)
(* with the genesis states of other modules, which restore them.           *)
(***************************************************************************)
EXTENDS Projects

CONSTANTS
  ProjectOrder,  \* all of Project, in the order of the store
  ClaimOrder     \* all of ClaimId, in the order of the store

VARIABLES
  phase,    \* of the chain: "running", "exported" or "failed"
  genesis   \* the GenesisState that was exported last

chainVars == <<vars, phase, genesis>>

-----------------------------------------------------------------------------
\* GetClaimIterator
ClaimsInOrder(p) ==
  LET ids == SelectSeq(ClaimOrder, LAMBDA id : <<p, id>> \in DOMAIN claims)
  IN  [j \in DOMAIN ids |-> [id |-> ids[j], claim |-> claims[<<p, ids[j]>>]]]

\* The four lists, in the order of GetProjectDocIterator.
GenesisState ==
  LET order == SelectSeq(ProjectOrder, LAMBDA p : p \in DOMAIN projects)
  IN  [i \in DOMAIN order |->
         [projectDid |-> order[i], project |-> projects[order[i]],
          accounts |-> accounts[order[i]], withdrawals |-> withdrawals[order[i]],
          claims |-> ClaimsInOrder(order[i])]]

\* ExportGenesis; the chain does not go on.
ExportGenesis ==
  /\ phase = "running"
  /\ phase' = "exported" /\ genesis' = GenesisState
  /\ UNCHANGED vars

\* The inner loop takes its length from the list of lists.
ClaimsRead == 1 .. Len(genesis)
CanRead(i) == ClaimsRead \subseteq DOMAIN genesis[i].claims

\* InitGenesis, into an empty store.
InitGenesis ==
  /\ phase = "exported" /\ \A i \in DOMAIN genesis : CanRead(i)
  /\ LET of == [p \in {genesis[i].projectDid : i \in DOMAIN genesis} |->
                  CHOOSE i \in DOMAIN genesis : genesis[i].projectDid = p]
         read == {<<i, j>> : i \in DOMAIN genesis, j \in ClaimsRead}
         keyOf(r) == <<genesis[r[1]].projectDid, genesis[r[1]].claims[r[2]].id>>
     IN  /\ projects' = [p \in DOMAIN of |-> genesis[of[p]].project]
         /\ accounts' = [p \in DOMAIN of |-> genesis[of[p]].accounts]
         /\ withdrawals' = [p \in DOMAIN of |-> genesis[of[p]].withdrawals]
         /\ claims' = [k \in {keyOf(r) : r \in read} |->
                         LET r == CHOOSE r \in read : keyOf(r) = k
                         IN  genesis[r[1]].claims[r[2]].claim]
  /\ phase' = "running"
  /\ UNCHANGED <<contracts, bank, params, genesis>>

\* An index out of range; the new chain does not start.
InitGenesisPanics ==
  /\ phase = "exported" /\ \E i \in DOMAIN genesis : ~CanRead(i)
  /\ phase' = "failed"
  /\ UNCHANGED <<vars, genesis>>

GenesisInit == Init /\ phase = "running" /\ genesis = <<>>

GenesisNext ==
  \/ phase = "running" /\ Next /\ UNCHANGED <<phase, genesis>>
  \/ ExportGenesis \/ InitGenesis \/ InitGenesisPanics

GenesisSpec == GenesisInit /\ [][GenesisNext]_chainVars

-----------------------------------------------------------------------------
\* "Initialise project docs, account maps, project withdrawals, claims"
\* (genesis.go): a chain that starts from an exported state has all of them
\* as they were.
ImportRestoresTheStore ==
  [][phase = "exported" => phase' = "running" /\ docs' = docs]_chainVars

=============================================================================
