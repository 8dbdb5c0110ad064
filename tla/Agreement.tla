------------------------------ MODULE Agreement ------------------------------
(***************************************************************************)
(* What the payments module promises the payer and the recipients of a     *)
(* contract, whoever effects it, when, how often and at which discount:    *)
(* nothing without authorisation, the first payment at least the minimum,  *)
(* never more than the maximum, and all of it for the recipients but for   *)
(* what rounding leaves.  There are no templates here, no subscriptions,   *)
(* no pool and no blocks.                                                  *)
(***************************************************************************)
EXTENDS Coins

CONSTANT Id                 \* the contracts that can be made
VARIABLE agreements         \* what has been agreed and paid, by contract

\* What has been paid keeps to the limits that were agreed, and the recipients
\* have received it, up to less than one coin for each of them.
KeepsTerms(a) ==
  /\ Covers(a.paid, a.minimum)
  /\ \A d \in Denom : a.maximum[d] # 0 => a.paid[d] <= a.maximum[d]
  /\ Covers(a.paid, a.received)
  /\ \A d \in Denom : a.paid[d] # a.received[d] => a.paid[d] - a.received[d] < a.shares

\* Nobody else's agreement is touched, and no agreement is ever dropped.
OnlyChanges(id) ==
  /\ DOMAIN agreements' = DOMAIN agreements \cup {id}
  /\ \A i \in DOMAIN agreements : i # id => agreements'[i] = agreements[i]

\* Of agreement id, nothing changes but these fields.
OnlyFields(fields, id) ==
  /\ DOMAIN agreements'[id] = DOMAIN agreements[id]
  /\ \A f \in DOMAIN agreements[id] \ fields : agreements'[id][f] = agreements[id][f]

Init == agreements = Empty

Agree(id) ==
  /\ id \notin DOMAIN agreements
  /\ OnlyChanges(id)
  /\ ~agreements'[id].authorised
  /\ agreements'[id].paid = NoCoins /\ agreements'[id].received = NoCoins

\* The payer changes his mind, which he may do once if it is irrevocable.
Authorise(id) ==
  /\ id \in DOMAIN agreements
  /\ agreements[id].authorised => agreements[id].revocable
  /\ OnlyChanges(id)
  /\ OnlyFields({"authorised"}, id)

\* The limits that were agreed stay as they are.
Pay(id) ==
  /\ id \in DOMAIN agreements /\ agreements[id].authorised
  /\ OnlyChanges(id)
  /\ OnlyFields({"paid", "received"}, id)
  /\ LET before == agreements[id]
         after == agreements'[id]
     IN  /\ after.paid # before.paid /\ Covers(after.paid, before.paid)
         /\ Covers(after.received, before.received)
         /\ KeepsTerms(after)

Next == \E id \in Id : Agree(id) \/ Authorise(id) \/ Pay(id)

Spec == Init /\ [][Next]_agreements

=============================================================================
