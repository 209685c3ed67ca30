------------------------------ MODULE Payouts ------------------------------
(***************************************************************************)
(* Withdrawals from the vendor ledger: VendorService.RequestPayout and     *)
(* AdminService.ApprovePayout and RejectPayout.  Every SELECT is a step of *)
(* its own, for none of them takes a lock; the writes of a transaction are *)
(* one step.                                                               *)
(*                                                                         *)
(* Only requests of approved vendors are modelled: the others are turned   *)
(* away first.  The ledger's credits are a constant: no statement of the   *)
(* program succeeds in writing one (see WebhookCredits in OrderPayments),  *)
(* so they are rows somebody entered by other means.                       *)
(***************************************************************************)
EXTENDS Integers, FiniteSets, FiniteSetsExt

CONSTANTS
  Vendors,
  Credits,    \* each vendor's ledger credits
  Amounts,    \* amounts the vendors ask for
  Requests,   \* calls of RequestPayout, and the payout each may create
  Approvals   \* calls of ApprovePayout

ASSUME CreditsAssumption == Credits \in [Vendors -> Nat]
ASSUME AmountsAssumption == Amounts \subseteq Nat \ {0}

VARIABLES
  request,   \* the calls of RequestPayout: program counter, vendor, amount
  payouts,   \* payouts.status, "none" if there is no such row
  debited,   \* sum of each vendor's ledger debits
  debits,    \* ledger debits that refer to each payout
  approval   \* the calls of ApprovePayout: program counter, payout, the status
             \* loaded and the balance verified, and the same two as they were
             \* when the transaction wrote

vars == <<request, payouts, debited, debits, approval>>

----------------------------------------------------------------------------

Vendor(q) == request[q].vendor
Amount(q) == request[q].amount

\* Credits less debits.
Balance(v) == Credits[v] - debited[v]

\* Payouts that a new request must leave covered.  An approved payout has been
\* debited already and counts a second time, though the comment at
\* vendor_service.go:186 speaks of pending payouts only.
Held(v) ==
  MapThenSumSet(Amount,
    {q \in Requests : payouts[q] \in {"pending", "approved"} /\ Vendor(q) = v})

Init ==
  /\ request \in [Requests -> [pc : {"idle"}, vendor : Vendors, amount : Amounts]]
  /\ payouts = [q \in Requests |-> "none"]
  /\ debited = [v \in Vendors |-> 0]
  /\ debits = [q \in Requests |-> 0]
  /\ approval \in [Approvals ->
       [pc : {"idle"}, payout : Requests, loaded : {"none"}, verified : {0},
        foundStatus : {"none"}, foundBalance : {0}]]

----------------------------------------------------------------------------
(* VendorService.RequestPayout *)

RequestCheck(q) ==
  /\ request[q].pc = "idle"
  /\ Amount(q) <= Balance(Vendor(q)) - Held(Vendor(q))
  /\ request' = [request EXCEPT ![q].pc = "checked"]
  /\ UNCHANGED <<payouts, debited, debits, approval>>

RequestCreate(q) ==
  /\ request[q].pc = "checked"
  /\ request' = [request EXCEPT ![q].pc = "done"]
  /\ payouts' = [payouts EXCEPT ![q] = "pending"]
  /\ UNCHANGED <<debited, debits, approval>>

----------------------------------------------------------------------------
(* AdminService.ApprovePayout *)

\* Mistake: any payout may be approved again.
LoadableIfCreated(q) == payouts[q] # "none"

Loadable(q) == payouts[q] = "pending"

ApproveLoad(a) ==
  /\ approval[a].pc = "idle"
  /\ Loadable(approval[a].payout)
  /\ approval' = [approval EXCEPT ![a].pc = "loaded",
                                  ![a].loaded = payouts[approval[a].payout]]
  /\ UNCHANGED <<request, payouts, debited, debits>>

\* Mistake: the balance is not looked at again.
CoveredAnyway(q) == TRUE

Covered(q) == Amount(q) <= Balance(Vendor(q))

\* The balance is verified.
ApproveVerify(a) ==
  LET q == approval[a].payout IN
  /\ approval[a].pc = "loaded"
  /\ Covered(q)
  /\ approval' = [approval EXCEPT ![a].pc = "verified",
                                  ![a].verified = Balance(Vendor(q))]
  /\ UNCHANGED <<request, payouts, debited, debits>>

\* Mistakes: the debit is forgotten, or has the wrong sign.
NoDebit(q) == debits
DebitReversed(q) == [debits EXCEPT ![q] = @ - 1]

DebitEntered(q) == [debits EXCEPT ![q] = @ + 1]

\* The status is set and the ledger debited, whatever both are by now.
ApproveCommit(a) ==
  LET q == approval[a].payout IN
  /\ approval[a].pc = "verified"
  /\ approval' = [approval EXCEPT ![a].pc = "done",
                                  ![a].foundBalance = Balance(Vendor(q)),
                                  ![a].foundStatus = payouts[q]]
  /\ payouts' = [payouts EXCEPT ![q] = "approved"]
  /\ debited' = [debited EXCEPT ![Vendor(q)] = @ + Amount(q)]
  /\ debits' = DebitEntered(q)
  /\ UNCHANGED request

\* A statement fails or the process dies: the transaction is rolled back.
ApproveFail(a) ==
  /\ approval[a].pc \in {"loaded", "verified"}
  /\ approval' = [approval EXCEPT ![a].pc = "failed"]
  /\ UNCHANGED <<request, payouts, debited, debits>>

----------------------------------------------------------------------------

\* AdminService.RejectPayout asks for no particular status.
RejectPayout(q) ==
  /\ payouts[q] # "none"
  /\ payouts' = [payouts EXCEPT ![q] = "rejected"]
  /\ UNCHANGED <<request, debited, debits, approval>>

ApprovePayout(a) ==
  \/ ApproveLoad(a)
  \/ ApproveVerify(a)
  \/ ApproveCommit(a)
  \/ ApproveFail(a)

RequestPayout(q) ==
  \/ RequestCheck(q)
  \/ RequestCreate(q)

Next ==
  \/ \E q \in Requests : RequestPayout(q)
  \/ \E a \in Approvals : ApprovePayout(a)
  \/ \E q \in Requests : RejectPayout(q)

Spec == Init /\ [][Next]_vars

----------------------------------------------------------------------------
(* Correctness *)

PayoutStatuses == {"none", "pending", "approved", "rejected"}

RequestState ==
  [pc : {"idle", "checked", "done"}, vendor : Vendors, amount : Amounts]

ApprovalState ==
  [pc : {"idle", "loaded", "verified", "done", "failed"}, payout : Requests,
   loaded : PayoutStatuses, verified : Int,
   foundStatus : PayoutStatuses, foundBalance : Int]

\* Every variable has its type.
TypeOK ==
  /\ request \in [Requests -> RequestState]
  /\ payouts \in [Requests -> PayoutStatuses]
  /\ debited \in [Vendors -> Nat]
  /\ debits \in [Requests -> Nat]
  /\ approval \in [Approvals -> ApprovalState]

\* Whether a was entered in a ledger with another balance than it verified,
\* or on a payout with another status than it loaded.
BalanceMoved(a) ==
  approval[a].pc = "done" /\ approval[a].foundBalance # approval[a].verified

StatusMoved(a) ==
  approval[a].pc = "done" /\ approval[a].foundStatus # approval[a].loaded

\* However far the vendors' requests exceed the ledger together, it is only
\* overdrawn if an approval was entered after another had used the balance it
\* verified.
OverdrawnOnlyByOvertaking ==
  \A v \in Vendors :
    Balance(v) < 0 =>
      \E a \in Approvals : Vendor(approval[a].payout) = v /\ BalanceMoved(a)

\* An approved payout has been debited, and one that is pending has not.
ApprovedIffDebited ==
  \A q \in Requests :
    /\ payouts[q] = "approved" => debits[q] > 0
    /\ payouts[q] \in {"none", "pending"} => debits[q] = 0

\* A payout is debited once, unless an approval was entered although the payout
\* had been decided since it was loaded.
DebitedTwiceOnlyByOvertaking ==
  \A q \in Requests :
    debits[q] > 1 => \E a \in Approvals : approval[a].payout = q /\ StatusMoved(a)

\* The ledger follows the payouts: it has a debit of each that is approved and none
\* of those that are pending, and no second one unless an approval overtook another
\* decision. A rejected payout keeps the debit of an approval before it, of which
\* nothing is claimed (RejectPayout leaves the ledger alone).
DebitsFollowPayouts == ApprovedIffDebited /\ DebitedTwiceOnlyByOvertaking

\* admin_service.go:199 has the balance verified again at approval time: the
\* ledger is not overdrawn.
NeverOverdrawn == \A v \in Vendors : Balance(v) >= 0
=============================================================================
