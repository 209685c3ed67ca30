--------------------------- MODULE PayoutsProofs ---------------------------
(***************************************************************************)
(* Proofs about Payouts, for every ledger and any number of requests and   *)
(* approvals.                                                              *)
(***************************************************************************)
EXTENDS Payouts, TLAPS

\* A payout exists once its request is done; an approval under way has loaded
\* an existing, pending payout and verified a balance that covers it.
InStep ==
  /\ \A q \in Requests : payouts[q] # "none" <=> request[q].pc = "done"
  /\ \A a \in Approvals :
       /\ approval[a].pc # "idle" =>
            /\ approval[a].loaded = "pending"
            /\ payouts[approval[a].payout] # "none"
       /\ approval[a].pc = "verified" =>
            Amount(approval[a].payout) <= approval[a].verified

IInv ==
  /\ TypeOK
  /\ InStep
  /\ ApprovedIffDebited
  /\ OverdrawnOnlyByOvertaking
  /\ DebitedTwiceOnlyByOvertaking

LEMMA InitIInv == Init => IInv
<1> SUFFICES ASSUME Init
             PROVE  IInv
  OBVIOUS
<1>1. TypeOK
  <2>1. request \in [Requests -> RequestState]
    BY DEF Init, RequestState
  <2>2. approval \in [Approvals -> ApprovalState]
    BY DEF Init, ApprovalState, PayoutStatuses
  <2>. QED
    BY <2>1, <2>2 DEF Init, TypeOK, PayoutStatuses
<1>2. InStep
  BY DEF Init, InStep
<1>3. ApprovedIffDebited /\ DebitedTwiceOnlyByOvertaking
  BY DEF Init, ApprovedIffDebited, DebitedTwiceOnlyByOvertaking
<1>4. OverdrawnOnlyByOvertaking
  BY CreditsAssumption DEF Init, OverdrawnOnlyByOvertaking, Balance
<1>. QED
  BY <1>1, <1>2, <1>3, <1>4 DEF IInv

\* What TypeOK says of one request and of one approval.
LEMMA RowTypes ==
  ASSUME TypeOK
  PROVE  /\ \A q \in Requests : /\ request[q].pc \in {"idle", "checked", "done"}
                                /\ Vendor(q) \in Vendors
                                /\ Amount(q) \in Nat
         /\ \A a \in Approvals : /\ approval[a].payout \in Requests
                                 /\ approval[a].verified \in Int
                                 /\ approval[a].foundBalance \in Int
         /\ \A v \in Vendors : Balance(v) \in Int
<1>1. \A q \in Requests : request[q] \in RequestState
  BY DEF TypeOK
<1>2. \A a \in Approvals : approval[a] \in ApprovalState
  BY DEF TypeOK
<1>3. \A v \in Vendors : Balance(v) \in Int
  BY CreditsAssumption DEF TypeOK, Balance
<1>4. \A q \in Requests : /\ request[q].pc \in {"idle", "checked", "done"}
                          /\ Vendor(q) \in Vendors
                          /\ Amount(q) \in Nat
  BY <1>1, AmountsAssumption DEF RequestState, Vendor, Amount
<1>5. \A a \in Approvals : /\ approval[a].payout \in Requests
                           /\ approval[a].verified \in Int
                           /\ approval[a].foundBalance \in Int
  BY <1>2 DEF ApprovalState
<1>. QED
  BY <1>3, <1>4, <1>5

LEMMA RequestKeeps ==
  ASSUME IInv, NEW q \in Requests, RequestPayout(q)
  PROVE  IInv'
<1>1. /\ TypeOK
      /\ request[q].pc # "done"
      /\ payouts[q] = "none"
      /\ debits[q] = 0
  BY DEF IInv, RequestPayout, RequestCheck, RequestCreate, InStep, TypeOK,
         ApprovedIffDebited
<1>2. /\ \A x \in Requests : /\ request'[x].vendor = request[x].vendor
                             /\ request'[x].amount = request[x].amount
      /\ \A x \in Requests \ {q} : /\ request'[x] = request[x]
                                   /\ payouts'[x] = payouts[x]
      /\ payouts'[q] # "none" <=> request'[q].pc = "done"
      /\ payouts'[q] \in {"none", "pending"}
      /\ UNCHANGED <<debited, debits, approval>>
  <2>1. CASE RequestCheck(q)
    BY <1>1, <2>1 DEF RequestCheck, TypeOK, RequestState
  <2>2. CASE RequestCreate(q)
    BY <1>1, <2>2 DEF RequestCreate, TypeOK, RequestState
  <2>. QED
    BY <2>1, <2>2 DEF RequestPayout
<1>3. TypeOK'
  <2>1. request' \in [Requests -> RequestState]
    BY <1>1 DEF RequestPayout, RequestCheck, RequestCreate, TypeOK, RequestState
  <2>2. payouts' \in [Requests -> PayoutStatuses]
    BY <1>1 DEF RequestPayout, RequestCheck, RequestCreate, TypeOK, PayoutStatuses
  <2>. QED
    BY <1>1, <1>2, <2>1, <2>2 DEF TypeOK
<1>4. InStep'
  BY <1>1, <1>2, RowTypes DEF IInv, InStep, Amount
<1>5. ApprovedIffDebited'
  BY <1>1, <1>2 DEF IInv, ApprovedIffDebited
<1>6. OverdrawnOnlyByOvertaking'
  BY <1>1, <1>2, RowTypes DEF IInv, OverdrawnOnlyByOvertaking, Balance, BalanceMoved, Vendor
<1>7. DebitedTwiceOnlyByOvertaking'
  BY <1>2 DEF IInv, DebitedTwiceOnlyByOvertaking, StatusMoved
<1>. QED
  BY <1>3, <1>4, <1>5, <1>6, <1>7 DEF IInv

\* The steps of an approval that write no table.
LEMMA ApprovalKeeps ==
  ASSUME IInv, NEW a \in Approvals,
         ApproveLoad(a) \/ ApproveVerify(a) \/ ApproveFail(a)
  PROVE  IInv'
<1>1. /\ TypeOK
      /\ approval[a].payout \in Requests
      /\ UNCHANGED <<request, payouts, debited, debits>>
  BY RowTypes DEF IInv, ApproveLoad, ApproveVerify, ApproveFail
<1>2. /\ approval[a].pc # "done"
      /\ approval'[a].pc # "done"
      /\ \A x \in Approvals : approval'[x].payout = approval[x].payout
      /\ \A x \in Approvals \ {a} : approval'[x] = approval[x]
  <2>1. CASE ApproveLoad(a)
    BY <1>1, <2>1 DEF ApproveLoad, TypeOK, ApprovalState
  <2>2. CASE ApproveVerify(a)
    BY <1>1, <2>2 DEF ApproveVerify, TypeOK, ApprovalState
  <2>3. CASE ApproveFail(a)
    BY <1>1, <2>3 DEF ApproveFail, TypeOK, ApprovalState
  <2>. QED
    BY <2>1, <2>2, <2>3
<1>3. TypeOK'
  <2>1. /\ payouts[approval[a].payout] \in PayoutStatuses
        /\ Balance(Vendor(approval[a].payout)) \in Int
    BY <1>1, RowTypes DEF TypeOK
  <2>2. CASE ApproveLoad(a)
    BY <1>1, <2>1, <2>2 DEF ApproveLoad, TypeOK, ApprovalState
  <2>3. CASE ApproveVerify(a)
    BY <1>1, <2>1, <2>3 DEF ApproveVerify, TypeOK, ApprovalState
  <2>4. CASE ApproveFail(a)
    BY <1>1, <2>4 DEF ApproveFail, TypeOK, ApprovalState
  <2>. QED
    BY <2>2, <2>3, <2>4
<1>4. InStep'
  <2>1. /\ approval'[a].loaded = "pending"
        /\ payouts[approval[a].payout] # "none"
    <3>1. CASE ApproveLoad(a)
      BY <1>1, <3>1 DEF ApproveLoad, Loadable, TypeOK, ApprovalState
    <3>2. CASE ApproveVerify(a)
      BY <1>1, <3>2 DEF ApproveVerify, TypeOK, ApprovalState, IInv, InStep
    <3>3. CASE ApproveFail(a)
      BY <1>1, <3>3 DEF ApproveFail, TypeOK, ApprovalState, IInv, InStep
    <3>. QED
      BY <3>1, <3>2, <3>3
  <2>2. approval'[a].pc = "verified" =>
          Amount(approval[a].payout) <= approval'[a].verified
    <3>1. CASE ApproveLoad(a)
      BY <1>1, <3>1 DEF ApproveLoad, TypeOK
    <3>2. CASE ApproveVerify(a)
      BY <1>1, <3>2 DEF ApproveVerify, Covered, TypeOK, ApprovalState
    <3>3. CASE ApproveFail(a)
      BY <1>1, <3>3 DEF ApproveFail, TypeOK
    <3>. QED
      BY <3>1, <3>2, <3>3
  <2>. QED
    BY <1>1, <1>2, <2>1, <2>2 DEF IInv, InStep, Amount
<1>5. ApprovedIffDebited'
  BY <1>1 DEF IInv, ApprovedIffDebited
<1>6. OverdrawnOnlyByOvertaking'
  BY <1>1, <1>2 DEF IInv, OverdrawnOnlyByOvertaking, Balance, BalanceMoved, Vendor
<1>7. DebitedTwiceOnlyByOvertaking'
  BY <1>1, <1>2 DEF IInv, DebitedTwiceOnlyByOvertaking, StatusMoved
<1>. QED
  BY <1>3, <1>4, <1>5, <1>6, <1>7 DEF IInv

LEMMA CommitKeeps ==
  ASSUME IInv, NEW a \in Approvals, ApproveCommit(a),
         NEW q \in Requests, q = approval[a].payout,
         NEW v \in Vendors, v = Vendor(q)
  PROVE  IInv'
<1>1. /\ TypeOK
      /\ Amount(q) \in Nat
      /\ approval[a].pc = "verified"
      /\ approval[a].loaded = "pending"
      /\ payouts[q] # "none"
      /\ Amount(q) <= approval[a].verified
      /\ approval[a].verified \in Int
      /\ debits[q] \in Nat
      /\ \A x \in Vendors : Balance(x) \in Int
  BY RowTypes DEF IInv, InStep, ApproveCommit, TypeOK
<1>2. /\ approval'[a].pc = "done"
      /\ approval'[a].loaded = "pending"
      /\ approval'[a].payout = q
      /\ approval'[a].verified = approval[a].verified
      /\ approval'[a].foundBalance = Balance(v)
      /\ approval'[a].foundStatus = payouts[q]
      /\ \A x \in Approvals : approval'[x].payout = approval[x].payout
      /\ \A x \in Approvals \ {a} : approval'[x] = approval[x]
  BY <1>1 DEF ApproveCommit, TypeOK
<1>3. /\ request' = request
      /\ payouts'[q] = "approved"
      /\ \A x \in Requests \ {q} : payouts'[x] = payouts[x]
      /\ debits'[q] = debits[q] + 1
      /\ \A x \in Requests \ {q} : debits'[x] = debits[x]
      /\ debited'[v] = debited[v] + Amount(q)
      /\ \A x \in Vendors \ {v} : debited'[x] = debited[x]
  BY <1>1 DEF ApproveCommit, DebitEntered, TypeOK
<1>4. TypeOK'
  <2>1. approval' \in [Approvals -> ApprovalState]
    <3>1. payouts[q] \in PayoutStatuses /\ Balance(v) \in Int
      BY <1>1 DEF TypeOK
    <3>. QED
      BY <1>1, <3>1 DEF ApproveCommit, TypeOK, ApprovalState
  <2>2. /\ payouts' \in [Requests -> PayoutStatuses]
        /\ debited' \in [Vendors -> Nat]
        /\ debits' \in [Requests -> Nat]
    BY <1>1 DEF ApproveCommit, DebitEntered, TypeOK, PayoutStatuses
  <2>. QED
    BY <1>1, <1>3, <2>1, <2>2 DEF TypeOK
<1>5. InStep'
  BY <1>1, <1>2, <1>3, RowTypes DEF IInv, InStep, Amount
<1>6. ApprovedIffDebited'
  BY <1>1, <1>3 DEF IInv, ApprovedIffDebited, TypeOK
<1>7. Balance(v)' = Balance(v) - Amount(q) /\ \A x \in Vendors \ {v} : Balance(x)' = Balance(x)
  BY <1>1, <1>3, CreditsAssumption DEF Balance, TypeOK
<1>8. \A x \in Approvals : BalanceMoved(x) => BalanceMoved(x)'
  BY <1>1, <1>2 DEF BalanceMoved
<1>9. OverdrawnOnlyByOvertaking'
  <2>1. ASSUME NEW x \in Vendors \ {v}, Balance(x)' < 0
        PROVE  \E b \in Approvals : /\ request'[approval'[b].payout].vendor = x
                                    /\ BalanceMoved(b)'
    BY <1>2, <1>3, <1>7, <1>8, <2>1 DEF IInv, OverdrawnOnlyByOvertaking, Vendor
  <2>2. ASSUME Balance(v)' < 0
        PROVE  \E b \in Approvals : /\ request'[approval'[b].payout].vendor = v
                                    /\ BalanceMoved(b)'
    <3>1. approval[a].verified # Balance(v)
      BY <1>1, <1>7, <2>2
    <3>2. BalanceMoved(a)'
      BY <1>2, <3>1 DEF BalanceMoved
    <3>. QED
      BY <1>2, <1>3, <3>2 DEF Vendor
  <2>. QED
    BY <2>1, <2>2 DEF OverdrawnOnlyByOvertaking, Vendor
<1>10. DebitedTwiceOnlyByOvertaking'
  <2>1. \A x \in Approvals : StatusMoved(x) => StatusMoved(x)'
    BY <1>1, <1>2 DEF StatusMoved
  <2>2. ASSUME debits'[q] > 1
        PROVE  approval'[a].payout = q /\ StatusMoved(a)'
    <3>1. payouts[q] # "pending"
      BY <1>1, <1>3, <2>2 DEF IInv, ApprovedIffDebited
    <3>. QED
      BY <1>2, <3>1 DEF StatusMoved
  <2>3. ASSUME NEW x \in Requests \ {q}, debits'[x] > 1
        PROVE  \E b \in Approvals : approval'[b].payout = x /\ StatusMoved(b)'
    BY <1>2, <1>3, <2>1, <2>3 DEF IInv, DebitedTwiceOnlyByOvertaking
  <2>. QED
    BY <2>2, <2>3 DEF DebitedTwiceOnlyByOvertaking
<1>. QED
  BY <1>4, <1>5, <1>6, <1>9, <1>10 DEF IInv

LEMMA RejectKeeps ==
  ASSUME IInv, NEW q \in Requests, RejectPayout(q)
  PROVE  IInv'
<1>1. /\ UNCHANGED <<request, debited, debits, approval>>
      /\ payouts[q] # "none" /\ payouts'[q] = "rejected"
      /\ \A x \in Requests \ {q} : payouts'[x] = payouts[x]
  BY DEF IInv, RejectPayout, TypeOK
<1>2. TypeOK'
  BY DEF IInv, RejectPayout, TypeOK, PayoutStatuses
<1>3. InStep'
  BY <1>1, RowTypes DEF IInv, InStep, Amount
<1>4. ApprovedIffDebited' /\ DebitedTwiceOnlyByOvertaking'
  BY <1>1 DEF IInv, ApprovedIffDebited, DebitedTwiceOnlyByOvertaking, StatusMoved
<1>5. OverdrawnOnlyByOvertaking'
  BY <1>1 DEF IInv, OverdrawnOnlyByOvertaking, Balance, BalanceMoved, Vendor
<1>. QED
  BY <1>2, <1>3, <1>4, <1>5 DEF IInv

LEMMA NextIInv == IInv /\ [Next]_vars => IInv'
<1> SUFFICES ASSUME IInv, [Next]_vars
             PROVE  IInv'
  OBVIOUS
<1>1. ASSUME NEW a \in Approvals, ApprovePayout(a)
      PROVE  IInv'
  <2>1. /\ approval[a].payout \in Requests
        /\ Vendor(approval[a].payout) \in Vendors
    BY RowTypes DEF IInv
  <2>. QED
    BY <1>1, <2>1, ApprovalKeeps, CommitKeeps DEF ApprovePayout
<1>2. CASE UNCHANGED vars
  <2>1. TypeOK'
    BY <1>2 DEF vars, IInv, TypeOK
  <2>2. InStep' /\ ApprovedIffDebited' /\ DebitedTwiceOnlyByOvertaking'
    BY <1>2 DEF vars, IInv, InStep, Amount, ApprovedIffDebited,
                DebitedTwiceOnlyByOvertaking, StatusMoved
  <2>3. OverdrawnOnlyByOvertaking'
    BY <1>2 DEF vars, IInv, OverdrawnOnlyByOvertaking, Balance, BalanceMoved, Vendor
  <2>. QED
    BY <2>1, <2>2, <2>3 DEF IInv
<1>. QED
  BY <1>1, <1>2, RequestKeeps, RejectKeeps DEF Next

LEMMA Invariance == Spec => []IInv
BY InitIInv, NextIInv, PTL DEF Spec

----------------------------------------------------------------------------
(* Theorems *)

\* Every reachable state has the types TypeOK gives.
THEOREM TypeCorrect == Spec => []TypeOK
<1>1. IInv => TypeOK
  BY DEF IInv
<1>. QED
  BY <1>1, Invariance, PTL

\* The ledger is overdrawn only by approvals that overtake each other, however
\* many requests are made at once.
THEOREM OverdraftNeedsOvertaking == Spec => []OverdrawnOnlyByOvertaking
<1>1. IInv => OverdrawnOnlyByOvertaking
  BY DEF IInv
<1>. QED
  BY <1>1, Invariance, PTL

\* An approved payout is in the ledger and a pending one is not, and a payout is
\* debited again only by an approval that loaded it before.
THEOREM LedgerFollowsPayouts == Spec => []DebitsFollowPayouts
<1>1. IInv => DebitsFollowPayouts
  BY DEF IInv, DebitsFollowPayouts
<1>. QED
  BY <1>1, Invariance, PTL
=============================================================================
