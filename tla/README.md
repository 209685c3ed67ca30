# Formal models of the Rhovic marketplace backend

TLA+ models of the Go program under `src/`, checked with TLC and, for the
modules marked so, proved with TLAPS. The program is a set of HTTP handlers over
one PostgreSQL database; nearly everything that can go wrong in it goes wrong
*between* the statements of concurrent requests, so that is what the models are
about.

## The system

| Component | Source (under `src/internal`) | State | Operations |
| --- | --- | --- | --- |
| Order and payment lifecycle | `services/checkout_service.go`, `services/payment_proofs.go` | `orders` (four status columns), `payments`, `payment_proofs`, `vendor_orders`, `vendor_payouts`, `products.stock_quantity`, `audit_logs`, proof files on disk | checkout, proof upload, approve and reject a payment, mark a vendor payout paid, update fulfilment |
| Split of the money | `services/checkout_helpers.go`, `Checkout` | rows written by a checkout | commission rate, line totals, vendor totals |
| Paystack webhook | `services/payments_service.go`, `handlers/webhook_handlers.go`, `paystack/` | `webhook_events`, `payments`, `orders.status`, ledger, stock | verify, mark paid, deduct and credit |
| Ledger and withdrawals | `services/vendor_service.go`, `services/admin_service.go`, `repo/payouts_repo.go`, `repo/ledger_repo.go` | `payouts`, `vendor_ledger` | request, approve, reject a payout |
| Catalogue | `services/vendor_service.go`, `services/admin_service.go`, `repo/*products_repo.go` | `products`, `settings` | create, update, delete, unpublish, set commissions |
| Vendor and user administration | `services/admin_service.go`, `repo/vendors_repo.go`, `repo/users_repo.go` | `users`, `vendors` | register, apply, approve, reject, delete, log out |
| Sessions | `services/auth_service.go`, `repo/refresh_tokens_repo.go` | `refresh_tokens` | login, refresh (rotation), logout |
| Verification and reset | `services/auth_service.go`, `repo/email_verification_tokens_repo.go`, `repo/password_reset_tokens_repo.go` | one-time codes and reset tokens | issue, consume, resend |
| Login lock and rate limits | `services/auth_protection_service.go`, `middleware/ratelimit.go`, `repo/security_events_repo.go` | `security_events`; maps in memory | allow, lock, log |
| Support threads | `services/support_service.go`, `repo/support_repo.go` | `support_threads`, `support_messages` | open, reply, close |
| Connection pool, transactions | `db/postgres.go`, `db/tx.go` | 20 connections | begin, commit, roll back |
| Analytics, mail, captcha, read-only queries, HTTP plumbing | the rest | caches, none | reporting, network output, routing |

The components meet in the database. Checkout reads the catalogue and writes an
order; uploads, the administrator's decision and the webhook then write the same
order's rows; the decision also takes stock, which vendors overwrite, and queues
vendor payouts. Approvals of withdrawals debit the ledger that requests are
checked against. Deleting a vendor touches catalogue, sessions and roles.

What makes it hard:

* **Unlocked reads.** Transactions run at PostgreSQL's default READ COMMITTED
  (`db/tx.go:13` asks for nothing else). Only `AdminApprovePayment`,
  `AdminRejectPayment` and `AdminMarkVendorPayoutPaid` take `FOR UPDATE`; every
  other operation decides on rows that may have changed when it writes.
* **Redundant state.** An order's fate is spread over `orders.payment_status`,
  `bank_transfer_status`, `order_status`, `status`, `payments.status`, the proofs
  and the payouts, written by different statements of different handlers.
* **Dropped errors** (webhook, refresh), **work outside the transaction**
  (deletions, registration, one-time codes), **files** that a rollback leaves.
* **Limits**: stock, the pool of connections, limiter maps, the cache of locations.
* **Work that outlives its request**: mails that arrive late or not at all, visits
  that are located and stored by goroutines of their own.

`PROJECT.json` lists these hazards line by line, with the properties that cover
them and the ones that are still open.

## Modules

| Module | Models | Granularity |
| --- | --- | --- |
| `OrderPayments` | orders from cart to payout, with uploads, administrator, webhook and vendors | committed transactions; an unlocked read is a step of its own |
| `OrderPaymentsProofs` | theorems about `OrderPayments` | |
| `OrderTx` | uploads, approvals, rejections and webhooks of `OrderPayments`, which it extends | statements, with row locks, rollback and deadlock |
| `OrderTxProofs` | theorems about `OrderTx`: it implements `OrderPayments` | |
| `Checkout` | one `Checkout` call: rates, rounding, split, rows; the catalogue changing meanwhile | one line of the request a step |
| `CheckoutProofs` | theorems about `Checkout` | |
| `Payouts` | withdrawals from the vendor ledger | one SELECT a step, the writes of a transaction one step |
| `PayoutsProofs` | theorems about `Payouts` | |
| `Accounts` | sessions, vendors, products and the administrators who end them; the pool of connections | statements, each committed by itself |
| `AccountsProofs` | theorems about `Accounts` | |
| `Signup` | registration, verification codes, password resets, mails | statements, each committed by itself |
| `SignupProofs` | theorems about `Signup` | |
| `Support` | support threads: check, transaction, answer | one query a step, the writes of a transaction one step |
| `SupportProofs` | theorems about `Support` | |
| `RateLimiter` | both sliding-window limiters | reading the clock, deciding under the mutex |
| `KeyedLimiter` | the two limiters compared | |
| `LoginGuard` | a login from the limiter to the log of security events; extends `KeyedLimiter` | one query or one log entry a step |
| `Visits` | page visits, their goroutines, the cache of locations; extends `RateLimiter` | one critical section, one lookup, one insert a step |
| `LimiterProofs` | theorems about `RateLimiter`, `LoginGuard` and `Visits` | |
| `MC...` | constants for TLC | |

### How state and actions correspond to the code

Variables are tables or columns; each action is one handler, or the part of it
between two points where another request can interfere, and is named after the
function (the `map` of `PROJECT.json` gives the lines). A transaction that
returns an error is rolled back by `db.WithTx` and is therefore no step, unless it
leaves something behind: `UploadFail` leaves the proof's file, `ApproveFail` an
approval that has read and never writes. That the writes of one transaction may be
one step is not assumed for the order lifecycle, where transactions write many
rows: `OrderTx` takes them apart and is proved to implement `OrderPayments`.

*OrderPayments.* `orders[o]` has the four status columns; `approvals[o]` counts the
`approve_payment` rows of `audit_logs`, and with them the deductions of `o`'s
goods; `vendorOrders[o][v]` has the two columns of `vendor_orders` that change, and
`vendorPayouts[o][v]` is the status in `vendor_payouts`: an approval sets the first
table's `payout_status` to `queued` whatever it was, the second's only where it is
`unpaid`, and marking a payout paid writes the second alone. `upload[r]` is a
proof-upload request with its program counter, and two history fields: how many
approvals its order had when it was read and when it was written. The webhook's loop runs `DeductStock` and `Credit` while its own rows are
open; pgx, the one external piece (`ConnAccepts`), refuses them.

*OrderTx.* The variables of `OrderPayments` are the committed rows. Each upload and
each call (approval, rejection, webhook) is a transaction: `step[t]` is the
statement it is at, `writes[t]` the row versions nobody else sees yet, `locks[t]` its
row locks in PostgreSQL's modes: `FOR UPDATE` excludes everybody, an `UPDATE` other
writers, and the foreign key of a proof (`KEY SHARE` on its order) only `FOR UPDATE`.
A statement runs when nobody holds a conflicting lock (`Runs`) and then sees what
is committed by then, as READ COMMITTED does. An approval deducts its items in any
order, because the query for them has no `ORDER BY`. `Rollback` may end a transaction
at any statement: that is an error, a lost connection, or a crash of the program.
`BreakDeadlock` is the database's choice of a victim among transactions that wait for
each other; the upload (order, then payment) and the webhook (payment, then order)
do, and so do two approvals that share two products. The refinement mapping is the
identity on the committed rows: `UploadStart` and `UploadSave` are `UploadRead` and
`UploadSaveFile`, `Commit` is the whole transaction, a rollback of an upload is
`UploadFail`, every other statement is a stuttering step.

*Checkout.* The locals of the call (`built`, `vendorSummary`, `total`) and the rows it
writes are separate variables, so that a property can compare the rows with each
other. Quantities and rates are fractions over a scale. `Nearest` is `math.Round`
of a floating-point product: at an exact tie it may give either neighbour,
because 0.1 and the like are not exact. `fresh` remembers, for the properties
only, which lines were not overtaken by a change of their product or vendor.

*Payouts.* A request and an approval are processes with a program counter. `debits`
counts ledger rows by the payout they refer to. The ledger's credits are a
constant: the only statement that would write one is the webhook's, which fails.
`RejectPayout` asks for no status, as in the code: a payout that was approved may be
rejected, and its debit stays; nothing in the repository says what should become of it,
so no property does. A request must leave approved payouts covered as well as pending
ones (`vendor_service.go:197`; its comment names the pending ones only), though an
approved one has been debited: its amount is withheld twice (`Held`).

*Accounts.* A call is the sequence of its statements (`Script`), of which
`call[c].todo` is what is left. The repositories that `AdminService` calls inside
`WithTx` take the pool, not the transaction, so each of their statements is
committed by itself, and the transaction has only the row of the audit log to
commit. It holds a connection while each of them needs one more: `Reaches` asks for
a free one of `PoolSize`, unless the statement is the transaction's own. `Fail` ends a
call anywhere (an error, a client that has gone, a restart); what it has committed
stays. `Drop` is the two errors the code drops: `Refresh` goes on when the old token
could not be revoked, and `DeleteUser` takes every error of the vendor's query for
"no vendor". `by`, `lost` and `before` are history: who wrote a row last, whose error
was dropped, and which calls ended before which began.

*Signup.* `call[c].at` is the next statement, in the order `AuthService` has them. A
code or a token is named after the request that made it; which address it belongs to
is `EmailOf`. `Mail(x)` is the provider, the network and the goroutine of
`queueVerificationOTP` at once: the mail arrives at any time or never, whatever
became of the request. `SoftDelete` is what `Accounts` does to the same row. A code
expires by being refused at any time.

*Support.* `threads` is the table; the messages and the log are the calls that
committed them, dated by `began`, because `now()` in PostgreSQL is the time at which
the transaction began. `SetStatus` and `CreateMessage` lock the thread's row, so the
writes of one call are one step; the check before them and the two queries of the
answer after them are steps of their own, without a transaction. A list is two queries
as well, the count of the threads that match and a page of them (`Pages`): `ListOf` gives
its status, its search (the set of threads whose subject or address matches), its limit
and its offset. Threads with the same last date come in any order, so a page is one of
several.

*RateLimiter, LoginGuard, Visits.* A hit is dated by what its request read off the
clock before it took the mutex. `Keyed` chooses between `keyedLimiter` and the
limiter of the middleware, which differ in what a refusal stores. `LoginGuard` runs
the logins of an address through the first, `Visits` the visits of a proxy through
the second: the limiter is one module, and `SameAsMiddleware` (in `KeyedLimiter`) is the
refinement of the one by the other. `Visits` names its specification `VisitsSpec`, beside
`RateLimiter`'s `Spec`. `SetGeo` is a lookup and what `geoCache.set` does
with it under its mutex; any number of other visits may come between the miss
(`GetGeo`) and that.

## Runs

| Run | Instance | Shows |
| --- | --- | --- |
| `order_payments` | 2 orders of up to 2 lines, 2 products of 2 vendors, 1 unit of each, 2 uploads | the five invariants and two step properties of `OrderPayments` |
| `webhook_credits` | the same | *violated*: a processed webhook has credited the ledger (`payments_service.go:62`) |
| `order_tx` | 1 order of 2 vendors; 2 uploads, an approval, a rejection and a webhook of it | `OrderTx` implements `OrderPayments`; every transaction ends |
| `order_tx_products` | 2 orders for the same 2 products, 1 of each in stock; an approval of each, 2 uploads | the same, when approvals deadlock on the products |
| `checkout` | 3 products of 2 vendors, up to 3 lines of 1.5 units, 1 change | the five properties of `Checkout` |
| `payouts` | 2 vendors, 3 requests, 3 approvals, credits 3 and 1 | the types and the two invariants of `Payouts` |
| `accounts` | 1 user, a request of the user's, one of an administrator's, one of either (14 kinds), 2 connections | the four invariants of `Accounts`, and that requests end |
| `signup` | 1 address, 4 requests of 5 kinds | the two invariants of `Signup` |
| `support` | a conversation of 1 customer and 2 administrators in 5 requests; or 2 threads of 2 customers, a closing, 2 lists with different filters and pages | the five invariants of `Support` |
| `login_guard` | 3 logins for 1 address, limit and threshold 2, 1 failing query | the two invariants of `LoginGuard`, and the refinement |
| `visits` | 4 visits from 2 addresses, room for 1 in the cache, limit 2 | `RateLimiter`'s window, the two properties of `Visits` |
| `payouts_overdraw` | 2 requests, 2 approvals | *violated*: the balance verified "again at approval time" (`admin_service.go:199`) keeps the ledger from being overdrawn |

Why the bounds suffice: two orders are what it takes to compete for stock, two
uploads to have one stale while another is under review, and the stale one
needs an approval of its own order only. One unit of each product makes the
stock bind at the second approval, and two lines of one product each fit the stock by
themselves and not together. Exchanging the vendors with their products changes
nothing, so the run is reduced by that symmetry. One status a vendor may report
(`pending`) is enough to set fulfilment back after an approval. Three approvals allow one to overtake two.
Three lines are the least with which a vendor's lines can be interrupted by
another's, and one change of the catalogue can fall before, between and after any
of them. In `order_tx` one call of each kind and two uploads meet at one order, which
covers every pair of statements that lock one of its rows but two decisions of the
same kind; `order_tx_products` adds the rows that approvals of different orders
share. Orders, products and requests are otherwise independent of each other,
and what is proved is proved without these bounds. In `accounts` three calls
meet: the one that is ended, the one that ends it, and a third in between (a second
refresh, or a vendor's update), and two connections are the least with which two
transactions starve each other. Users do not share rows, so one is enough. In
`signup` four requests let an address be registered, registered again or sent
another code, verified and reset in every overlap; in `support` the conversation's five
requests have a writer of each kind and a reader, and beside the lists the second page of
the open threads is asked for while one of the two is closed. The two parts are explored
apart (`ConversationOrLists`): what they share is a thread that is opened and closed. Three logins and a threshold of two
have one too many; the clock of three passes both of their windows. A cache for one
address is full at once. Uploads, requests and
approvals that have been used up are not renewed, hence no deadlock check.

The properties, in words:

* `UnderReviewIffProofPending`: the review queue and the proofs agree.
* `OneApprovalPerProof`: every approval used up a proof of its own.
* `ReopenedOnlyByStaleUpload`: the one way a paid order is reopened (rejected, or
  approved and deducted again) is an upload that read it before an approval and
  committed afterwards. The code has that way (`checkout_service.go:321`).
* `PayoutFollowsApproval`: `vendor_orders.payout_status` says `unpaid` before the first
  approval and `queued` after it; `vendor_payouts.status` says the same, or `paid`. A
  payout marked paid is therefore still shown as queued to the vendor
  (`checkout_service.go:541`) and in the order's page of the administrator (`:634`): the
  code never writes `paid` to that column, and an approval sets it to `queued` also for a
  payout paid before (`:778`).
* `PaidPayoutIsFinal`: in `vendor_payouts`, by which payouts are listed and marked, a
  paid payout is never payable again.
* `StatusColumnsAgree`: what the redundant columns have to do with each other, the
  webhook included.
* `PaidTakesStock`: the step to `paid` takes the order's goods out of a stock that covers
  them, all or nothing.
* `MoneyAddsUp`, `RecordedRateExplains`, `VendorKeepsItsShare`: the split of an order's
  total into vendors' and platform's shares.
* `FreshLinesHold`: the price and the rate of a line are the catalogue's, and it is on
  sale and in stock, unless its product or vendor was changed after the line was read
  (Checkout takes no locks, so such a line may be out of date). The rate is the
  administrator's, without one the vendor's, without either the default, as
  `tests/checkout_split_test.go` has it.
* `OrderedProductsStay`: no product of a placed order is deleted.
* `OverdrawnOnlyByOvertaking`, `DebitsFollowPayouts`: the ledger follows the payouts that
  are pending or approved; the two ways it goes wrong need one approval to overtake
  another decision between its read and its write. A rejected payout may have been
  debited (`ApprovedIffDebited` leaves it out).

* `ImplementsOrderPayments` is `OrderPayments`' `Spec`, stated of `OrderTx`: whatever the
  order in which transactions lock, wait and are rolled back, the committed rows
  change as if each transaction were one step. What is said of `OrderPayments`, and
  proved, therefore holds between the statements too.
* `TransactionsEnd`: again and again no transaction is under way; none waits for ever.

* `RotatedOnce`: one refresh token buys two new ones only through requests that
  overlap (the check and the revocation are two statements) or through a revocation
  whose error was dropped. `auth_service.go:126` calls it a rotation.
* `SessionsEnd`: whichever statement a deletion stops at, a deleted user keeps a valid
  refresh token only if it descends from a login or refresh that overlapped the
  deletion, and a role taken from a vendor lives on only in such tokens. The role of a
  token is copied from token to token, so the property follows its lineage.
* `ShopsClose`: the same of published products and of the vendor itself.
* `RequestsEnd`: every request ends, unless the pool is exhausted for ever by
  transactions that each wait for one more connection. The code can do that (with 20
  of these calls at once); the property does not exclude it, it says that requests hang
  in no other way.
* `OneActiveCode`: two codes verify one address only when the requests that made them
  overlapped.
* `AccountsHold`: a registration that began after the address was verified does not
  change the account's password or role; and what a call leaves half done (a code
  entered but nothing verified, a vendor without a profile) it leaves by failing, or
  because the address was registered twice or the user deleted. A reset token resets
  one password.
* `NothingAfterClose`, `RowFollowsLog`: a message reaches a closed thread, or the
  thread's row contradicts its log, only when a commit overtook a check or an earlier
  date.
* `AnswersAreWhole`: a conversation put together from two queries has the message it was
  asked to write and the one it names as the last; neither it nor a list shows a
  customer anything of another's threads.
* `PagesKeepTheCount`: a page is as long as the count read before it, the limit and the
  offset let its reader expect. The exception is a list by status, out of which a reply
  or a closing has taken a counted thread meanwhile.
* `AdmittedPerWindow`: no window has more admitted requests than its limit, unless a
  request with a later clock was decided before one of them.
* `LockHolds`: more passwords than the threshold fail in a window only when attempts
  were under way at once, or when a count of failures failed (which locks nobody out).
* `CacheBounded`, `EmptyPlacesExplained`: the cache keeps its bound, and a visit gets no
  place only for a failure not older than `Ttl`.

Properties of the form "only if" state exactly the way in which the code can go
wrong: the exception is reachable, and TLC shows each property violated when the code
is changed so that something else can go wrong too (`mutants` of `PROJECT.json`).

Two properties need fairness.

`RequestsEnd` assumes weak fairness of the statements of
each request: a request under way is served by a goroutine of its own and nothing
but the pool blocks it; no failure has to happen, so that a request is not made to
end by one. It promises nothing while the pool is exhausted: `db.WithTx` waits for
`pgxpool` without a limit of its own.

`TransactionsEnd` needs little: as long as some
transaction can run its next statement one does (the server does not stop in the
middle of a request, and each request makes one attempt, without retries), and a
deadlock does not persist (PostgreSQL looks for one when a lock has been waited for
longer than `deadlock_timeout`). Neither is strong fairness, and no single transaction is
promised its turn; no request has to arrive, and no rollback other than a
deadlock's has to happen.

## Proofs

All theorems hold for every value of the constants under the named assumptions of
the modules (`Quantities` positive, stock levels integers, finitely many uploads
and, for `OrderTx`, products and calls; `VendorOf` a function; for `Payouts`, credits
natural and amounts positive; for `Checkout`, a catalogue of typed rows and positive
scales; for `Support`, finitely many requests, and lists with positive limits, which the
handlers see to; for `Accounts`, finitely many calls and a token that none of them made). The
leaves are proved by Z3, some of them by Zenon only, and the temporal ones by LS4;
Isabelle does not certify their answers.

`OrderPaymentsProofs` proves the type invariant, all five invariants and both step
properties of `order_payments`. The inductive invariant `IInv` adds two parts:

* `UnplacedUntouched`: before an order is placed its rows are the initial ones, no
  approval, proof or webhook refers to it. Without it `PlaceOrder`, which writes
  fresh rows, would not preserve the invariants.
* `UploadsInStep`: an upload that has read its order has seen at most the approvals
  that have happened since, and a proof exists exactly when the upload has
  committed. `ReopenedOnlyByStaleUpload` needs it at the commit of an upload after
  an approval: the numbers then differ, and the upload is stale.

The invariants need each other: an approval presupposes `proof_uploaded`, which by
`UnderReviewIffProofPending` gives a pending proof, which becomes the approved
proof that `OneApprovalPerProof` counts.

`OrderTxProofs` proves `ImplementsOrderPayments` and the type invariant for any number of
uploads, calls, orders and products (`TransactionsAreAtomic`, `TxTypeCorrect`). The
refinement mapping is the identity on the committed rows: a commit is the action of
`OrderPayments` that the transaction stands for (`CommitUpload`, `CommitApprove`,
`CommitReject`, `CommitWebhook`), the read and the file of an upload and its failure are
theirs, and every other statement changes no committed row. The invariant, `TxInv`, is
`IInv` with

* `LocksExclude`: no two transactions hold locks that conflict;
* for each transaction, `UploadTx`, `ApproveTx`, `RejectTx` or `WebhookTx`: which rows
  it has written at which statement, that it holds the lock that goes with each, and
  that the version it has written is the one it would write if it began now. For an
  approval this includes that its order is still approvable and its stock still covers
  what has been deducted;
* `VendorOrdersOfVendors`: a placed order has vendor orders for its vendors and no
  others, so that the rows an approval writes are those it has listed.

The core is `Undisturbed`: a transaction's part of `TxInv` survives every step that keeps
what it has locked (`DataKept`), and every commit does (`UploadCommitKeeps` and the lemmas
after it), because what the commit writes is locked by the one who commits. Two things
are relied on without a lock, and only change in one direction (`Steady`): a placed
order stays placed, and one with `status` paid stays so, which is why the webhook's
`UPDATE` may pass over it. Reading the order without `FOR UPDATE` or deducting
without the condition on the stock makes steps of this proof fail.

`PayoutsProofs` proves the type invariant and the two invariants of `payouts`, from
an inductive invariant that ties an approval's `verified` balance to its payout's
amount.

`SupportProofs` proves the type invariant and the four other invariants of `support`. The
inductive invariant adds `InStep` (where a request is and what that says of its rows)
and `DatesOrder` (every transaction has a date of its own, and a committed one is dated
after one still under way only if it overtook it), without which the newest entry of
the log need not be the last written. `AnswersAreWhole` needs `Shown` besides: who is
between the check and the answer is entitled to the thread (which keeps its customer),
and the last message that the first query of an answer found the second still finds, since
no message is ever taken back. For `PagesKeepTheCount`, `Counted` says that a thread which
was counted and not yet listed still matches the list, or was taken out of it by a reply
or a closing: a message keeps the status, and no write changes the customer.

`CheckoutProofs` proves the type invariant and the five properties of `checkout`, for any
request, any number of vendors and any changes of the catalogue. The inductive
invariant says of every prefix of the request what the rows will have to say of the
order: `Adds` (the running total and each vendor's summary are the sums of the lines so
far), `Explained` (a summary's commission is the rate's, to half a unit for each line),
`SharesKept`, and, with `RowsWritten`, that the rows are those summaries. A vendor's
lines need not be consecutive, so the sums are over the set of its lines. They are
the folds of the community modules, and what a fold yields over any finite set is
proved by induction on the size of the set: the library's induction theorems take an
operator, which the provers cannot instantiate, but `WFMin`, which takes a least element
of a well-founded order, does not, so that a claim that fails for some set fails for a
smallest one (`SmallestSet`), and there one step of the fold refutes it (`SumsAgree`,
`SumsExist`). `SumWith` then says what one more line does to a sum. Rounding enters by
`NearestWithin` only: `math.Round` of a product is off by at most half a unit, at a tie to
either side.

`AccountsProofs` proves the type invariant, `RotatedOnce`, `SessionsEnd` and `ShopsClose`, for
any number of users and of calls of the fourteen kinds. A call is a sequence of
statements, so the first part of the inductive invariant, `StateOK`, ties what a call has
left to a place in its kind's script (`Placed`), and `Place` says at which places of which
scripts a statement is. `HistoryOK` is about `before`: only a call that has ended comes
before another, so two that are under way overlap. `Rotations` says that a refresh which
issues a token has revoked the one it was given, or dropped the error, and that who came
later was refused. For the deletions, each statement leaves something that no later
call can undo, and the invariant says what, from that place of the script on:

* after `RevokeAll` the user is `Closed`: every session left, and every login and refresh
  on its way, is `Explained` by a call that overlaps the deletion, possibly several
  rotations ago. What keeps it so when the deletion is over is a later statement of it:
  a deleted user cannot log in, and a former vendor logs in as a buyer;
* after `Unpublish` the vendor is `Hidden`, which lasts while the deletion is under way, as
  whoever publishes then overlaps it, and after `SoftDeleteVendor` because no request
  finds the vendor;
* after `SoftDeleteVendor`, or a query that found none, the vendor is `Missed` by the
  deletion: there is none, or one whose application did not end before the deletion
  began, or the error of the query was dropped.

A deletion that fails between two of these statements loses what the first of them
had achieved, but then the row is not deleted either, and nothing is claimed. With the
statements in another order (`HastyDeleteUser`, `HastyDeleteVendor`) there is a place
between them where a call that began after the deletion was over undoes it.

`LimiterProofs` is about three modules. Of `RateLimiter` it proves `AdmittedPerWindow` for
any number of requests, keys and limits. What carries it is `DroppedWhenOld`: an
admitted request that is no longer among its key's hits was dropped by one that had
read a time past its window. It also proves that `keyedLimiter` with a positive limit
implements the limiter of the middleware (`OneLimiter`), step by step, and carries both
to the modules that use the limiter (`LoginsLikeRequests`, `VisitsPerWindow`).

Of `LoginGuard` it proves the type invariant and `LockHolds`. The inductive invariant adds
`UnderThreshold`: whoever may enter a password had counted fewer failures than the
threshold among those still in the window that were logged before its check
(`Countable`). A run with more failures than that must then have two that overlapped.

Of `Visits` it proves `CacheBounded` and `EmptyPlacesExplained`; the second needs
`CachedFailures` (an entry without a place is dated by a lookup that failed), the first
that what `geoCache.set` keeps leaves room for one entry (`KeptHasRoom`).

`SignupProofs` proves the type invariant, `OneActiveCode` and `AccountsHold`. The
inductive invariant needs `Superseded` (a request past `RevokeActive` has left no
active code of one that ended before it), `LateIsNew` (a registration that began after
the verification is not on its way to `UpdatePasswordAndRole`, because it found the
address verified), and for what is half done, `Origin`, `CodeOnItsWay`, `ProfileNext`
and `TokenSpent`, which say who wrote a row and where that request is now.

Every invariant and step property that a passing run checks is also proved, and so is
each refinement. Model-checked only are the two liveness properties, `TransactionsEnd`
and `RequestsEnd`: liveness under fairness is out of the prover's reach. The two runs
that expect a violation are counterexamples, which need no proof.

## Not modelled

Wording, identifiers, formatting, HTTP plumbing and start-up, cryptography, the
protocols of Paystack, of the captcha and of the mail providers, and the queries that
only report (metrics, visits, lists other than those of support threads): they change nothing and decide nothing. In
`Accounts` and `Signup` the expiry of a token is a refusal that may happen at any time.
The audit log is written but never read by the code and has no rows in the models
beyond the approvals that `OrderPayments` counts. The keys of the limiters are never
forgotten in the models, nor, in effect, in the code: the cleanup looks for empty
lists, and a stored list is not empty. Quantities that are NaN or have more than six
decimals. In `OrderPayments` quantities are whole units and products are always on
sale (`Checkout` has both). Amounts stay far below 2^53, where `float64` would round
them.
