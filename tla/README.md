# Verification of order-flow

TLA+ models of the order-flow backend (a NestJS e-commerce API on PostgreSQL,
Redis, BullMQ, Stripe and bKash), model-checked with TLC, with theorems checked
by TLAPS.  `PROJECT.json` lists components, runs, mutants, the map from
definitions to source lines, findings, hazards and theorems.

## The system

Every component is a NestJS service in one Node process; several processes may
run.  A service keeps no state of its own except where noted: its state is in
PostgreSQL (through Prisma, READ COMMITTED) and in Redis.  A request handler is
an asynchronous function, and every `await` lets other handlers in.

| Component (src/src/...) | State | Operations | What is hard | What makes it correct |
|---|---|---|---|---|
| `modules/orders` | orders, order_items, products.stock | createOrder, cancelOrder, three marks, listings | stock is reserved under concurrency; reads before the transaction; updates by id | no overselling, no unit lost or returned twice, a life cycle that is not left |
| `modules/payment` | payments; sessions at the gateways; the bKash token in memory | createPayment, webhook, callback, success/failed/expired | duplicated, late and lost outcomes; outcome against cancellation | order, payment and money agree; PAID is final but for a callback that contradicts bKash; a charge is booked |
| `modules/payment/job`, `jobs` | delayed jobs in Redis | enqueue, expirePayment, expirePayments | job, cron and webhook race; lost jobs, aborted runs | an overdue payment is settled, a settled one left alone |
| `modules/cart` | carts, cart_items; cached cart | add, manage, remove, clear, read | orders and removals start from the cached cart; a deleted product empties the rows and not the copy | the copy follows the rows unless a reader was overtaken; an order takes what is in the cart |
| `modules/coupon` | coupons, coupon_redeems; cached coupons | create, update, redeem, read | last redemption, per-user limit, update against redeem | never redeemed above its limits, no redemption lost |
| `modules/products`, `category`, `common/upload-file` | products, categories; files at Cloudinary; cached rows and lists | create with retries, update, delete, thumbnail, images, logo, read | retry of a write, edits from a stale copy, a failure after the commit | one product per request, one to five images, a row names only stored files, caches follow rows |
| `modules/product-review`, analytics | reviews; cached pages and statistics | create, update, delete, read | check-then-create, stale statistics | one review per user and product |
| `modules/review/platform-review`, analytics | platform_reviews; a copy by user and one by id, three lists, statistics | create, update, delete, read, trend, summary | two keys for one row, keys nobody deletes, queries at several moments | copies follow the row, statistics never mix two tables, a deleted review fades |
| `modules/product-review-summary`, `llm` | cached summaries; in-process in-flight map | getSummary, generate | request coalescing, invalidation during generation | at most one generation at a time per product |
| `modules/auth`, `user` | users; Redis: refresh and reset token, one-time codes, cooldowns, the cached user under two keys | register, resend, verify, login, refresh, logout, change and reset password, profile | token rotation and one-time codes in several awaits, rollback of a failed mail, a cached user that decides logins | a spent token or code is refused, a new password answered with success has ended the session, one mail per cooldown |
| `modules/shipping-address` | shipping_addresses; one copy per address, cached lists | create with a limit, update, delete, read | count-then-create, an order ships to a copy | the limit is exceeded by no more than the requests under way; copies follow rows |
| `common/rate-limit`, `common/redis` | two keys per tracker in Redis | one Lua script per throttler, two throttlers per request | a fixed window, a block and a counter with times of their own | at most twice `limit` in any stretch of a window; nothing passes while somebody was told to wait |
| `common/queue`, `common/email` | BullMQ email jobs | enqueue, process with retries | duplicate or lost mail | three attempts at most |
| `common/prisma`, env, filters, guards, controllers, DTOs | - | start-up, validation, HTTP | - | - |

The parts meet in the database and in Redis, and in these calls: the orders
service reads the cart, the shipping address and the products and calls
`PaymentService.createPayment`; the payment service calls the gateways and the
payment queue; webhook, callback, job and cron call back into payments and
orders; the review services delete the cached summary and statistics.

## Modules

A handler is a record in a VARIABLE (`handler[w]`, `order[o]`, `editor[e]`,
`request[q]`, `admin[a]`) that says which await it is at and what it has read so
far.  One action takes it from one await to the next, so every interleaving the
event loop and the database allow is a behaviour.  The writes of one Prisma
transaction are one action with its commit; its reads, which take no lock, are
an earlier one.

| Module | Models | EXTENDS |
|---|---|---|
| `OrderStore` | the rows, jobs, gateway sessions and handlers the order flow shares; `TypeOK`, `HandlerDies` | |
| `Orders` | `create-order.service.ts`, `orders.service.ts`, the stock and status write of `updateProduct` | OrderStore |
| `Payments` | `payment.service.ts`, Stripe webhook, bKash callback, both strategies, the delayed job, the cron | OrderStore |
| `OrderLifecycle` | abstract: what `orders.status` promises its readers | |
| `Settlement` | abstract: what the orders and payments tables promise together about money | |
| `OrderFlow` | orders and payments together; safety; where the units of a product are; `IInv`; the refinements of `OrderLifecycle` and `Settlement` | Orders, Payments |
| `OrderProgress` | fairness and liveness | OrderFlow |
| `OrderFlowProofs` | theorems | OrderFlow, TLAPS |
| `CouponLedger` | abstract: what a coupon promises the shop and its users | |
| `Coupons`, `CouponsProofs` | `coupon.service.ts` and its part of the order transaction; the refinement of `CouponLedger`; theorems | |
| `ReviewStore` | review rows, their cached copies and pages, the cached summary, the in-flight map | |
| `ProductReviews` | `product-review.service.ts` | ReviewStore |
| `ReviewSummary` | `product-review-summary.service.ts`, its LLM client as an environment | ReviewStore |
| `SharedGeneration` | abstract: what a process promises those who ask for a value that is expensive to generate | |
| `ReviewFlow`, `ReviewFlowProofs` | both together; properties and `IInv`; the refinement of `SharedGeneration`; theorems | ProductReviews, ReviewSummary |
| `CatalogStore` | product and category rows, Cloudinary's files, cached rows and lists | |
| `ProductCatalog`, `CategoryCatalog` | `products.service.ts`, `category.service.ts`, `upload-file.service.ts` | CatalogStore |
| `Catalog`, `CatalogProofs` | the reads and update paths both services share; properties and `IInv`; theorems | both |
| `AccountStore` | one user's row, copies, codes, cooldowns and tokens | |
| `UserReads` | `user.service.ts` and the access-token strategy: the cached reads requests begin with, the profile | AccountStore |
| `Registration`, `Sessions`, `Passwords` | the first half and the second half of `auth.service.ts`, `password.service.ts` | UserReads |
| `Accounts`, `AccountsProofs` | the three together; properties and `IInv`; theorems | all three |
| `RateLimit`, `RateLimitProofs` | the Lua script of `redis.service.ts`, `redis-throttler.storage.ts`, the pair of throttlers; `IInv`; theorems | |
| `CheckoutStore` | rows and copies of a cart and of addresses | |
| `Carts`, `ShippingAddresses` | `cart.service.ts` with the cascade of `deleteProduct`, `shipping-address.service.ts` | CheckoutStore |
| `Checkout`, `CheckoutProofs` | both with the first part of `createOrder`, which makes an order from copies of both; properties and `IInv`; theorems | both |
| `PlatformReviews`, `PlatformReviewsProofs` | `platform-review.service.ts`, `platform-review-analytics.service.ts`; properties and `IInv`; theorems | |
| `MC*` | instances for TLC | |

### Orders and payments

`createOrder` is five awaits: the reads and validation (`createOrder`), the
transaction that inserts the order and decrements the stock under the guard `stock
>= quantity` (`CommitOrder`, or `RollbackOrder` if one guard fails), the payment row
(`InsertPayment`), the session at the gateway (`OpenSession`), the row's
`transactionId` (`LinkSession`) and the delayed job (`EnqueueExpiry`). `cancelOrder`
and the marks are a read (`cancelOrder`, `ReadForMark`) and a write
(`CommitCancel`/`RefuseCancel`, `WriteMark`).  An outcome is found (`StripeWebhook`,
`handleCallback` with `ExecuteBkash` and `QueryBkash`, then `FindForSuccess`,
`FindForFailure`, `FindForExpiry`) and then committed (`handlePaymentSuccess`,
`handlePaymentFailed`, `handlePaymentExpired`). `expirePayment` is the job,
`FindOverdue`/`SweepPayment`/`AbortSweep` the cron. `HandlerDies` is an exception or
a crash at any await.  The gateway is the environment: `gateway[o]` moves as a
Stripe or bKash session does, and a session ends at most one way.  The status of a
bKash callback is not part of the gateway: `handleCallback` takes either branch
whatever `gateway[o]` is, as the code decides by the query string alone
(`bkash-callback.service.ts:39`) and a browser may come back twice, late or from
another page of bKash.  `contradicted` is a ghost: the orders of which a callback
reported a failure while the session had not ended without money. The properties
name it where the code gives way to such a report.  `Dated` are the orders whose
payment has an `expiresAt`: the column is nullable and no code writes it, so the
deployed program is `Dated = {}`; likewise `PaymentWorker = FALSE`, as no module
registers the payment processor.  The properties are checked and proved with and
without both.

### Coupons

`FindCoupon`, `CountRedeems`, `redeemCoupon`, `InvalidateCoupon` are the awaits
of a redemption inside the order's transaction, `RollbackOrder` its failure.
`getCouponById`'s reads are `ReadCached`, `LoadCoupon`, `FillCache`;
`updateCoupon` computes the new `remainingLimit` from the copy they return and
writes it absolutely, then `RefreshCache`.  `overlap` and `edited` are ghosts
that delimit what the code promises: users with two redemptions in flight, and
limits an admin has written.  `createOrder` passes no coupon code yet; the
module models the redemption as `createOrderAndReserveStock` performs it.

### Reviews and their summary

`ProductReviews` gives each operation its read, write and invalidation step;
`AnnounceReview` and `InvalidateReview` may lose any of the deletions.
`ReviewSummary` follows `getSummary`: cache, in-flight map, the two queries in
either order, the LLM, the SET, the `finally`.  A second request joins the
generation that the map of its process names; `Crash` empties the map of a
process.  A summary is of kind "llm", "generic" (fewer reviews than the minimum) or
"fallback": what a failed generation answers, with the content of a generic summary
of no reviews.  `overtaken` is a ghost: keys a write overtook between a read and its
fill, or whose deletion was lost.

### Catalog

Files are numbered as they are uploaded.  `createProduct` uploads, then
`InsertProduct` and `ProductCreated` go round the retry loop until
`CreationEnds`; `InsertFails` and `ProductCreatedFails` lead to `Cleanup`.
An edit (`changeProductThumbnail`, `updateProductImages`, `updateCategory`)
starts from the copy `getById` returned, commits (`CommitEdit`), deletes the
files it replaced (`Discard`) and tells Redis (`Announce`).  `late` is a ghost on
handlers and entries: a write overtook the handler that set the entry, or failed
to replace it.  `spoiled` is a ghost: files the code loses track of, because a
second product names them (the retry loop), a rollback runs after the commit, or
a write from an old copy brings them back.  `NamedFilesAreStored` says that
there is no fourth way.

### Accounts

A request is `[op, step, arg, pass, seen, late, replay]`: the operation, the
await it is at, the code or token it presents, the password, the user it is
about to cache.  Everything that asks for a user goes through `Lookup` (a hit, or
a miss with its query) and `FillUser`; `Moves` says what each operation goes on to and
`Passes` what it asks of the copy, so `login` decides on the status and the password
of the copy as the code does, and a protected route looks the user up in the strategy
and again in the controller (`current`, `rotate`).  A code is made by `TakeCooldown`,
`SetCode`, `QueueMail`; the catch of `resendOtp` and of `forgotPassword` is
`CodeFails`, `UndoCooldown`, `UndoCode`, and differs between the two as in the
code.  A refresh is `refreshToken`, `CompareRefresh`, `DeleteRefresh`,
`SignTokens`, `StoreRefresh`; a reset `forgotPasswordVerifyOtp`,
`DeleteResetCode`, `SignGrant`, `StoreReset`, `PresentReset`, `resetPassword`,
`DeleteResetToken`, `WritePassword`, `EndSession`.  `Sign` may return the token of
the last call: a JWT has no more than its payload and the second it was made in.
Ghosts: `late` (a write overtook a reader, a DEL failed, a cooldown ran out under
its holder), `tangled` (two mailers of one channel overlapped, or one died before
it undid), `spent`, `twice` and `replay` (what had been used when it arrived),
`refresh.old` (the password has changed since) and `refresh.unended` (the DEL that was
to end the session after it failed).  In the last case the request fails, but the
password has been written and the old refresh token stays good until it expires, is
rotated or logged out (`HandlerDies`); `ChangeEndsSessions` names it.  No code sets the
status SUSPENDED, so the model leaves it out.

### Rate limit

`hits` and `blocked` are the two keys of a tracker with the time they have left;
one throttler is one atomic script (`Pass` or `Refuse`; `Wait` is the time in
milliseconds that the script answers, and `RefusedWaits` speaks of it; the Retry-After
header, which counts seconds, is made of it outside the repository), a request passes its
throttlers one by one, and `Tick` is the clock.  `told` and `log` are ghosts: the
times to wait that have been answered, and the requests let through, by age.

### Checkout

`getMyCart` and `getShippingAddressById` are hit, or miss with query, and
`FillCart`/`FillAddress`; `AfterCart` and `AfterAddress` are what the caller does
next.  `removeItemFromCart` deletes by the id it saw in the copy; `createOrder`
takes items and address from the copies, at two moments, and then tests the
products.  `late` on an entry says that a write overtook its reader or that it
outlived a lost deletion; on a handler, which of its two copies was overtaken.

### Platform reviews

`GetThrough` is a cached read under one of the two keys of a review;
`AnnounceReview` and `ForgetReview` are the SETs and DELs after a write, of which
one may be lost (all of them when the handler dies).  `getPlatformReviewSummary`
and `BreakDown` are the queries of a `Promise.all`, at two moments.  There is one user,
who may write a review after the last one was deleted.  The key "admin" is that of
`getAllPlatformReviews` without filters, the only list of admins that mutations
delete; `platform-review.controller.ts:95-101` refuses a request without `rating` and
`quality`, so the keys that admins fill are never deleted and age like "public".

## Runs

| Run | Question | Instance |
|---|---|---|
| `OrderFlow_core` | does the inductive invariant hold, is stock conserved, is the life cycle implemented, is a canceled order never charged, as deployed? | two orders (Stripe, bKash) for one unit, two handlers, an admin who sells out and delists |
| `OrderFlow_expiry` | do job, cron and outcomes agree, and implement the settlement, if payments had a date and a worker? | the same orders and unit, both dated, no restocking |
| `Progress` | is a charge booked, does a lapsed session end its order, is an overdue payment settled? | one Stripe order that may become overdue, two handlers, fair |
| `Coupons` | are limits kept and redemptions accounted for, is the ledger implemented? | three orders, two users, one admin, limit two, edits to 1 and 3 |
| `ReviewFlow` | one review per user, caches follow rows | two reviews of one user, two editors, one summary request |
| `Summary` | single flight, shared by who asks meanwhile, no failure cached, every request answered | one review, two requests, one process, fair |
| `Catalog` | files, image limit, caches | two admins; one product with four uploads, or one category with three |
| `Accounts` | codes, cooldowns, tokens, cached user | two requests, two codes per channel, two tokens of a kind; four kinds of behaviour |
| `RateLimit` | how many pass in a window, who waits how long | two requests, two addresses and one account, limit 1, window and block 2 |
| `Checkout` | copies of cart and addresses, orders made from them, the limit | two requests, two products, three addresses, limit 1 |
| `PlatformReviews` | copies, statistics, what becomes of a deleted review | two requests, one user, two reviews one after the other, fair expiry |
| `Claim_oneProduct` | products.controller.ts:39: creates *a* product | refuted |

Why the bounds are enough.  The races of the order flow are between two handlers of
one order (two workers) and between two orders for one product (stock one); a third
of either repeats a pair, and the theorems cover every number.  Three orders are the
fewest in which a user overlaps with himself while another user redeems.  Two
reviews of one user are a check-then-create race and a review after a deletion.  In
the catalog two uploads make a product and two more let two admins edit it from the
same copy; `MAX_IMAGES = 1` is the sharpest limit (one image too many is one
upload), `MAX_RETRIES = 2` the shortest loop that turns. Products and categories
share no row, file or key, so a behaviour has one kind (`Scenarios`).  Likewise in
`Accounts`, `Checkout` and `PlatformReviews` a behaviour offers the operations that
meet in a row or a key: registering with resending and verifying; login, refresh and
a change of the password; reads and edits of the profile; the recovery of the
password; and so on.  Two requests are the races of these modules; two codes or
tokens are an old one and its successor; a limit of one address is exceeded by the
second of two counts.  With `LIMIT = 1` the second hit is the first over the limit,
and a window of two ticks has an inside and an end.  A request of `PlatformReviews`
loses one of its commands or all of them: every key is judged alone.  In
`OrderFlow_core` the admin writes a stock of 0 (`RestockLevels`), between any two
awaits of a checkout or a cancellation.  In all runs of two orders the second is
placed once the customer has canceled the first, whose payment and session go on;
orders placed at a time share nothing else but the stock, and the theorems cover any
stock.  Deadlock checking is off where the system may come to rest: when all
requests have been answered nothing has to happen.  Only `Coupons`, where the clock
never stops, checks it.

Every property of a passing run has a mutant in `PROJECT.json`: a definition
changed the way a slip would change the code (a guard dropped, a wrong order, a
list key forgotten), which violates the property under the same instance.
The mutated forms stand before the definition they replace, marked "Slip".

Properties about copies and files exempt what a ghost marks (`late`, `overtaken`,
`spoiled`, `tangled`, `edited`, `contradicted`): there the code itself gives way, and
the hazard of that name in `PROJECT.json` is real and not excluded by the property.
What the property says is that there is no other way.

## Fairness

`OrderProgress`: a handler that has started goes on or fails, as every await ends
(WF on `HandlerMoves`).  Stripe delivers an event until it is acknowledged and a
database does not fail every time, so delivery and commit get strong fairness.
The cron starts every five minutes (WF) and does not abort before one and the
same payment each time (SF).  Nothing makes a customer pay, a user cancel, an
admin act, or a job be run.  `ReviewFlow!FairSpec`: queries, Redis and the LLM
client (which has a timeout) answer or fail (WF on `Advance`); nothing is asked
of the editors.  `PlatformReviews!FairSpec`: Redis drops every key when its TTL has
run out (WF on `Expire`); the handlers owe nothing, and a dead one holds nothing
back.  `Progress` is one instance for all three properties, as a dated payment
need not become overdue: `StripeChargeIsBooked` promises PAID unless it does.

## Proofs

Every theorem holds for all constants that satisfy the named ASSUMEs of the
component's module: any number of orders, products, handlers, users, reviews,
processes.

`OrderFlowProofs`.  The safety properties are not inductive: the marks update by id,
the failure handler tests a status it read earlier.  `IInv` adds what makes these
writes safe: `ReadsStillHold` (no concurrent commit takes away what a handler in
flight relies on), `OneCheckout` and `RowsInOrder` (an order's rows and session are
made once, in order), `MoneyAgrees` (what the row says the gateway did, or a
callback reported).  One lemma per action shows that it preserves `IInv`; from it
follow `NothingShipsUnpaid`, `StampsAgree`, `SettledAtOnce`, `NoChargeForCanceled`,
the action property `PaidStaysPaid`, and `LifecycleImplemented`, the refinement of
`OrderLifecycle`, step by step.

`SettlementImplemented` goes further: it puts order, payment and gateway together.
The mapping folds the statuses of fulfilment into "confirmed", tells the two kinds
of cancellation apart by `canceledAt` (`Standing`) and takes the outcome of the
session for the money (`Money`).  One lemma per kind of commit shows which abstract
step it is.  The failure handler and the expiry handler need `ReadsStillHold` (the
session still is in the outcome they were told of, or the order is `contradicted`:
then PAID and FAILED may take turns, and the standing of the order does not);
`OrderFlow_expiry` checks the same property by TLC.

`NoUnitLost` is about a sum over orders.  A sum by recursion would need induction
over the set of orders, so `Units` names every unit an order holds by the pair of
order and number, and the sum is the cardinality of a set.  A checkout adds the pairs
of its order, a cancellation removes them, and `FS_Union`, `FS_Product` and
`FS_Interval` count them.  The invariant that is proved (`Ledger`) is `StockConserved`
with the finiteness of these sets.  From `IInv` it takes that the order a checkout
commits holds nothing yet, and that the one a customer cancels carries no
`canceledAt`, so that it counts as returned from then on.

`CouponsProofs`.  `Accounted` (redeemed + remaining = maxLimit until a limit is
edited) needs that an order in flight has no redemption row yet; `SerialUser`
needs that a count made by a user's only redemption in flight still holds when
it commits (`CountStillHolds`), whoever else redeems; `RemainingWithinLimit` (0 to
`maxLimit`) covers every copy, as edits are computed from them.  `LedgerImplemented`
maps the redemption rows to a count per user: a commit is `Redeem` because of
`NotYetRedeemed` (the row is new), `CountStillHolds` and `PerUserKnown` (the user was
still allowed one), an edit is `Edit` because the copy it starts from is within its
limit, and everything else redeems nothing.

`ReviewFlowProofs`.  `CachesFollowRows` is not inductive: `IInv` adds
`FillsAreCurrent` (a handler about to fill a key that is not overtaken holds what
the database holds) and `StoreFitsRead` (a generation stores what it computed from
what it read, and never a fallback).  From it follow `AtMostOneReview`,
`OneGenerationPerProcess`, `KindFitsCount` and `CachesAreCoherent`.
`SharedGenerationImplemented` needs one more conjunct, `JoinersWait`: who has joined
waits for the generation that is in the map now, not for an earlier one; so the step
that ends a generation answers all who joined, and a crash loses all of them.

`RateLimitProofs`.  `RefusedWaits` is an action property: it needs that the block
in Redis lasts as long as anybody was told to wait, and that no counter above the
limit outlives its block, since such a counter would answer with a time of its
own.  `BlockCovers` says both, under the assumption `BLOCK >= TTL` that
`rate-limit.config.ts` and the guard's default satisfy.  `TwiceTheLimit` is again a
sum, of what passed at each age: `LetThrough` names each request by its age and
number.  The requests of the last `TTL` fall into those of the window under way
(`InWindow`) and those before it, and `TwoWindows` bounds either part by the limit,
the first also by the counter.  When a tick passes, every request is a tick older
and the two parts keep their members, but for the oldest; when the counter runs
out, the window under way becomes the one before it, and what was before it has
grown too old.

`AccountsProofs`.  `Typed` comes first: `FieldsFit` says which operation a request
belongs to and which fields it has at each step, `NobodyYet` that nothing is kept
before the registration.  `OthersStay` shows once that a step of one request changes
nothing of another but `late`, so that each property is a matter of the steps that
touch its part of the state (`RefreshTouched`, `CopiesTouched`, `MailTouched`,
`TokensTouched`).  The strengthenings are those of `IInv`: `FillsAreCurrent` for
`CopiesFollowRow`, `CooldownHeld` for `CooldownHoldsOne`, `MailIsCurrent` for
`NewestMailCounts`.  `UsedIsRefused` needs the most: that numbers are given out in
order (`InOrder`), that what Redis holds, what is about to be stored and what
another request was accepted with are apart unless the token was signed twice
(`SpentForGood`), and what a request in flight has to show (`Claim`).  Every step
that touches tokens is then one of three: `Calm`, `Signs`, `MakesCode`.

`CheckoutProofs` has three parts.  The rows: a product that was deleted is in no cart,
an item is there only once there is a cart (`NoCartYet`), and the addresses stay
below the limit when those that counted and have not inserted are counted with them
(`PendingWithinLimit`, the strengthening of `AddressesWithinLimit`).  The requests:
`FieldsFit` says which fields each has at which step, and `CartsHeld` and
`AddressesHeld` that what a request took from a copy or a row is still what the rows
say unless it is marked late.  The copies then follow: a fill comes from a request
that holds what the rows hold, and a write of the rows marks every other holder.
`OrdersTakeTheCart` is `CartsHeld` and `AddressesHeld` at the step "place".

`PlatformReviewsProofs` goes the same way.  `Current` says that what a request which
was not overtaken is about to cache is current.  A copy that is wrong is either
marked late or owed: its key is in `Due` of a request that has written the row and
has still to renew or delete it.  Every step keeps that balance, and
`CopiesAreRight` is the case in which nothing is owed for the key.

`CatalogProofs` has two parts, and two lemmas that do the work of the second.  The
rows, requests and copies go as above: `SeenIsCurrent` for `CatalogCachesFollowRows`,
`WritesFit` for `ImagesWithinLimit` (what is about to be written is never more than
`MAX_IMAGES`, whatever copy it was computed from).  `NamedFilesAreStored` needs to
know that whoever deletes a file is the only one to name it.  `FilesApart` says that,
but for the files in `spoiled`, every file has one owner (the copies of one row, in
the database, in Redis or in a request, or the request that uploaded it) and one role
(cover or image), and `RemovedAreGone` that an edit deletes nothing the row still
names.  The proof puts both pointwise (`Alone`, `Removes`): for each file, who may
name it.  `StillSound` is for the steps that write no row, `CommitSound` for those
that write one; each action then shows only that its upload, deletion or write meets
the conditions of one of them.

Only model-checked: liveness under fairness (`OrderProgress`,
`EveryRequestAnswered`, `DeletedReviewsFade`), which is beyond the prover.  Every
invariant and every action property of a run, and every refinement, is a theorem.

## What the models assume of the environment

- PostgreSQL at READ COMMITTED; an `updateMany` with a guard evaluates it on the
  locked row.  Redis commands are atomic, may fail, and a TTL may run out at any
  time; a failed command of a `Promise.all` leaves the others unordered.
- An order has one payment, so the test for another active payment in
  `createPayment` never finds one.
- The Prisma schema of this commit lacks the columns `subtotal`,
  `discountAmount` and `couponCode` that `persistOrder` writes; the model takes
  the write as it is meant.
- The status of a bKash callback may be any, whatever bKash's record of the session.
- The queue takes a mail or fails; a mail that was queued may arrive late or never.
- A JWT signed twice in a second with the same payload is the same string.
- A cache miss and the query after it are one step: by the time of the query
  another handler may have filled the key, which is the same state.
- A failed upload, and a deletion that fails on a file nobody names, leave an
  orphan at Cloudinary that no property tells from a deleted file.

## Where code and documents differ

Refuted by a run: `Claim_oneProduct`.  Found with the models, without a run of
their own:

- 00-audit.md:54 says that a PAID payment comes with a CONFIRMED order: a customer
  may cancel while the money is captured, and `payment.service.ts:135` then marks
  the payment PAID beside a CANCELED order.  `FulfilledMeansCaptured` is the
  direction that holds.
- 01-overview-and-stack.md:48 says that a cancellation restores stock: those of the
  payment service (`payment.service.ts:181`, `:228`) do not, which is why
  `Returned` in `OrderFlow` leaves them out.
- 03-workflows-and-caching.md:178-182 shows the bKash callback: a payment in a terminal
  state is returned, and any status but "success" fails the payment.  The test of the
  state and the update are two transactions and the status is not compared with bKash
  (`bkash-callback.service.ts:29-44`), so a callback that reports a failure bKash had
  not decided has two outcomes that 00-audit.md:54 does not foresee.  It cancels an
  order whose money is captured or will be (`PaymentCancelMeansNoCharge` excludes
  `contradicted`); and if another callback books the payment between its read and its
  update by id (`payment.service.ts:172`), a CONFIRMED order is left with a FAILED
  payment (`FulfilledMeansCaptured`, `PaidIsFinal`).
- README.md:53 says that payments expire: nothing writes `expiresAt`
  (`payment.service.ts:44`) and no module registers the payment processor.
- README.md:41 says that every mutation invalidates the cache: a change of the
  password does not touch the cached user, and `auth.service.ts:226` decides on
  the copy.  Until the key runs out the old password logs in and the new one does
  not.  `CachedUserFollowsRow` therefore leaves the password out.
- 03-workflows-and-caching.md:84 says that a replay of the old refresh token is
  answered 401 because it is gone: two concurrent refreshes both pass the comparison
  (`auth.service.ts:308`), and a token signed in the same second is the one it
  replaces.  `SpentIsRefused` is what holds.  In the same way two resets with one
  token both pass (`password.controller.ts`: "can only be used once").
- 03-workflows-and-caching.md:268 and the comment at `auth.service.ts:172` say that the
  code is rolled back if the delivery of the mail fails: the rollback covers the queueing only.
- A login that decided before a change of the password sets its refresh token
  after it; `ChangeEndsSessions` speaks of the token that was there.  A failed DEL after
  the password was written (`password.service.ts:89`, `:257`) leaves the old one.
- The window of the rate limit is fixed, so a stretch as long may let twice the
  limit through; `AnyWindowWithinTwice` is what holds.
- 00-audit.md:106 says that no route has a throttle of its own; many have.
- `createOrder` never clears the cart (`PlaceOrder`), and a cached cart that names
  a deleted product makes removals and orders fail until the key runs out.
- A request that read an address before its deletion may set the key again, and an
  order ships to it.
- Nobody deletes the lists of an address search and of the yearly trend of platform
  reviews, nor the public list of platform reviews; `addPlatformReview` does not
  delete the admins'.
- `OrderItem.product` cascades (`order.prisma:16`): deleting a product removes lines
  of past orders.
- The marks of two admins may set an order back (SHIPPED to PROCESSING):
  `markAsShipped` tests the status it read and updates by id
  (`orders.service.ts:298`), against 00-audit.md:43.  `OrderLifecycle` allows it
  (`Mark`).
- Two orders one user places at once both pass `maxLimitPerUser`
  (`coupon.service.ts:340`), against 01-overview-and-stack.md:61;
  `SerialUserWithinLimit` is what holds.
- `updateCoupon` writes a `remainingLimit` computed from a copy that may be an
  hour old (`coupon.service.ts:284`) and so forgets redemptions made since;
  `RedemptionsAccounted` holds until then.
- `handlePaymentSuccess` overwrites `transactionId` with the capture id, so a
  repeated bKash callback is answered 404 (`payment.service.ts:131`) and not as
  03-workflows-and-caching.md:179-180 says.
- `addProductReview` caches the bare row under the key whose readers expect it
  joined with user and product (`product-review.service.ts:69`, `:262`).
- The two queries of a summary may see different reviews, so the LLM may be asked
  with fewer reviews than the minimum counted (00-audit.md:79).
- An order canceled by its customer keeps its payment PENDING and its checkout
  session open.
- 03-workflows-and-caching.md says there is no write-through caching; products,
  categories, coupons, reviews and addresses set the key after a write.
- `GET /products` documents a maximum `limit` of 20; the service allows 50.
- Of the cached lists only the key with default parameters is deleted; pages with
  other parameters, and the public list of platform reviews, live until their TTL
  (README.md:41: "cache invalidation on every mutation").

## Not modelled

Coupon analytics (read-only pages that nothing deletes and that feed no write),
email rendering and SMTP, BullMQ and Prisma themselves, start-up, guards, DTOs and
filters: no state of their own or pure I/O.  The cached bKash grant token only
makes calls fail, which `HandlerDies` covers.  The trackers a request is counted
under are constants of `RateLimit`, not computed from headers.  Pages with filters
are one more key like the unfiltered one.  The deletion of a product is followed
into the carts (`Carts!deleteProduct`), not into order items.

## Plan

Every component with state of its own is modelled, and every safety property that a
run checks is proved.  Left are abstract specifications for the components that have
only invariants so far: a one-time token for `Accounts`, and a shelf of stored files
for `Catalog`.
