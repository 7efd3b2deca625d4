# A verification of the Adobe VIP Marketplace extension

The extension fulfils the orders of a marketplace (MPT) at Adobe. While an order is
`Processing` the platform hands it to `fulfill_order` again and again; each pass runs a
pipeline of steps from the beginning, and finds out at Adobe and in the order itself what
earlier passes did already. Nothing else remembers: the `Context` of a pass is gone when it
ends. Almost everything that is hard about this program follows from that: a pass may be cut
off between any two calls, what it finds the next time may have moved, and the steps must
neither buy twice, nor give back too much, nor forget anything. Beside the passes run
CronJobs, each over a table or a list it read at the start: the bulk migration, the
deployments of global customers, and the synchronisation of agreements.

## 1. The system

| part | state | operations | talks to |
|---|---|---|---|
| pass over an order: `extension.py`, `flows/pipeline.py`, `flows/context.py`, `flows/fulfillment/base.py` | status, due date and Adobe identifier of the order; the in-memory context | dispatch, next step, fail, query, complete | MPT |
| change orders: `fulfillment/change.py`, steps of `fulfillment/shared.py` and `flows/helpers.py` | NEW and RETURN orders and subscriptions at Adobe; subscriptions of the order | buy, give back, update renewal quantities and roll back, publish | MPT, Adobe, Airtable (prices) |
| late renewals: steps of `fulfillment/shared.py` | the stored split of the lines, one RENEWAL order | split, preview, renew | MPT, Adobe |
| renewals: `fulfillment/renewal.py`, `renewal_now.py` | renewal plan, its snapshot, RENEWAL and RETURN orders | plan, apply, reverse | MPT, Adobe |
| purchase orders: `fulfillment/purchase.py` | Adobe customer, its identifier in order and agreement, NEW order | create the customer, buy, publish | MPT, Adobe |
| reseller changes: `fulfillment/reseller_transfer.py` | the transfer of the customer | commit, wait, publish or buy | MPT, Adobe |
| switches: `fulfillment/switch.py` | SWITCH order | preview, submit | MPT, Adobe |
| terminations: `fulfillment/termination.py` | RETURN orders | give back | MPT, Adobe |
| configuration: `fulfillment/configuration.py` | auto-renewal flags | switch, roll back | MPT, Adobe |
| transfers: `fulfillment/transfer.py` | transfer, record in Airtable, agreements of deployments | preview, create, poll, adopt, renew or buy anew | MPT, Adobe, Airtable |
| bulk migration: `flows/migration.py`, `airtable/models.py` | the table of transfers | preview, create, poll, switch auto-renewal off | Adobe, Airtable |
| global customers: `flows/global_customer.py` | the table of deployments, an agreement per deployment | create, link, publish | MPT, Adobe, Airtable |
| synchronisation: `flows/sync/` | copies of subscriptions in agreements | terminate, update, add, disable orphans | MPT, Adobe, Airtable |
| commitment: `flows/benefits.py`, `flows/utils/three_yc.py` | a copy of the status of three-year requests | poll | MPT, Adobe |
| validation: `flows/validation/` | none | judge a draft order | MPT, Adobe |
| clients and helpers: `adobe/`, `notifications.py`, `flows/utils/`, `flows/nav.py` | tokens | HTTP, formatting | everything |

What makes the parts correct:

* a pass: a decided order is left alone; every `Processing` order is decided in the end;
* buying: at most one purchase per order over all its passes, of the right quantity, for one
  account, recorded before anything is published, and processed by Adobe before the order is
  completed; what was transferred or renewed is not bought as well;
* giving back: never more than the downsize, and all of it before completion;
* renewal quantities: brought to the quantity of each line, and never in sum below the
  three-year minimum on the way;
* a renewal plan: in place as a whole, or reversed to what was found; renewed and scheduled
  once; nothing taken away before what adds was committed;
* flags: a completed configuration left every flag as asked for;
* a membership: transferred once, fulfilled once, closed only after its order was completed;
  auto-renewal off when the jobs have migrated it, on again once an order has published it;
* copies: terminated only when the original is gone, complete when a record says so, and in
  line with Adobe again some time after the last change.

`PROJECT.json` lists the hazards one by one, at the line where each bites.

## 2. Modules

| module | models |
|---|---|
| `OrderPass` | one MPT order, its passes, and the steps every pipeline shares |
| `AdobeSubscriptions` | the lines of the order, the quantities Adobe holds and renews, and what is still to buy (`_process_upsize_lines`) |
| `NewOrderSteps` | `GetPreviewOrder`, `UpdatePrices`, `SubmitNewOrder`, and the NEW orders at Adobe |
| `ReturnSteps` | `GetReturnOrders` to `SubmitReturnOrders`, the choice of purchases, and the RETURN orders at Adobe |
| `ChangeOrder` | the pipeline of `fulfill_change_order`, `UpdateRenewalQuantities` with its rollback, publishing; the properties |
| `OrderPromise` | the abstract specification: what fulfilment promises about buying |
| `RenewalPlan` | the renewal payload of a change order, the auto-renewal preferences at Adobe, `SetupRenewalPlan`, `update_subscription` |
| `AnniversaryRenewal` | `renewal.py`: scheduling net-new products, writing the preferences, reversing them |
| `RenewalNow` | `renewal_now.py`: the RENEWAL order, the returns of earlier renewals, the preferences after it |
| `RenewalOrder` | both renewal pipelines over `OrderPass`; the properties |
| `PurchaseOrder` | `purchase.py`: the account, the purchase, its subscriptions; the steps the next two share with it |
| `ResellerTransfer` | `reseller_transfer.py`: committing the change, following it up, both endings |
| `SwitchOrder` | `switch.py` |
| `TerminationOrder` | `termination.py`, on `ReturnSteps` |
| `ConfigurationOrder` | `configuration.py`, update and rollback |
| `FulfillOrder` | `fulfill_order` over the five kinds above; the properties |
| `Migration` | both jobs of `flows/migration.py` over the table of transfers; transfers at Adobe |
| `LateRenewal` | `CheckManualRenewalSubscriptions`, `PreviewRenewalOrders`, `SubmitRenewalOrders`, and buying what they leave |
| `TransferOrder` | `transfer.py` beside `Migration`, with `LateRenewal` and the deployments of a global customer; the properties |
| `CustomerAgreements` | one customer's subscriptions at Adobe, and their copies in the agreements |
| `GlobalCustomer` | `check_gc_agreement_deployments` over the table of deployments |
| `AgreementSync` | `sync_agreement` beside `GlobalCustomer`; the properties |
| `MC...` | instances for TLC (`Migration` is its own) |
| `..._proofs` | theorems about `ChangeOrder`, `RenewalOrder`, `FulfillOrder`, `Migration`, `TransferOrder`, `AgreementSync` |
| `ChangePromise_proofs` | that `ChangeOrder` implements `OrderPromise`, what it delivers, buys and keeps renewing |
| `SumLemmas` | lemmas about sums over finite sets, for the proofs |

The compositions are the modules with a `Spec`:

    OrderPass -> AdobeSubscriptions -> NewOrderSteps -> ReturnSteps -> ChangeOrder (=> OrderPromise)
    OrderPass -> RenewalPlan -> AnniversaryRenewal, RenewalNow       -> RenewalOrder
    NewOrderSteps -> PurchaseOrder -> ResellerTransfer, SwitchOrder, ... -> FulfillOrder
    NewOrderSteps -> LateRenewal, and Migration                       -> TransferOrder
    CustomerAgreements -> GlobalCustomer                              -> AgreementSync

### Passes

`pc` names the step the running pass executes next and `ctx` is its `Context`; a step takes
the name of its successor, so that a pipeline is read off the action that lists its steps
(`Prepare`, `Buy`, `GiveBack` ... in `ChangeOrder`, `PurchaseSteps`, `BuyAnew` and so on). A
step is one action up to its calls that change something outside: a POST and the save that
follows it are two actions (`PlaceNewOrder`, `SaveNewOrder`), each RETURN order, each renewal
update, each call of a rollback and each created subscription is one. `Abort` ends a pass
before any of them, which stands for a crash, a transport fault, an error of the platform's
API and an Adobe error no step handles. Adobe settles its orders whenever it likes.

* `vendorId` is the identifier that `SubmitNewOrder` saves in `externalIds.vendor` and
  `SetupContext` reads; `payload` is what Adobe's client hashes into `x-correlation-id`.
  `CompleteOrder` replaces that identifier by the list of all orders saved (parameter
  `adobeOrderIds`). No pass reads it any more then; `ChangeOrder` models the list (below).
* `ctx.linesRepriced`: `UpdatePrices` leaves only `{id, price}` of each line in the order of
  the pass. `CreateOrUpdateAssets` looks up the items of the lines, so a pass that repriced
  raises there; the next pass finds the identifier saved, makes no preview, and completes.
* Days are numbers. The validity of the due date, the fourteen days of a purchase, the two
  weeks and the one day before the anniversary are each compared with `today` as in the code.

### Change orders and renewals

* `Combination`: the dictionary of `GetReturnableOrders` is overwritten from the largest
  combinations to the smallest and, within a size, in the order of
  `itertools.combinations`; what is left for a sum is the last of the smallest.
* `orderIds` is `adobeOrderIds`: `SaveNewOrder` puts the purchase on it in the same save as
  the identifier, `PlaceReturnOrder` each RETURN order. `ExternalId` is what the order names
  as Adobe's: the purchase, and once it is completed the list. A RETURN order whose pass is
  cut off before the save (`LoseReturnOrder`) is found at Adobe by later passes, which do not
  put it on the list.
* `otherReturns`: the RETURN order of a rollback carries the same external reference as the
  MPT order's own returns, and switches off two later checks.
* A renewal keeps nothing on the MPT order: `plan` is the part of the `Context` that
  `SetupRenewalPlan` fills and later steps add to, and it ends with the pass (`StopPlan`,
  `OnPlan`). `subscription` is Adobe's view of every subscription and outlives it.
* Each `update_subscription` of a plan is one action (`Patch`): it succeeds, is refused, or
  is carried out and reported as failed because the GET behind the PATCH fails ("Unread").
* `CreateNetNewSubscriptions`, `ApplyOperation` and the returns treat their items in any
  order; the code has the order of the payload. Between the four kinds of operations
  (`Rank`) the order is the code's.
* `NoPlan.snapshot` holds what the pass saw of the planned subscriptions and of the scheduled
  ones: both come from the one list read by `SetupRenewalPlan`.
* `renewed` is `renewedQuantity`, 0 for None; `CommittedQuantity` is what Adobe renews, which
  may differ from the plan. It shows on the subscription with the completion of the RENEWAL
  order or, for those in `ShownLate`, at any time after it (`AdobeShowsRenewed`). A
  subscription that shows none yet is skipped by `NormalizeRenewedSubscriptions`, and the
  order completes with its preference not brought in line; the test
  `test_normalize_renewed_subscriptions_step_no_renewed_quantity_skips_patch` wants it so.
* `OrderedProducts` are the added products with a line of their own in the MPT order. For any
  other `CreateNetNewMptSubscriptions` warns and goes on (`ToPublish`): the order completes,
  and the product is scheduled at Adobe without a subscription in the Marketplace.
* `SubmitRenewalNowOrder` goes on without an order when there is neither an order nor a
  preview; the preview step before it makes one or the other true, and orders do not
  disappear, so the branch has no action.
* A RETURN order that Adobe refuses later is no longer listed (`AdobeSettlesReturn`), because
  `get_return_orders_by_external_reference` asks for OPEN and COMPLETE ones.

### The other kinds of orders

* `kind` is what `fulfill_order` reads off the order; it never changes.
* `customers` counts the accounts created at Adobe, `customerId` and `agreementCustomer` are
  the identifier on the order and on the agreement, saved one after the other. `buyers` says
  for which account each NEW order was placed.
* `CreateCustomer` runs the rest of the pipeline inside its `try`: an Adobe error that no
  later step handles is taken for a refused account, and fails or queries the order.
* A reseller change knows the transfer only in the pass that commits it (`seen`); later
  passes decide from what the customer and the order say. `change.items` are its line items.
  An order without a line to buy skips `SubmitNewOrder`, also when its transfer is known, and
  raises at its first line (`FetchTransferAsOrder`, whose pass then waits).
* The order a switch places is found again by Adobe (`DeduplicatesOrders`) or by its saved
  identifier; `Moved` is what it does to the quantities.
* Loops over subscriptions are unordered. The rollback of a configuration goes on past a
  failing call, and sends the old flag.

### Transfers and migration

* `records[m]` is the row of the table of transfers, `transfers[m]` what Adobe has of the
  membership, `starting` and `checking` are the two jobs with the row each has read; a save
  writes the whole row as the job holds it. `ProcessDies` and `CheckDies` end a job anywhere.
* `seen` is what the running pass of the order read of Airtable at its start, and what it
  has still to publish (`items`).
* A line stands for what the order asks to have anew; `SubscriptionOf` is the transferred
  subscription whose licences it would continue, and `lapsed` what that one offers for a
  manual renewal once expired. `lateInfo` is the stored split (`Param.LATE_RENEWALS_INFO`).
* What the order renewed or bought is active at Adobe, so a later pass finds it among the
  customer's subscriptions: `ActiveLines`. `Mismatched` is `has_order_line_updated` on them:
  it compares whole maps, so a line that is not held at all differs too. For the
  transferred subscriptions the comparison of lines is `"ItemsDiffer"`, one of the things
  that may speak against an order.
* `vendorId` may hold the identifier of a transfer (`TransferId`) where a NEW order's is
  expected: fetching it raises (`FindTransfer`).

### Agreements, deployments, synchronisation

* `adobe[s]` is Adobe's subscription, `agreements[i].subscriptions[s]` the copy in agreement
  `i`, `records[d]` the row of deployment `d`. `Deployments` are those with a row; the
  agreement of the customer itself belongs to `Main`.
* `sync` and `job` each carry the lists they fetched: copies, subscriptions and customer are
  read one after the other (`seen`, `listed`, `commitment`), and all may be stale when used.
* `Change` is a change elsewhere or a failing call, `MaxChanges` in all: bounded because
  convergence is about what happens after the last of them.

### Left out of these modules

* `SetOrUpdateCotermDate`, `UpdateAgreementParamsVisibility`, `PrepareCustomerData`, the list
  of created order identifiers in all pipelines but that of change orders, prices, discount codes (`RecordFlexDiscounts`,
  `RecordDiscountRedemptions`): no step decides on them. Assets of one-time items: created in
  one call per line and never read again.
* What runs behind `CompleteOrder` (templates, `NullifyFlexDiscountParam`, `SyncAgreement`):
  its failures do not come back, because a completed order is not dispatched again. The sync
  itself is `AgreementSync`.
* Late renewals in the pipelines of change orders and reseller changes; they are composed
  with transfers only.
* In a reseller change: its record in Airtable, the deployments' checks (`TransferOrder` has
  them) and auto-renewal flags. In a configuration: the quantity sent with the flag.
* In the synchronisation: prices, one-time assets, profile parameters, the dry run, the
  queries that choose agreements, duplicate copies of one subscription in one agreement; one sync runs at a
  time. An agreement is terminated with the last of its subscriptions (`TerminateCopy`).
* A second order for the same membership; a transfer that Adobe lists with no items at all.

## 3. Assumptions about the outside

* One pass at a time per order, on the order as it was saved last: the queue of the platform
  SDK, not in this repository. No two orders of one membership, no two syncs at a time.
* `DeduplicatesOrders`: Adobe takes a repeated POST with the same `x-correlation-id` for the
  first one. `RenewalFollows`: a processed order moves the renewal quantity with the current
  quantity. Both are constants, and the runs set both to TRUE. They matter: with either
  FALSE, or with two `Offers` so that a repeated preview may be priced otherwise, TLC finds a
  change order that buys twice after a pass was cut off between POST and save. `KeepsPromise`
  is thus what the code owes to Adobe's behaviour. The theorems that need either
  name it as a hypothesis (`SwitchedOnceCorrect`, those under `OneOffer`, and those of
  `ChangePromise_proofs`).
* Renewals: a refused update changed nothing, and the updates of a reversal succeed
  (`UpdateErrors = {"Rejected"}`, `ReversalErrors = {}`). The code calls its reversal "best
  effort"; with "Unread", or with any failing reversal, TLC refutes `ReversedToSnapshot` and
  `NeverDips`.
* Asked for a transfer as if it were an order, Adobe answers with the transfer or with an
  error; asked for the commit of a reseller change, it answers with OPEN or COMPLETE.
* What a lapsed subscription offers for a manual renewal stays what it is until it is renewed.
* No order identifier is a prefix of another: `get_return_orders_by_external_reference`
  compares prefixes.
* Adobe settles every order and every transfer it keeps open (used for liveness only).

## 4. What TLC checks

Twelve runs. Deadlock is not checked in any of them: a decided order is left alone, a settled
record too, and then nothing need happen.

### Passing

| run | instance | shows |
|---|---|---|
| `change_order` | An upsize of which the customer holds part, a new item, a returnable and another downsize, three purchases; every refusal; no renewal update fails, because a rollback gives the purchase back on purpose. | Nothing is bought beyond its line (`NeverOverbought`); the one purchase the customer holds is the one on record (`PurchaseHeld`); a completed order has served every line (`CompletedIsDelivered`); the renewal quantities stay above the minimum of 7, their sum before and after (`CommitmentKept`); nothing is ordered for a decided order (`NothingOrderedOnceDecided`); and `ChangeOrder` implements `OrderPromise` (`KeepsPromise`). |
| `change_live` | Four purchases, one a late renewal and one of another deployment; every error of a renewal update with its rollback and the failures of that; a line Adobe does not activate; the due date on the next day, the two weeks from day 1, the anniversary on day 2. | `TypeOK`; a recorded purchase is processed before completion (`PurchaseProcessed`); the one the order names is final, also when the list of orders takes the place of the identifier (`RecordedPurchaseIsFinal`); no more is given back than the downsize (`ReturnedWithinDownsize`); every order is decided (`DecidedInTheEnd`). |
| `renewal_order` | Both plans: at the anniversary over four subscriptions, one per kind of operation, and two added products, of which one has no order line and a scheduled subscription of an earlier order; now over five, two of them to renew, one of which may show its quantity late; every refused update. | At the anniversary: `NeverDips` below 14, the sum before and after, `ReversedToSnapshot`, `ScheduledOnce`, `PlanInPlace`. Now: `RenewedOnce`, `AdditiveFirst`, `NowDelivered`: what was renewed is in line, or where it showed late is not set to the plan. And `TypeOK`. |
| `other_orders` | The five kinds of order of `FulfillOrder`, two new items (one stays inactive), a downsize bought in two parts, a lapsed subscription; two `Offers`; three flags of which one call each may fail. | `TypeOK`; purchases for one account (`OneAccount`), delivered (`PurchasedIsDelivered`); a reseller change published only when transferred (`PublishedIsTransferred`); licences switched once (`SwitchedOnce`), all given back (`TerminatedIsReturned`), flags as asked for (`ConfiguredWhenCompleted`); and `DecidedInTheEnd` for every kind. |
| `migration` | Two memberships, one committed and one of a global customer; every error of both jobs. | `MigrationTypeOK`; a record that runs is completed or failed in the end (`MigrationSettles`). |
| `transfer_order` | The order of a global customer beside both jobs on its membership; two transferred subscriptions, a deployment, two lines of two licences: the old subscription of one may lapse and offer none, one or both for renewal, that of the other offers none, so that an order can come back with one line active and the other not; every error of either. | `TransferredNotRebought`, `RenewedNotRebought`, `CompletedIsDelivered`, `SynchronizedIsDelivered`, `RenewalOffWhenMigrated`, `DeploymentsBeforeCompletion`, `PublishedKeepsRenewing`. |
| `agreement_sync` | A subscription of the main agreement and one of a deployment; a sync of any agreement, the deployments' job and two changes elsewhere, any of them between any two calls. | `SyncTypeOK`; a copy is terminated only when its original is gone (`TerminatedIsGone`); a record says "created" only of an agreement that is published with the deployment's subscriptions (`CreatedIsPublished`); some time after the last change every active agreement is up to date (`Converges`). |

In every run a pass or a job may be cut off before each of its calls.

### Violations

Each states what the repository says and the code does not do; `PROJECT.json` quotes the line.

| run | property | what happens |
|---|---|---|
| `change_overreturn` | `ReturnedWithinDownsize` | The purchases to give back are chosen anew in every pass. When one of them gets too old between two passes, the second gives back another set on top of what the first did. |
| `change_rebought` | `NeverOverbought` | An upsize the customer holds in full needs no purchase and leaves no identifier. The first pass raises the renewal quantity; the next one, which comes because returns are open or the first was cut off, finds nothing held beyond it and buys the whole upsize. |
| `renewal_shared_sku` | `NowDelivered` | The return of one lapsing subscription is taken for that of another with the same SKU. |
| `reseller_rebought` | `TransferredNotBought` | Only the pass that commits a reseller change knows its line items; a later pass finds none and buys them. |
| `transfer_excess` | `ExcessIsBought` | While the RENEWAL order of a line is open the order has no Adobe identifier; the next pass finds the renewed subscription active, takes its quantity for a change by the client and fails the order, with the renewal paid and the excess not bought. |

### Bounds

* `MaxNewOrders`, `MaxScheduled`, `MaxRenewals` and `MaxCustomers` are one more than an order
  may need, so that a second order, product, renewal or account can be seen if a step would
  make it. For transfers `MaxNewOrders` is 1 (identifiers beyond it are those of transfers):
  what is bought there is bounded by `TransferredNotRebought` and `RenewedNotRebought`.
* Two days on which an order may start and one to three until it is due let a due date, the
  last day of a purchase and the two weeks fall before, on and after a pass. Where the due
  date is 0 days away (`transfer_order`, `transfer_excess`) the order can still expire.
* Few lines, because steps treat each line alike: one of each kind. Three purchases are the
  fewest where two different sets have the same sum; a fourth is what is not to be counted.
* `MaxRetries` and `MaxReschedules` of 2 are the fewest where counting differs from giving
  up; `transfer_order` sets the latter to 1, `migration` covers 2. Two transfers of one
  membership let a refused one be tried again.
* `MaxChanges = 2`: one change before a list is read and one after. `MaxAgreements` leaves
  room for an agreement more than `CreatedIsPublished` expects.
* No symmetry: the instances are small, and the liveness runs would not allow it.

### Refinement

`OrderPromise` has two variables and says what fulfilment promises about buying.
`KeepsPromise` maps an order's status to `order`, and the NEW orders that hold or will hold
licences to `purchase` (`Purchase` in `ChangeOrder`): none yet, pending, held, lost, or
"twice", a value no state of `OrderPromise` has.

### Fairness

* Orders (`ChangeOrder`, `FulfillOrder`): the platform dispatches a `Processing` order and
  days pass (weak); Adobe settles what is open (weak); a running pass moves on or is cut off
  (weak, on the steps); and passes are not cut off for ever in front of `SetupDueDate`, hence
  strong fairness of that step: a pass that reaches it again and again executes it. In
  `FairReachableSpec`, and for the other kinds, the lookup of the customer succeeds now and
  then: `SetupContext` comes before `SetupDueDate` in every pipeline, so an order whose
  customer can never be fetched is not decided by its due date. `Abort`, the answer to a
  query and every refusal have no fairness.
* Migration: the CronJob starts again (weak), Adobe settles transfers (weak), and no step of
  the job is cut off for ever (strong, step by step). Without the last a job may die on its
  first record in every run, which is why one bad record can keep the others waiting
  (`migration.py:402`).
* Synchronisation: a sync goes on (weak) and is started again for every agreement that has
  something to sync (strong); orders on a subscription end (weak).

## 5. What is proved

For all values of the constants that satisfy the named assumptions of the modules (each says
only what type a constant has and what the code compares it with), for every error and every
cut. All proofs follow the pattern `Init => Inv`, `Inv /\ [Next]_vars => Inv'`, `Inv => P`.

`ChangeOrder_proofs`

* `TypeCorrect`: `TypeOK` is not inductive: that a due date stays within its range needs the
  day on which the order may still be opened. `TypeInv` is all of it but the list of orders,
  with `CalendarOK`; that the list names orders Adobe has follows from `ListInv`.
* `PurchaseIsProcessed`: the strengthening `PurchaseInv` says that a pass past `SetupContext`
  has the recorded identifier in mind (`RecordRead`), that between POST and save there is
  none on record and the answer is kept (`Unrecorded`), and that past `SubmitNewOrder` the
  recorded purchase is processed (`PurchaseWaitedFor`). Adobe never unprocesses
  (`OrdersKept`). Nearly every step either ends its pass or goes on with the same order in
  mind (`EndsPass`, `GoesOn`), so the proof has two lemmas about these two shapes and one
  lemma per part of the pipeline.
* `RecordIsFinal`, from the same invariant and `ListInv`: the NEW orders on the list are
  exactly the one saved as the identifier, if any, so that the list completion writes names
  the same purchase, beside the RETURN orders. `DecidedIsLeftAlone`, from `CalendarOK` (a
  running pass means a `Processing` order) and from every step needing a running pass.
* `ReturnedWithinCorrect`, under `ListedThroughout` (no purchase stops being listed while the
  order may be worked on), with every error of an update and every rollback: what Adobe lists
  shrinks as returns are processed, but a pass counts its own returns in, so every pass finds
  the same candidates (`ListIsCandidates`). Of two combinations that match, one comes last
  (`LaterIsAsymmetric`): the choice is the same set in every pass, of exactly the downsize or
  empty (`ToReturnAddsUp`), and only of it is anything ever returned (`ChoiceInv`).
  `change_overreturn` is what happens without the hypothesis.

`ChangePromise_proofs`, under `AdobeCooperates`: Adobe recognises a repeated order, offers one
price, moves what renews along with what is held, and refuses no renewal update (a rollback
gives the purchase back on purpose).

* `PromiseIsKept` is the refinement: `KeepsPromise`, with every step of `ChangeOrder` a step
  of `OrderPromise` or none. `PromiseInv` adds to `PurchaseInv` that there is at most one NEW
  order, that until it is on record its payload is the preview any pass would make
  (`OneOrderInv`), and that what is given back is of downsized lines (`ReturnsInv`). Adobe's
  processing of the order does not change the preview, because held and renewing quantity
  move together (`ProcessKeepsPreview`); neither do returns, which are of other lines
  (`TakeBackKeepsPreview`). So a pass that does not know of the order previews it again, and
  placing it again is answered with it (`PlaceKept`). The renewal updates do change previews,
  which is why the invariant needs the order on record, or none, behind `SubmitNewOrder`. The
  proof says nothing about how much is bought: see `change_rebought`. Almost all steps are
  `Plain`: they keep what was previewed and what was chosen to be given back.
* `PurchaseIsHeld`, from the same invariant.
* `CompletedIsDeliveredCorrect`, under `ReturnsAreOpen` as well: the purchases are listed as
  long as the order may be worked on, none is of another deployment, and the last two weeks
  are later. `DeliveredInv` follows a pass by the stretch of the pipeline it is past: it
  chose all that is due back, and past `SubmitReturnOrders` Adobe has taken it (`BackInv`);
  new items renew as bought, exist only once bought, and are published at the end
  (`NewLinesInv`); behind each of the two loops over the lines these renew as ordered
  (`LevelInv`). A new item has no subscription to update before it is published, so the first
  loop passes over it, and that it renews as ordered comes from its purchase.
* `NeverOverboughtCorrect`, under `RenewsAsOrdered` (what renews at first is what the order
  starts from) and `SomethingToBuy` (the customer does not hold every upsize in full
  already): `BoughtInv` says that until an order is on record every line holds and renews
  what it did at first, plus what the one processed order brought, so that `PurchaseQuantity`
  comes to the same in every pass (`PreviewsToBuy`). Past `SubmitNewOrder` there is an order:
  this is what `SomethingToBuy` is for, and `change_rebought` is the case without it.
* `CommitmentKeptCorrect`, under all of these and `CommitmentMet` (the minimum is met before
  the order and by its quantities): `FloorInv` says that a line to be upsized never renews
  less than at first, that a downsized one renews less only by the purchases Adobe took back,
  or as ordered once it took all, and that nothing is placed for return or lowered before
  all that is bought is processed and raised (`Raised`). So the sum of what renews is at
  least that of the first quantities until then and of the last ones afterwards.

  Every hypothesis of these theorems holds in the instance of `change_order`, and the
  invariants hold in all its states.

`RenewalOrder_proofs`

* `RenewalTypes`: `Inv` is `PassInv` (the calendar of a pass) and `PlanInv` (the plan and the
  preferences, and that a pass is in the pipeline of its payload).
* `PlanIsInPlace`: `AnniversaryInv` says what is done by each step of the pipeline at the
  anniversary: every new product is resolved (`ItemsResolved`), and behind the updates every
  entry is in place (`Finished`), which publishing leaves alone. That a product is published
  is claimed of those with an order line only: the code completes without the others.
* `ScheduledAtMostOnce`: inside `CreateNetNewSubscriptions` a product with a scheduled
  subscription was listed at the start of the pass or resolved by it (`AllListed`); only then
  does `ScheduleNew` find none.
* `FailedPlanIsReversed`, under `UpdatesAreRefused` (a failing update changed nothing, and the
  reversal meets no error): `AsSeen` says which preferences still are, or are again, what the
  snapshot says. Without the hypothesis it is false, and not only in the model: an update that
  Adobe carried out and reported as failed is not in `applied`, and is not reversed.
* `RenewalNeverDips`, under the same and `PlansKeepMinimum` (the sums before and after the
  plan are not below the minimum): the proof is about the order of the updates. `Rank` applies
  what adds before what takes away, so what is applied is a prefix of the plan by rank
  (`AppliedInOrder`); while nothing is taken away yet the sum is at least the one before, and
  once something is, everything that adds is there and the sum is at least the one after
  (`Balanced`, `DipInv`). Reversing runs the same states backwards.
* `RenewalIsPlacedOnce`, `AdditionPrecedes`: `AdditiveInv` says that as long as the RENEWAL
  order is not processed the subscriptions to renew look as they did at the start, so that
  every pass makes the same order, and that no pass comes behind it.
* `NowIsDelivered`, under `UniqueSkus` (see `renewal_shared_sku`) and `QuantityRequested`:
  `BackInv` follows the returns (what was handled is returned or waited for), `LineInv` the
  preferences that are brought in line with what was renewed. What is in `ShownLate` may be
  skipped; that it is never left with the planned quantity either rests on `QuantityShown`
  (whatever is written is what Adobe shows, and that is nothing, what an earlier order renewed
  or the committed quantity). `QuantityRequested` says that an
  entry without a requested quantity was renewed before the order. Without it the order's own
  renewal looks to the next pass like an earlier one: a subscription with a renewed quantity
  and no requested one counts as renewed already, and is not normalised again. An entry with
  neither would be a line item of the RENEWAL order without a quantity.

`FulfillOrder_proofs`: each kind of order has its own invariant, and steps of other kinds
leave it alone because a pass never leaves the pipeline of its kind.

* `ConfiguredCorrect`: `ConfigurationInv` knows which flags the loop has dealt with.
* `OneAccountCorrect`: `AccountInv` follows the identifier from the POST over both saves into
  the context; `Quiet` is the shape of a step that touches none of these.
* `PublishedIsTransferredCorrect`: `TransferInv` with `UntransferredInv` says that, as
  long as Adobe has not transferred the customer, the pass that committed the change gets no
  further than `CheckAdobeResellerTransfer`, and any other pass that knows the customer has
  the identifier of the transfer, for which `SubmitNewOrder` gets no processed order.
* `SwitchedOnceCorrect`, under `DeduplicatesOrders`: every SWITCH order of the MPT order has
  the same payload, so Adobe makes one of them (`SwitchInv`, `Steady`).
* `FulfillTypes`: `CalendarInv`, `GoodsInv` (what is ordered and given back; an identifier
  names an order placed, a preview buys some of every new item) and `RecordsInv` (accounts and
  what is published). The shapes `GoesOnOrEnds`, `Sparing` and `Copying` cover most steps.
* `PurchaseIsDelivered`, under `OrderHasItems` (something new is ordered): `DeliveryInv` says
  that a pass has the identifier on record in mind, or a preview, so that it cannot pass
  `SubmitNewOrder` by, and that behind it the purchase on record is processed.
* `TerminationIsReturned`. The hard part is that the purchases to give back are chosen anew
  in every pass, on another day, among others already given back or refused, and yet must add
  up over all passes. What a pass may choose from on a given day is `ReturnableOn`, and it
  only shrinks (`ReturnableShrinks`): a purchase leaves before later ones of its line, and the
  first renewal still listed only moves on. As quantities are positive, the set that adds up
  to the line is the same on all days on which one does (`FullIsUnique`), so all passes give
  back of one set `Full(line)`; `TerminationInv` relates that set, the returns and the
  quantity left. Hypotheses: the lines are given back whole (`WholeLines`), purchases are
  numbered as they expire (`ReturnDaysInOrder`), and none is of another deployment
  (`OneDeployment`): see section 6. `other_orders` meets all three.

`Migration_proofs`

* `MigrationTypeCorrect`: `MigrationInv` adds what a job knows of the row it holds: retries
  below their limit (`Counted`), the row it works on (`Working`), a transfer behind every
  running row (`Recorded`), one transfer per membership that is open or complete
  (`OneTransfer`), completed where the job looked (`Followed`).
* `RenewalOffCorrect`: past `SwitchRenewalOff` no active subscription renews (`Off`); what
  expires in between only makes it easier.

`TransferOrder_proofs`

* `SynchronizedIsDeliveredCorrect`: only a pass behind the completion of its order is at a
  step that closes the record (`ClosingInv`), and the jobs never write "synchronized"
  (`MigratingKeepsRecords`): a job that saves its copy of a row keeps the status it read
  unless it fails, completes or starts it.
* `TransferredNotReboughtCorrect`: a pass that may still place the NEW order has found every
  transferred subscription expired (`RebuyInv`), and what is expired or transferred stays so
  under the jobs and Adobe (`MigratingKeepsAdobe`). A pass with an identifier in mind places
  nothing. Almost all steps are `Open` (do not close the record) and `Calm` (do not start to
  buy), so each has a proof of three lines.

* `DeploymentsBeforeCompletionCorrect`, `PublishedKeepsRenewingCorrect`: `PathInv` says that
  what a pass has read still holds as far as the pass goes by it. A row read as ended has
  ended, a deployment read as created is created, and an identifier on the order is that of an
  own transfer unless the jobs made one (`SeenInv`, `VendorInv`, `RouteInv`); nothing recorded
  is unsettled behind the check of the deployments (`WaitInv`, `ReadyInv`); nothing is
  published while a job may still work on the membership (`PublishInv`). The other half is
  what the jobs keep (`JobsInv` in `Migration_proofs`): a row with a customer has a completed
  transfer, and no job starts it again.
* `RenewedNotReboughtCorrect`, `CompletedIsDeliveredCorrect`, under `OneOffer` (Adobe
  recognises a NEW order it has seen, and a retry is priced alike): `TradeInv` says that there
  is at most one RENEWAL and one NEW order, the first for what was split off for late renewal
  and the second for the rest of each line (`OrdersInv`); that what a line holds is the sum of
  those of the two that are processed (`AccountsInv`); which order a pass has in mind
  (`IdsInv`, `PreviewInv`), and that at the end of the pipeline both are processed (`DoneInv`).
  The difficulty is that lines are split anew in every pass, from subscriptions that jobs and
  Adobe change in between: a subscription that was renewed is active, and then the order goes
  the way of an unexpired transfer (`DeliverInv` covers both). `TransferOrderAssumption` says
  that no line of a transfer order was held before and that lines are not transferred
  subscriptions. Without `OneOffer` each new price would be a second purchase.

`AgreementSync_proofs`: `Inv` is `CustomerInv` (the customer), `JobInv` (the deployments'
job) and `SyncInv` (the sync); the lemmas named "...Grows" say what never goes back.

* `SyncTypeCorrect`. `TerminatedIsGoneCorrect`: what a sync listed as terminated stays
  terminated however stale the list is. `CreatedIsPublishedCorrect`: the job publishes before
  it saves the record.

Only model-checked:

* no safety property of a passing run: each is stated by a theorem. Where a theorem names
  hypotheses on the constants, the instances outside them are not covered by it, and
  sections 4 and 6 show some that break the property;
* liveness: `DecidedInTheEnd`, `MigrationSettles`, `Converges` (out of the prover's reach, as
  is ENABLED). No module uses RECURSIVE.

## 6. Seen while modelling

The five findings are in section 4. Besides, the models show:

* An error of a renewal update that leaves the order `Processing` gives the purchase back;
  the next pass still finds it complete and lowers the downsized lines, so that the renewal
  quantities fall below the minimum once it is gone (`change.py:295`). `change_order` allows
  no such error; with `PatchErrors = {"OTHER"}` TLC refutes `CommitmentKept`.
* An order whose NEW order is complete and whose due date or renewal window comes before the
  next pass is failed and keeps the purchase (`shared.py:655`).
* A membership whose transfer was created and not saved stays `init` for ever: the next run
  finds it transferred already and passes over it (`migration.py:304`).
* When the subscriptions of one record cannot be listed the job ends, and the records behind
  it wait (`migration.py:402`).
* A termination order does not switch off the renewal of what it can no longer return: the
  docstring of `fulfill_termination_order` says that it "will be switched off", and the step
  that would (`termination.py:106`) is in no pipeline.
* Purchases of another deployment count when a termination compares what is returnable with
  the line, and are skipped when returns are placed (`shared.py:868`): an order with such
  purchases would be completed with licences left. The proof of `TerminatedIsReturned` needs
  `OneDeployment` for this reason.
* Adobe's commitment is read before the subscriptions of a sync and used after
  (`agreement.py:1067`); the next sync repairs the copy.
* A transferred order that bought anew may be completed with no Adobe order on record,
  because `SaveCustomerData` clears the identifier (`transfer.py:422`).

## 7. Not modelled

* Order validation (`flows/validation/`): it judges a draft and keeps no state; the same
  checks during fulfilment are the `Refusals`.
* The HTTP client, tokens, navigation, notifications, templates, parameters, formatting: no
  state that fulfilment reads back.
* Three-year commitment benefits (`flows/benefits.py`): copies the status of a request to one
  agreement after the other; no step decides from the copy. The commitment as fulfilment
  meets it is in `ChangeOrder` and in the refusals.
* Discount codes: the retries of a preview without an expired code change its price only,
  which is one of the `Offers`.
* Management commands and the scripts under `migrations/`: entry points and one-off edits.

Left for later, in this order: late renewals in the pipelines of change orders and reseller
changes; a second order for a membership; one-time assets.
