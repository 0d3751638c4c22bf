# TLA+ models of the delivery API

The repository is a NestJS service over PostgreSQL (Prisma) and, optionally, Redis. Customers
place orders at restaurants, restaurants move the orders along, coupons and referral rewards are
spent on them, and Expo pushes and Ably events tell people what happened. Every request is an
independent handler; several processes may serve requests at the same time, and nothing but the
database (and Redis) is shared. Transactions run at PostgreSQL's default READ COMMITTED: no code
asks for another isolation level. The hard behaviour is therefore in what handlers read before
they write, in what they do after their transaction has committed, in what is not retried, and in
what a process remembers that Redis has forgotten.

Paths below are relative to the repository root (`src/...` is the code, `prisma/...` the schema);
in `PROJECT.json` they have one more `src/` in front.

## Inventory

| Component | State | Operations | Interacts with | What is hard | What makes it correct |
|---|---|---|---|---|---|
| Orders (`src/orders`) | order rows with status and stage timestamps, history rows, item rows | quote, create, updateStatus, lists | coupons (inside create's transaction, and after updateStatus's), notifications, menu, zones, payment methods | racing status requests, stale draft, work after the commit | stages in order, an audit trail that agrees with the row, totals that match what was ordered |
| Coupons (`src/coupons`) | promotional coupons and usages, referral usages, rewards | create/update/deactivate, validate, resolve, register usage, status hook | orders, notifications | counter races, unique constraints as the only guard, hooks that race or fail | uses counted and bounded, one referral per user, a reward spent once and only if earned |
| Notifications (`src/notifications`) | none of its own; what phones and panels last saw | push, publish, token requests | orders, coupons | lost and reordered messages | people end up knowing the current status |
| Auth (`src/auth`) | users, refresh sessions, password-reset and phone-verification sessions | register, login, refresh, logout, recovery, verification | ephemeral store, SMS service | rotation races, attempt counters, one-time tokens | one live refresh token per session, bounded attempts, tokens used once |
| Protection (`src/security`) | counters, blocks and sessions, in Redis and in each process | increment, get, set, delete, garbage collection | cache | Redis failing in the middle, two views of one counter | limits hold, blocks end, what was deleted stays deleted |
| Cache (`src/cache`) | Redis keys, backoff | get, set, getOrSet, delMany, atomicIncr | restaurants, menu, zones, locations | fill racing an invalidation, keys that are not the ones deleted | readers see a change at the latest when its key expires |
| Restaurants (`src/restaurants`) | rows, favourites, reviews, hours, forced status | create, update, status, favourites, reviews, hours, lists | cache, orders | counts stored next to what they count, check-then-act on the forced status | stored counts match, an administrator's decision stands, shown open when it is |
| Menu (`src/menu`) | categories, items, options, choices | CRUD, cached views | cache, orders | a category removed while items are filed in it, options replaced while orders are drafted | items stay filed as asked, what was sold stays, options can be satisfied |
| Delivery zones, payment methods, store categories | rows per restaurant | CRUD, replace the set | orders | delete-and-insert races, halves of a row checked apart | no duplicate, one list wins, zones in town |
| Addresses (`src/addresses`) | addresses, one of them the default | create, update, default, remove | orders, account deletion | default moved by concurrent requests, halves of a row checked apart | one default while there is an address, a neighborhood in its city |
| Billing (`src/billing`) | cycles, items, payments | report, save | orders | report outside the transaction, rounding, saving again | a cycle is the sum of its items, and never an older one |
| Locations, uploads, users, observability, bootstrap | rows, blobs, logs | CRUD, upload, account deletion, logging | - | little | - |

`PROJECT.json` lists the hazards of this code one by one, each at its line, with the properties
that watch it.

## Modules

| Module | Models | Code |
|---|---|---|
| `OrderStatusFlow` | the status graph and the transition check | `orders/constants/order-status-flow.ts`, `ensureValidStatusTransition` |
| `OrderLifecycle` | the promise: placed once, never gone, every status follows one held before | abstract |
| `OrderUpdates` | order rows, and `updateStatus` as concurrent requests | `orders.service.ts` 246-318 |
| `OrderNotifications` | extends `OrderUpdates`: the work after the commit that tells customer and panel | `orders.service.ts` 124, 298-423, both notification services |
| `OrderCoupons` | extends `OrderUpdates`: checkouts, coupons, and the coupon hook of a status change | `coupons.service.ts` 50-245, 372-401, 501-646; `create` in `orders.service.ts` |
| `PasswordRecovery` | one account: codes, tries, reset tokens, deletion | `auth.service.ts` 213-410, `users.service.ts` 67-105 |
| `PhoneVerification` | several users: registration, codes for a phone, deletion | `auth.service.ts` 57-148, 412-599, 673-690, `users.service.ts` |
| `RedisCache` | the Redis server behind a client with a time limit and a backoff | `cache.service.ts` |
| `LoginSessions` | extends `RedisCache`: the ephemeral store, rate limits, login, refresh, logout | `ephemeral-store.service.ts`, `auth-protection.service.ts`, `auth.service.ts` 150-204, 706-799 |
| `PublicCache` | extends `RedisCache`: the cached public views and what invalidates them | `restaurants`, `menu`, `restaurant-delivery-zones`, `locations` services |
| `Database` | the requests that the services below share, and what it means that two overlap | external (PostgreSQL) |
| `Restaurants` | status, city, favourites and reviews of a restaurant | `restaurants.service.ts` |
| `RowSets` | the four lists that are deleted and inserted as a whole | `restaurants`, `payment-methods`, `store-categories` and `menu` services |
| `Menu` | categories and items | `menu.service.ts` |
| `DeliveryZones` | extends `Restaurants`: the zones | `restaurant-delivery-zones.service.ts` |
| `OpeningHours` | whether a restaurant is open: a pure function and its reference | `restaurants.service.ts` |
| `Storefront` | composes the last five | |
| `Addresses` | addresses, the default, account deletion | `addresses.service.ts`, `users.service.ts` |
| `OrderDraft` | extends `Addresses`: `buildOrderDraft` query by query, amounts, the commit, edits of the offer | `orders.service.ts` 40-125, 425-700, `menu.service.ts` (options), `coupons.service.ts` (`computeDiscount`) |
| `Billing` | the report and the cycle saved from it | `billing.service.ts` |
| `Checkout` | composes `OrderDraft` and `Billing` | |
| `MC...` | instances for TLC: constants, scenes, symmetry | |
| `...Proofs` | theorems about the module of the same name; `OrderProofs`: about `OrderNotifications` and `OrderCoupons` | |

How state and steps correspond to the code:

* **OrderUpdates.** `status`, `stamped` (which of `acceptedAt`, `preparingAt`, ... are set; the
  creation stands for PENDING) and `history` are the columns and rows of an order. `up[r]` is one
  request in progress. `ReadForUpdate` is the transaction up to the transition check, `CommitUpdate`
  the update and the commit. One cannot see the other's uncommitted row at READ COMMITTED, and the
  update, which names the row by id only, waits for a concurrent writer and then applies; so read
  and commit are exactly the two points at which the request touches shared state. A request that
  is refused changes nothing and takes no step. History is kept in the order of the commits.
  `overlapped` is a ghost: the orders that ever had two requests in flight together.
* **OrderNotifications** splits what follows the commit: read the order again, push what was found,
  publish what was requested. Either service may lose a message (both swallow their failures), and
  the process may die (`HookFails`). `announced` is create's own event. `news` (what was pushed since
  the last commit), `lost` and `muddled` are ghosts.
* **OrderCoupons.** `cart[k]` is one `POST /orders`: `Draft` validates the coupon outside any
  transaction, `TxRead` opens the transaction and reads the promotional coupon, `TxCommit` does the
  rest. The rest is one step because every row it writes stays locked until the commit and every
  condition it writes under (`usedCount` unchanged, reward still AVAILABLE, the unique
  `referredUserId`) is evaluated once the lock is held. The draft reads its rows in parallel and the
  model reads them at one instant; every one of them but the order count is checked again in the
  transaction. A usage is indexed by its order and a reward by the order of its usage, which the
  unique constraints of the schema justify. The hook of an acceptance is one step (its second read
  and its update of the usage row run into the row lock or the unique `referralUsageId` of another
  hook, and then roll back); the hook of a cancellation is two, since it deletes by id what it read.
  `peak`, `first`, `rushed`, `dropped` and `raced` are ghosts.
* **PasswordRecovery**, **PhoneVerification.** No transaction spans these handlers: every database
  statement commits by itself (the last one of `resetPassword`, of `confirmPhoneVerification` and of
  `deleteMyAccount` is a small transaction), so each is a step, named after what it does, and `up[r]`
  says which statement the request in slot `r` comes to next and what it has read. A statement that
  names a deleted row fails; the request can then only `Stop`, which also stands for a refused SMS and
  for a crash. A request that is refused by what it reads at once takes no step. Clocks show only as
  deadlines (`locked` for `nextAllowedAt`, `codeExpired`, `tokenExpired`) that may pass at any time.
  A recovery session belongs to one account and sessions of different accounts never meet, so
  `PasswordRecovery` has one account; phones are what users compete for, so `PhoneVerification` has
  several. The length of the resend lock, which grows with the number of recent sessions, and the
  rate limits in front of the handlers are left out: both only delay requests. Ghosts: `overlapped`
  (sessions that had two requests in flight), `rushed` (two starts in flight), `contended` (phones two
  requests had in hand), `late` (a start that outlived the account), `entered` (sessions whose code was
  entered right). The branch of `confirmPhoneVerification` for other providers is left out: every
  session is `INTERNAL`.
* **RedisCache.** A command is executed, or skipped because the client is in its backoff
  (`offline`), or given up. One that was given up may still arrive later than others (`strays`): the
  time limit of `withTimeout` abandons the answer, not the command. `Entry` is what the server makes of
  each command, the missing expiry of a fresh INCR included. `MaxFaults` bounds the failures.
* **LoginSessions.** A call of the ephemeral store is two or three steps: Redis, then EXPIRE if INCR
  made the counter, then the map of the process, and other requests run in between. A request of a
  handler is the sequence of its calls, `pc` says which one; it remembers the client that it was given
  (`held`), as `getClient` is asked once per call. A token is the session and the second it was signed
  in, because two tokens signed for a session in one second are the same string. Passwords are right
  or wrong; all limits of `auth-protection` are one pair of counters per route. A process may restart
  and lose its map; entries are evicted or expire at any time.
* **PublicCache.** A table is the set of changes committed to it; a view is what its queries found.
  Stale is therefore a fact and not a comparison of values: a view lacks a change. `Deletes` translates
  which keys each change deletes, with the names under which they are really stored.
* **Database** is what the remaining services share. `db` has a field per table, `up[r]` the request
  in a slot, with what it has read so far. `Arrive` is the first checks, `Proceed` a statement that only
  reads or whose rows nobody sees yet, `Commit` the transaction. `overlapped` and `blurred` are ghosts
  common to all of these models: a request is overlapped when another that works on the same thing
  commits while it is served, and a thing is blurred when an overlapped request wrote it last. The
  properties then say both what holds for requests that come one after the other and what the next
  undisturbed request puts right. A request is refused, fails or dies in `Fail`.
* **Storefront** runs its five modules over one `db`. `RowSets` keeps rows with the insertion that
  brought them, as the ids of the tables do, so that duplicates show in the lists without a key.
  `Restaurants` recounts favourites and reviews in a statement of its own, with the row of the change
  locked against the other; the removal of a favourite that finds no committed row waits for nobody.
  `Weeks`, the weeks of hours a restaurant may have, is a constant: any sets of intervals.
* **Checkout** runs the addresses, the draft and the bills over one `db`. The draft is a request with
  a step per query; the offer (restaurant, zones, items, methods) is edited between them, `seen` is the
  ghost of the offers that were current while an order was made. Money is in cents, and before
  it is stored in ten-thousandths of a cent (`Cent`), as percentages with two decimals leave them. `Addresses` gives each transaction a step per statement
  that looks at other rows.

Definitions whose name ends in `_Something` after that of another (`CommitUpdate_ClearsStamps`) are
plausible slips of that definition: each property is known to fail when its slip takes the place
of the real definition, and each part of a conjoined property when its own does.

## Runs

| Run | Question | Bounds | Result |
|---|---|---|---|
| `updates` | do racing status requests keep the audit trail and the stages, and refine the life cycle? | 1 order, 2 requests in flight, every target, a manager and a stranger; the number of requests in sequence is bounded only by the status graph | holds (8,006 states) |
| `updates_stale` | is the check atomic with the write, as the comment in `updateStatus` says? | same | violated: finding 1 |
| `notifications` | what do customer and panel know when the requests have ended? | 1 order, 2 requests, three targets | holds (147,537) |
| `coupons` | are counters, referrals and rewards right whatever races? Three scenes: checkouts for a promotional coupon an administrator changes; competing checkouts with referrals and rewards, and one accepted order; accept and cancel hooks of one order racing with a checkout that may spend its reward | 3 orders, 2 users, 1 coupon with limits up to 2, 2 checkouts and 2 status requests at once | holds (179,830) |
| `referral_liveness` | is an accepted referral confirmed in the end? | 1 order, 2 status requests; no symmetry | holds (87,968) |
| `recovery` | how many tries and new passwords does one code give, does a deletion stand, does the cooldown hold? Two scenes: one session, everything at once; two sessions, with wrong or expired codes only | `MaxAttempts` 2; 3 requests at once in the first scene (the third takes the counter past the limit), 2 in the second | holds (1,193,004) |
| `phones` | is a verified phone one whose code was entered right, does an uncontended phone have one user, does a deletion stand? Three scenes: the whole life of one session; one user and two phones; two users and one phone | 2 users, 2 phones, 2 sessions, 2 requests at once, `MaxAttempts` 1; no wrong or late codes in the last two scenes | holds (1,142,500) |
| `sessions` | do limits and blocks hold with two processes and a Redis that fails, what does a logout or a deletion end, is a refresh token spent once? Three scenes: counters with every kind of failure; logins up to the session they open; refreshes and logouts of one session on two processes | 2 processes, 2 requests at once, 1 failure, limit and threshold 2, a clock of 2 seconds, 1 session, counters up to 3 | holds (589,391) |
| `session_fallback` | is the memory of a process only used when Redis is unavailable, as the comment in the store says? | same | violated: finding 2 |
| `cache` | which changes can a cached view lack? | 2 processes, 2 requests, one view at a time of each kind, 2 changes or 1 change and 1 failure | holds (354,409) |
| `storefront` | do decisions, counters, lists, menu and zones survive concurrent edits, and is the week read right? A scene for each of them | 2 requests at once, 2 rows of each kind, 1 move of the restaurant, weeks of 3 days of 3 hours with one interval or none a day, or the same two every day, every hour | holds (279,243) |
| `checkout` | one default address, an address in its city, orders that were on offer and add up, a billing cycle that is the sum of its items. Scenes: drafts while the offer is edited; drafts while the address moves; addresses; billing | 2 requests at once; 10 carts, 5 offers, 1 edit at any point among the reads of a draft (earlier edits are other offers); 3 addresses, 2 neighborhoods; 2 bills with 4 changes | holds (129,732) |

In the larger runs a behaviour is followed as long as its states fit one of the *scenes* of the `MC`
module (the `CONSTRAINT` `InScene`), because all of the large instance is out of reach. A scene limits
which behaviours are followed, never what a step does, and behaviours may pass from one scene to another.

Why the bounds are enough. Orders interact only through coupons, so one order is enough for the status
modules; two requests are the least that race, and a third adds no new pair of read and commit. For
coupons the third order matters: the referred one, and two that compete for the reward it earned. Two
processes are the least that remember different things, and one failure is enough to part them; views
of the cache never read one another, so one at a time loses nothing. Three addresses are the least with
a choice of heir. Two rows of a list show a duplicate and a loss. Three days are the least
in which yesterday and tomorrow differ. The carts are chosen for the
boundaries: a line split in two, a discount that ends in half a cent and one in less, of a percentage with decimals, a
discount above the subtotal, a group with fewer choices than it demands; the totals of bills for commissions that round up and down.
The run `coupons` has `FirstOrderOnly` on; with it off only the theorems speak. Requests may always stop
arriving, so deadlock is not checked.

**Fairness.** Only `referral_liveness` assumes any: weak fairness of the coupon hook of each
request. After its commit the handler goes on by itself (`await handleOrderStatusChange`), with
nothing to wait for but the database, so it takes its next step unless it fails; failing is a step
of its own and the property excuses it. No request is ever required to arrive, Redis is never required
to come back, and no other handler promises that something will happen later.

**Findings.**

1. `orders.service.ts` 252-253 says the transaction prevents two simultaneous requests from acting
   on the same status. At READ COMMITTED it does not: both read ACCEPTED, one sets PREPARING, the
   other CANCELED, and both take effect. What does survive is `NoSkippedStage`: a stale request moves
   the order only to a successor of a status it has held.
2. `ephemeral-store.service.ts` 12 says that the map of the process is used only when Redis is
   unavailable. `get` consults it whenever Redis answers null (26), so a session deleted through one
   process can be revived by another that has written it before, without any failure.

The exceptions written into the properties are what the runs show short of contradicting a stated
promise, each with the least condition under which it happens:

* orders and coupons: two checkouts of a new user that overlap may put the referral on the second
  order (`ReferralFirstUnlessRushed`); a cancel hook may delete a reward that was spent after it read
  it (`SpentRewardSurvives`), and a canceled order may keep an unspent reward when its requests
  overlapped or its hook failed (`ReferralSettled`); total and discount are rounded apart, so a discount
  ending in half a cent makes the total a cent too high (`TotalsAddUp`); the limit of an item, which
  the refusal calls "por pedido", is per line of the cart, and the parts of an order may have been on offer at different moments (`OrderSound`);
* accounts: requests that confirm together count more tries than `MAX_VERIFICATION_ATTEMPTS`, by less
  than the number in flight (`TriesBounded`), and two starts that overlap send two codes at once
  (`CooldownUnlessRushed`); a confirmation that overlaps a reset marks a used session VERIFIED again,
  which brings its token nothing (`ConsumedStaysConsumed`); two users may verify one phone when their
  requests had it in hand together (`PhoneUniqueUnlessContended`); a start that outlives its account
  leaves a session or a phone behind (`late`); a refresh under way, or written late, outlives a logout
  (`LogoutRevokes`), and two refreshes of one token together both succeed (`TokenSpentOnce`); only a
  failure between INCR and EXPIRE leaves a counter that never ends (`CounterExpires`);
* cache: `Unnoticed` lists what is never deleted: pages of the restaurant list are stored under other
  names than the ones deleted, and nothing follows a change of payment methods, tags, owner or time of
  day; a reader that was overtaken by a change stores a view that lacks it (`overtook`), until it expires;
* storefront: an administrator's closing loses to an owner's request that was under way (`StaysClosed`);
  overlapping replacements of hours or options leave both lists (`ListsSound`); items filed while
  their category is removed lose it (`MenuSound`); zones stay where they are when the restaurant moves
  (`ZonesSound`); an overnight interval that its next day does not repeat is not carried into it, and an hour written
  24 is misread by hours that begin or end at midnight (`OpenAsAdvertised`);
* addresses: overlapping changes leave two defaults or none (`OneDefault`), and two moves that each
  change half of the place leave a neighborhood outside its city (`PlaceConsistent`), to which orders
  are delivered (`DeliveredInTown`).

## Proofs

All theorems hold for any sets of requests, processes, users, sessions, coupons, orders, addresses,
rows and bills, any prices, limits and numbers of failures, that satisfy the named assumptions. The
assumptions say, for each module:

| Assumption | Says | Why |
|---|---|---|
| `ConstantsAssumption`, `CouponsAssumption`, `PhoneAssumption`, `RecoveryAssumption` | null ids are no ids, managers are actors, targets statuses, owners users; limits are positive; where the number of requests bounds something, it is finite | types of the schema; constants of the services |
| `AddressesAssumption`, `BillingAssumption`, `CheckoutAssumption`, `RestaurantsAssumption`, `MenuAssumption`, `ZonesAssumption`, `StorefrontAssumption` | the names under which requests contend are no ids and `Null` is no user and no value of a column; addresses and bills are finitely many; amounts and times are naturals | types of the schema, `Int` and `Decimal` amounts that the DTOs keep at `@Min(0)` |
| `OrderDraftAssumption` | what is on offer passes `IsOffer`, a cart `IsCart`, options `AreGroups` | the validators of the DTOs (`@Min(0)` prices and fees, `@Min(1)` quantities) and `validateOptions`, which every item passed when it was saved |
| `RedisAssumption`, `SessionsAssumption` | limits are positive, requests in flight are finitely many, `Null` is no user and no number | constants of `auth-protection.service.ts` |
| `WeeksAssumption` | a week is a set of intervals | rows of `OpeningHour` |
| `CacheAssumption` | `Null`, the change of a request that makes none, is no change | names of service methods |

They are proved in eight modules:

* `OrderUpdatesProofs`: type correctness; `Grounded` is inductive together with the types, and
  gives `NoSkippedStage` from two lemmas about the graph (who precedes whom) and the refinement of
  `OrderLifecycle`. `AuditTrail` needs `TrailInv`: history is never empty for a placed order, which
  only `CreateOrder` can start. `FlowUnlessOverlapped` needs that a request alone in its order still
  sees the status it read (`UndisturbedHolds`), and so does `HistorySound`, whose chain starts each
  entry at the last one's end.
* `OrderProofs`, about `OrderNotifications` and `OrderCoupons`: type correctness; every step of either is
  a step of `OrderUpdates` or changes nothing of it, so that module's theorems carry over.
  - Notifications: `CustomerIsTold` needs that a request past its read of the order has either told the
    present status, or another request that committed later is still to do so. `LastShownIsCurrent`
    needs `ShownInv`: unless something was lost or overlapped, phone and panel show the status, or the
    one request at work is still to push and to publish it.
  - Coupons: `PromoUses` follows from a checkout comparing `usedCount` with what it read;
    `ReferralLinks` from one conjunction of the links between usages, rewards, couponed orders and the
    cancel hooks under way. `ReferralFirstUnlessRushed` needs `FirstInv`: a user in no rush has one
    cart in flight, and had no order when it was drafted. The action property `SpentRewardSurvives` needs
    `SpentInv`: a cancel hook that has read a reward as free, which is spent since, is on record in
    `raced`. `ReferralSettled` needs `SettledInv`: the referral of an undisturbed order agrees with its
    status, or it agrees with the status that the one request whose hook is still to run had read.
* `PasswordRecoveryProofs`: type correctness; `TriesBounded` and `ConsumedStaysConsumed` are inductive
  because they count the requests that are still to act (`Counting`, `Hashing`) together with those
  that have, which turns a check made too early into a bound; `DeletedStaysErased` needs that a
  deleted account has no session left (`Shut`), so that every statement by id fails.
  `RecoveryUndisturbed` needs that a request alone with its session acts on a row that is as it was
  read: no limit reached, no token used (`AloneInv`); and that among starts that do not overlap only the
  newest session is ever locked, and none when a code is about to be sent (`CoolInv`).
* `PhoneVerificationProofs`: type correctness, with what each request has in hand (`SessionsOK`: owner
  and phone of a session never change, so a confirmation goes to the user and the phone it read);
  `VerifiedWasConfirmed` is inductive with `RightCodes` (the session of a confirmation past
  the comparison of codes is in `entered`) and `UsersConfirmed`. `PhoneUniqueUnlessContended` needs `HoldInv`: of a phone that was
  never contended one request at a time has hold, and what it found when it looked for other users
  is still so when it commits. `DeletedHoldsNoPhone` is `ErasedInv`: without a session every
  statement that could bring the phone back fails.
* `LoginSessionsProofs`. `Basics` says what call each step of a handler has made and which keys a
  late command can touch. Then one invariant for each promise:
  - `AdmittedWithinLimit` needs `AdmitInv`: the requests a counter has let pass *and* those about to
    be let pass are together no more than its count, and within the limit. The second part is the
    cardinality of a finite set of requests; each INCR moves it by one.
  - `CounterExpires` and `BlockStands` are `CalmInv`: until something fails no command is late, and
    who has seen the threshold has the block in hand.
  - For the sessions every step but a call to Redis is reduced to a relation (`Rest`: which requests
    come, go on or stay, what becomes of a key, which tokens are handed out), so that each further
    invariant is proved for two kinds of step and not for each action. `EndedGivesNothing` needs
    `SignInv` (a session that is being signed in is nobody's yet), `RevokedInv` (a closed session is
    not in Redis, no command on its way stores it, and a refresh of it has found nothing) and
    `LateInv` (a request of a deleted account reaches no step that grants anything). `TokenSpentOnce`
    needs the clock (`ClockInv`: an exchanged token is of an earlier second) and `SpentInv`: as long as
    one refresh at a time has the session, the tokens exchanged are neither the one stored nor one
    accepted, and the next is later than all of them.
* `PublicCacheProofs`: `CacheInv` says that views, stored or on their way, are whole, that a table holds only
  changes that write it, and that what a stored view lacks is on record. When a view is stored, what it
  lacks then and nobody is about to delete it for is recorded in `overtook`. The step that matters is a commit: what it makes every stored
  view lack, its request will delete it for; `DeletedOrUnnoticed` says that the keys and the queries of
  the code leave no other case than those listed in `Unnoticed`. A deletion then removes the view or is
  known to have failed (`unswept`); a late command is executed like any other.
* `StorefrontProofs`: one invariant (`StoreInv`) with a part for each service, since each has columns of
  its own. The argument is the same in all: a request that nothing has overlapped finds at its commit
  what it had read (`StatusInv`, `CounterInv`, `ListInv`, `MenuInv`, `ZoneInv`); a commit overlaps every
  other request about its thing. That a step of one service leaves the parts of the others alone is
  proved once per part from what a step of it may touch (`StatusStep`, `CounterStep`, ...).
  `OpenAsAdvertised` is about a function of the week alone, whatever weeks there are.
* `CheckoutProofs`: `AddressInv`, `DraftInv` and `BillingInv`, each kept by its own requests and untouched
  by those of the others. `PlaceConsistent` needs that a move nothing has overlapped still fits the row
  it is about to change; `DeletedHasNoAddress`, that once the account is gone only overlapped requests
  are left; `OneDefault`, that what a request has read of the list, its heir included, still holds.
  `OrderSound` needs that what each query returned was in an offer since the order was begun (`seen`).
  `TotalsAddUp` and `CycleIsSumOfItems` are arithmetic over sums of any number of lines: the library's
  folds give a sum by choice of an element, and the lemmas that it does not depend on the choice, splits
  at any element and is monotone are proved by well-founded induction over the subsets of a finite set,
  stated as a minimal counterexample, since a principle with an operator parameter cannot be
  instantiated here.

Attempts at these proofs corrected the models where they were wrong or said less than the code:

* `TokenSpentOnce` was false of the code as it was stated, in behaviours outside the scene of the run:
  the store of a *sign-in* that timed out may arrive after the session was rotated, and makes the
  exchanged token good again. The property now excuses any late command that stores the session.
* Edits of items that are not there had no guard; and nothing said that `Null`, which stands for a
  missing row, is no row.
* Three case distinctions had overlapping cases (the result of a store call, the view a change
  overtakes, the commit of a transaction), which TLC resolves by order and logic does not.

Model-checked only: `ReferralConfirmed`, which is liveness under fairness and out of the prover's reach.

## Not modelled

Logging, uploads, controllers, token signing and bootstrap have no state whose order of change matters.
Order queries, coupon listings and referral codes only read, or create a row once. Realtime tokens are
signed, not kept. Of locations the cache is modelled, and not the rows, which are created once and never
change.

Within the modelled parts: names, descriptions, pictures and phone numbers of restaurants and
categories are left out, and so is paging; a quote is the reading half of an order; the date windows
and minimum amounts of coupons restrict which drafts succeed and nothing else; no service writes a
payment of a cycle, so its amount paid stays zero; the draft does not look at the status of a category,
so neither does the model; the text of messages, notes and who changed a status are left out; the
owner's push for a new order carries no status; a code collision while a reward is created rolls the
hook back like any other failure. Coupons and drafts are modelled apart (`OrderCoupons` with any valid
coupon, `OrderDraft` with any discount): they meet in the transaction of `create`, which either commits
both or neither.

## Plan

Every safety property that a run checks is proved. What is left is to widen the models: one model of `create`
with coupon and draft together, so that the amounts of an order and the use of its coupon are one
commit, with the inclusions in `OrderCoupons` and `OrderDraft` as theorems.
