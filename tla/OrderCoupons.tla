----------------------------- MODULE OrderCoupons -----------------------------
(***************************************************************************)
(* Coupons and the orders they are spent on: OrdersService.create with     *)
(* CouponsService.resolveCouponForOrder and registerCouponUsage, the       *)
(* administrator's changes to promotional coupons, and the coupon step     *)
(* (handleOrderStatusChange) that follows a committed status change.       *)
(*                                                                         *)
(* A POST /orders takes three steps here.  The draft validates the coupon  *)
(* outside any transaction; the transaction inserts the order and reads    *)
(* the promotional coupon; the rest, up to the commit, is one step, since  *)
(* every row it writes stays locked until the commit and every condition   *)
(* it writes under is evaluated again once the lock is held.  Orders that  *)
(* fail leave nothing behind.                                              *)
(*                                                                         *)
(* A reward belongs to one referral usage and a usage to one order (unique *)
(* constraints), so both are indexed by the order the referral was used    *)
(* on.  Left out: restaurant switches, date windows, minimum amounts and   *)
(* the amounts themselves, which only restrict which drafts succeed.       *)
(***************************************************************************)
EXTENDS OrderUpdates, FiniteSets

CONSTANTS
  Users,           \* customers
  ReferralOwners,  \* the users whose referral code is known to others
  Coupons,         \* promotional coupon ids
  Carts,           \* slots for POST /orders requests being served at once
  NoUser,          \* "no user id"
  MaxUsesLimit,    \* bound on maxUses, for the model checker
  FirstOrderOnly,  \* REFERRAL_ONLY_FIRST_ORDER
  RewardEnabled    \* REFERRAL_REWARD_ENABLED

ASSUME CouponsAssumption ==
  /\ ReferralOwners \subseteq Users
  /\ NoUser \notin Users
  /\ MaxUsesLimit \in Nat \ {0}
  /\ FirstOrderOnly \in BOOLEAN
  /\ RewardEnabled \in BOOLEAN

VARIABLES
  buyer,     \* Order.userId
  couponOf,  \* the coupon columns of the order row
  promo,     \* the PromotionalCoupon rows
  redeemed,  \* per coupon: the orders of its PromotionalCouponUsage rows
  usage,     \* the status of the ReferralUsage row of each order
  reward,    \* the ReferralReward row granted for each order's usage
  cart,      \* the POST /orders request in each slot
  cancel,    \* per status request: what its cancel hook read of the reward
  \* Ghosts.
  peak,      \* the highest maxUses each coupon has had
  first,     \* orders that were their buyer's first when they committed
  rushed,    \* users who had two POST /orders in flight at once
  dropped,   \* orders one of whose coupon hooks failed
  raced      \* orders whose reward was spent after a cancel hook had read it as available

couponVars ==
  <<buyer, couponOf, promo, redeemed, usage, reward, cart, cancel,
    peak, first, rushed, dropped, raced>>
vars == <<updateVars, couponVars>>

NoCoupon == [type |-> "NONE", ref |-> NoOrder]
Promotional(c) == [type |-> "PROMOTIONAL", ref |-> c]
Referral(u) == [type |-> "REFERRAL", ref |-> u]
Reward(o) == [type |-> "REFERRAL_REWARD", ref |-> o]
Coupon ==
  {NoCoupon} \union {Promotional(c) : c \in Coupons}
    \union {Referral(u) : u \in ReferralOwners} \union {Reward(o) : o \in Orders \union {NoOrder}}

NoReward == [status |-> "none", usedBy |-> NoOrder]
Available == [status |-> "AVAILABLE", usedBy |-> NoOrder]
UsedBy(o) == [status |-> "USED", usedBy |-> o]
EmptyCart == [pc |-> "idle", user |-> NoUser, coupon |-> NoCoupon, seen |-> 0]
Uncreated == [active |-> FALSE, used |-> 0, max |-> 0]

CouponsTypeOK ==
  /\ UpdatesTypeOK
  /\ buyer \in [Orders -> Users \union {NoUser}]
  /\ couponOf \in [Orders -> Coupon]
  /\ promo \in [Coupons -> [active : BOOLEAN, used : Nat, max : Nat]]
  /\ redeemed \in [Coupons -> SUBSET Orders]
  /\ usage \in [Orders -> {"none", "PENDING_CONFIRMATION", "CONFIRMED"}]
  /\ reward \in [Orders -> {NoReward, Available} \union {UsedBy(o) : o \in Orders}]
  /\ cart \in [Carts -> {EmptyCart} \union
                 [pc : {"draft", "tx"}, user : Users, coupon : Coupon, seen : Nat]]
  /\ cancel \in [Updates -> {"unread", "none", "AVAILABLE"}]
  /\ peak \in [Coupons -> Nat]
  /\ first \subseteq Orders
  /\ rushed \subseteq Users
  /\ dropped \subseteq Orders
  /\ raced \subseteq Orders

Init ==
  /\ UpdatesInit
  /\ buyer = [o \in Orders |-> NoUser]
  /\ couponOf = [o \in Orders |-> NoCoupon]
  /\ promo = [c \in Coupons |-> Uncreated]
  /\ redeemed = [c \in Coupons |-> {}]
  /\ usage = [o \in Orders |-> "none"]
  /\ reward = [o \in Orders |-> NoReward]
  /\ cart = [k \in Carts |-> EmptyCart]
  /\ cancel = [r \in Updates |-> "unread"]
  /\ peak = [c \in Coupons |-> 0]
  /\ first = {}
  /\ rushed = {}
  /\ dropped = {}
  /\ raced = {}

OrdersOf(u) == {o \in Orders : buyer[o] = u}
RewardOwner(o) == couponOf[o].ref

-----------------------------------------------------------------------------
(* Promotional coupons: the administrator.                                 *)

\* createPromotionalCoupon.
CreatePromotionalCoupon(c, active, max) ==
  /\ promo[c] = Uncreated
  /\ promo' = [promo EXCEPT ![c] = [active |-> active, used |-> 0, max |-> max]]
  /\ peak' = [peak EXCEPT ![c] = max]
  /\ UNCHANGED <<updateVars, buyer, couponOf, redeemed, usage, reward, cart, cancel,
                 first, rushed, dropped, raced>>

\* A slip: the form's fields replace the row, its counter included.
UpdatePromotionalCoupon_ResetsCount(c, active, max) ==
  /\ promo[c] # Uncreated
  /\ promo' = [promo EXCEPT ![c] = [active |-> active, used |-> 0, max |-> max]]
  /\ peak' = [peak EXCEPT ![c] = IF max > @ THEN max ELSE @]
  /\ UNCHANGED <<updateVars, buyer, couponOf, redeemed, usage, reward, cart, cancel,
                 first, rushed, dropped, raced>>

\* updatePromotionalCoupon and deactivatePromotionalCoupon: every field is
\* optional, and maxUses is not compared with usedCount.
UpdatePromotionalCoupon(c, active, max) ==
  /\ promo[c] # Uncreated
  /\ promo' = [promo EXCEPT ![c].active = active, ![c].max = max]
  /\ peak' = [peak EXCEPT ![c] = IF max > @ THEN max ELSE @]
  /\ UNCHANGED <<updateVars, buyer, couponOf, redeemed, usage, reward, cart, cancel,
                 first, rushed, dropped, raced>>

-----------------------------------------------------------------------------
(* POST /orders.                                                           *)

\* The three branches of validateCouponCore, as what the code entered stands
\* for: an available reward of the user's own, a promotional coupon, or somebody
\* else's referral code.
RewardValid(u, o) == reward[o] = Available /\ RewardOwner(o) = u

PromoValid(c) == promo[c].active /\ promo[c].used < promo[c].max

\* A slip: the orders the user has already placed are not counted.
ReferralValid_AnyOrder(u, w) ==
  /\ w # u
  /\ \A o \in OrdersOf(u) : usage[o] = "none"

ReferralValid(u, w) ==
  /\ w # u
  /\ FirstOrderOnly => OrdersOf(u) = {}
  /\ \A o \in OrdersOf(u) : usage[o] = "none"

ValidCoupons(u) ==
  {NoCoupon} \union {Reward(o) : o \in {p \in Orders : RewardValid(u, p)}}
    \union {Promotional(c) : c \in {d \in Coupons : PromoValid(d)}}
    \union {Referral(w) : w \in {x \in ReferralOwners : ReferralValid(u, x)}}

\* buildOrderDraft, of which only the coupon matters here.
Draft(k, u, coupon) ==
  /\ cart[k] = EmptyCart
  /\ coupon \in ValidCoupons(u)
  /\ cart' = [cart EXCEPT ![k] = [pc |-> "draft", user |-> u, coupon |-> coupon, seen |-> 0]]
  /\ rushed' = IF \E j \in Carts : cart[j].user = u THEN rushed \union {u} ELSE rushed
  /\ UNCHANGED <<updateVars, buyer, couponOf, promo, redeemed, usage, reward, cancel,
                 peak, first, dropped, raced>>

\* The transaction opens; registerCouponUsage reads the promotional coupon.
TxRead(k) ==
  LET c == cart[k].coupon
  IN  /\ cart[k].pc = "draft"
      /\ c.type = "PROMOTIONAL" => PromoValid(c.ref)
      /\ cart' = [cart EXCEPT ![k].pc = "tx",
                              ![k].seen = IF c.type = "PROMOTIONAL" THEN promo[c.ref].used ELSE 0]
      /\ UNCHANGED <<updateVars, buyer, couponOf, promo, redeemed, usage, reward, cancel,
                     peak, first, rushed, dropped, raced>>

\* A slip: the counter is incremented without comparing it with what was read.
RedeemPromotional_NoCompare(k, o) ==
  LET c == cart[k].coupon
  IN  IF c.type # "PROMOTIONAL" THEN UNCHANGED <<promo, redeemed>>
      ELSE /\ promo' = [promo EXCEPT ![c.ref].used = @ + 1]
           /\ redeemed' = [redeemed EXCEPT ![c.ref] = @ \union {o}]

\* The counter goes up only if it is still the one read; the usage row is added.
RedeemPromotional(k, o) ==
  LET c == cart[k].coupon
  IN  IF c.type # "PROMOTIONAL" THEN UNCHANGED <<promo, redeemed>>
      ELSE /\ promo[c.ref].used = cart[k].seen
           /\ promo' = [promo EXCEPT ![c.ref].used = @ + 1]
           /\ redeemed' = [redeemed EXCEPT ![c.ref] = @ \union {o}]

\* A slip: nothing keeps a second usage by the same user out.
UseReferral_Twice(k, o) ==
  IF cart[k].coupon.type # "REFERRAL" THEN UNCHANGED usage
  ELSE usage' = [usage EXCEPT ![o] = "PENDING_CONFIRMATION"]

\* A ReferralUsage row is added; referredUserId is unique.
UseReferral(k, o) ==
  IF cart[k].coupon.type # "REFERRAL" THEN UNCHANGED usage
  ELSE /\ \A p \in OrdersOf(cart[k].user) : usage[p] = "none"
       /\ usage' = [usage EXCEPT ![o] = "PENDING_CONFIRMATION"]

\* A slip: the reward is linked to the order but stays available.
SpendReward_StaysAvailable(k, o) ==
  LET c == cart[k].coupon
  IN  IF c.type # "REFERRAL_REWARD" THEN UNCHANGED reward
      ELSE /\ RewardValid(cart[k].user, c.ref)
           /\ reward' = [reward EXCEPT ![c.ref].usedBy = o]

\* The reward is marked used if it is still available and the user's.  (The
\* order row's unique referralRewardId forbids no more than this does.)
SpendReward(k, o) ==
  LET c == cart[k].coupon
  IN  IF c.type # "REFERRAL_REWARD" THEN UNCHANGED reward
      ELSE /\ RewardValid(cart[k].user, c.ref)
           /\ reward' = [reward EXCEPT ![c.ref] = UsedBy(o)]

\* The transaction commits: the order with its coupon columns, and what
\* registerCouponUsage wrote.
TxCommit(k, o) ==
  /\ cart[k].pc = "tx"
  /\ CreateOrder(o)
  /\ buyer' = [buyer EXCEPT ![o] = cart[k].user]
  /\ couponOf' = [couponOf EXCEPT ![o] = cart[k].coupon]
  /\ RedeemPromotional(k, o)
  /\ UseReferral(k, o)
  /\ SpendReward(k, o)
  /\ first' = IF OrdersOf(cart[k].user) = {} THEN first \union {o} ELSE first
  /\ cart' = [cart EXCEPT ![k] = EmptyCart]
  /\ raced' = raced \union {p \in Orders : /\ cart[k].coupon = Reward(p)
                                          /\ \E r \in Updates : up[r].order = p /\ cancel[r] = "AVAILABLE"}
  /\ UNCHANGED <<cancel, peak, rushed, dropped>>

\* The request fails: a condition no longer holds, the database refuses the
\* rows, the transaction times out or the process dies.
FailCreate(k) ==
  /\ cart[k] # EmptyCart
  /\ cart' = [cart EXCEPT ![k] = EmptyCart]
  /\ UNCHANGED <<updateVars, buyer, couponOf, promo, redeemed, usage, reward, cancel,
                 peak, first, rushed, dropped, raced>>

-----------------------------------------------------------------------------
(* PATCH /orders/:id/status, and the coupon hook after its commit.         *)

Read(r) == Start(r) /\ UNCHANGED couponVars
Commit(r) == CommitUpdate(r) /\ UNCHANGED couponVars
Abort(r) == AbortUpdate(r) /\ UNCHANGED couponVars

\* A slip: the usage is confirmed in one step, the reward left to another.
AcceptHook_NoReward(r) ==
  LET o == up[r].order
  IN  /\ EndUpdate(r)
      /\ up[r].to = "ACCEPTED"
      /\ usage' = IF usage[o] = "none" THEN usage ELSE [usage EXCEPT ![o] = "CONFIRMED"]
      /\ UNCHANGED <<buyer, couponOf, promo, redeemed, reward, cart, cancel,
                     peak, first, rushed, dropped, raced>>

\* A slip: the reward is granted without confirming the usage.
AcceptHook_Unconfirmed(r) ==
  LET o == up[r].order
      grants == usage[o] = "PENDING_CONFIRMATION"
  IN  /\ EndUpdate(r)
      /\ up[r].to = "ACCEPTED"
      /\ reward' = IF grants /\ RewardEnabled THEN [reward EXCEPT ![o] = Available] ELSE reward
      /\ UNCHANGED <<buyer, couponOf, promo, redeemed, usage, cart, cancel,
                     peak, first, rushed, dropped, raced>>

\* ACCEPTED: a pending usage is confirmed and its reward granted, in one
\* transaction that fails when the usage is gone or rewarded by then.
AcceptHook(r) ==
  LET o == up[r].order
      grants == usage[o] = "PENDING_CONFIRMATION"
  IN  /\ EndUpdate(r)
      /\ up[r].to = "ACCEPTED"
      /\ usage' = IF grants THEN [usage EXCEPT ![o] = "CONFIRMED"] ELSE usage
      /\ reward' = IF grants /\ RewardEnabled THEN [reward EXCEPT ![o] = Available] ELSE reward
      /\ UNCHANGED <<buyer, couponOf, promo, redeemed, cart, cancel,
                     peak, first, rushed, dropped, raced>>

\* A slip: a spent reward is not left alone.
CancelRead_IgnoresUsed(r) ==
  LET o == up[r].order
  IN  /\ up[r].pc = "hook" /\ up[r].to = "CANCELED" /\ cancel[r] = "unread"
      /\ usage[o] # "none"
      /\ cancel' = [cancel EXCEPT ![r] = IF reward[o] = NoReward THEN "none" ELSE "AVAILABLE"]
      /\ UNCHANGED <<updateVars, buyer, couponOf, promo, redeemed, usage, reward, cart,
                     peak, first, rushed, dropped, raced>>

\* CANCELED: the hook reads the usage with its reward ...
CancelRead(r) ==
  LET o == up[r].order
  IN  /\ up[r].pc = "hook" /\ up[r].to = "CANCELED" /\ cancel[r] = "unread"
      /\ usage[o] # "none"
      /\ reward[o].status # "USED"
      /\ cancel' = [cancel EXCEPT ![r] = reward[o].status]
      /\ UNCHANGED <<updateVars, buyer, couponOf, promo, redeemed, usage, reward, cart,
                     peak, first, rushed, dropped, raced>>

\* ... and returns when there is no usage, or its reward has been spent.
CancelNothing(r) ==
  LET o == up[r].order
  IN  /\ up[r].to = "CANCELED" /\ cancel[r] = "unread"
      /\ usage[o] = "none" \/ reward[o].status = "USED"
      /\ EndUpdate(r)
      /\ UNCHANGED couponVars

\* The deletes name their rows by id: the reward read, whatever its status is
\* by now, and the usage, which a reward the hook did not see keeps in place.
\* A row that is gone makes the transaction fail.
CanDelete(r) ==
  LET o == up[r].order
  IN  /\ usage[o] # "none"
      /\ cancel[r] = "AVAILABLE" <=> reward[o] # NoReward

\* A slip: the order that spent the reward keeps pointing at it.
CancelDelete_KeepsLink(r) ==
  LET o == up[r].order
  IN  /\ cancel[r] # "unread"
      /\ CanDelete(r)
      /\ EndUpdate(r)
      /\ reward' = [reward EXCEPT ![o] = NoReward]
      /\ usage' = [usage EXCEPT ![o] = "none"]
      /\ cancel' = [cancel EXCEPT ![r] = "unread"]
      /\ UNCHANGED <<buyer, couponOf, promo, redeemed, cart, peak, first, rushed, dropped, raced>>

\* The foreign key of an order that spent the reward is set to null.
CancelDelete(r) ==
  LET o == up[r].order
  IN  /\ cancel[r] # "unread"
      /\ CanDelete(r)
      /\ EndUpdate(r)
      /\ reward' = [reward EXCEPT ![o] = NoReward]
      /\ usage' = [usage EXCEPT ![o] = "none"]
      /\ couponOf' = [p \in Orders |-> IF couponOf[p] = Reward(o) THEN Reward(NoOrder)
                                       ELSE couponOf[p]]
      /\ cancel' = [cancel EXCEPT ![r] = "unread"]
      /\ UNCHANGED <<buyer, promo, redeemed, cart, peak, first, rushed, dropped, raced>>

CancelRollsBack(r) ==
  /\ cancel[r] # "unread"
  /\ ~CanDelete(r)
  /\ EndUpdate(r)
  /\ cancel' = [cancel EXCEPT ![r] = "unread"]
  /\ UNCHANGED <<buyer, couponOf, promo, redeemed, usage, reward, cart,
                 peak, first, rushed, dropped, raced>>

\* No other status concerns coupons.
OtherHook(r) ==
  /\ up[r].to \notin {"ACCEPTED", "CANCELED"}
  /\ EndUpdate(r)
  /\ UNCHANGED couponVars

\* The hook's transaction fails (the error is only logged) or the process dies.
HookFails(r) ==
  /\ EndUpdate(r)
  /\ cancel' = [cancel EXCEPT ![r] = "unread"]
  /\ dropped' = dropped \union {up[r].order}
  /\ UNCHANGED <<buyer, couponOf, promo, redeemed, usage, reward, cart, peak, first, rushed, raced>>

Hook(r) ==
  \/ AcceptHook(r) \/ CancelRead(r) \/ CancelNothing(r) \/ CancelDelete(r)
  \/ CancelRollsBack(r) \/ OtherHook(r)

Next ==
  \/ \E c \in Coupons, active \in BOOLEAN, max \in 1..MaxUsesLimit :
       CreatePromotionalCoupon(c, active, max) \/ UpdatePromotionalCoupon(c, active, max)
  \/ \E k \in Carts :
       \/ \E u \in Users : \E coupon \in ValidCoupons(u) : Draft(k, u, coupon)
       \/ TxRead(k)
       \/ \E o \in Orders : TxCommit(k, o)
       \/ FailCreate(k)
  \/ \E r \in Updates : Read(r) \/ Commit(r) \/ Abort(r) \/ Hook(r) \/ HookFails(r)

Spec == Init /\ [][Next]_vars

\* A committed status change runs its hook to the end unless that fails; nobody
\* has to place, accept or cancel anything.
FairSpec == Spec /\ \A r \in Updates : WF_vars(Hook(r))

-----------------------------------------------------------------------------
(* Properties.                                                             *)

\* However checkouts race with each other and with the administrator, the
\* counter of a promotional coupon is the number of orders that used it: no
\* update is lost and no failed order is counted.
PromoCountsOrders ==
  \A c \in Coupons :
    /\ redeemed[c] = {o \in Orders : couponOf[o] = Promotional(c)}
    /\ promo[c].used = Cardinality(redeemed[c])

\* A promotional coupon is never used more often than the highest limit it has
\* had.  (Not than its present limit: an administrator may lower that at any
\* time, between the check and the update of a checkout included.)
PromoWithinLimit == \A c \in Coupons : promo[c].used <= peak[c]

\* A user has one referral usage at a time, even when two of the user's
\* checkouts validated the code before either committed.
OneReferralPerUser ==
  \A u \in Users : \A p, q \in OrdersOf(u) : usage[p] # "none" /\ usage[q] # "none" => p = q

\* A reward exists only for a confirmed referral on an order that was accepted.
RewardBacked ==
  \A o \in Orders : reward[o] # NoReward =>
    /\ usage[o] = "CONFIRMED"
    /\ "ACCEPTED" \in stamped[o]
    /\ couponOf[o].type = "REFERRAL"
    /\ RewardEnabled

\* The reward row and the order that spent it point at each other, the spender
\* is the reward's owner, and no second order spends it.
RewardSpentOnce ==
  \A o, p \in Orders :
    /\ reward[o] = UsedBy(p) => couponOf[p] = Reward(o) /\ buyer[p] = RewardOwner(o)
    /\ couponOf[p] = Reward(o) => reward[o] = UsedBy(p)

\* Uses of promotional coupons are counted, and bounded.
PromoUses == PromoCountsOrders /\ PromoWithinLimit

\* Referrals, their rewards and the orders that spend those are linked one to one.
ReferralLinks == OneReferralPerUser /\ RewardBacked /\ RewardSpentOnce

\* Once the requests of a referred order have ended, and unless they overlapped
\* or a hook failed, its referral is settled: confirmed and rewarded after an
\* acceptance; after a cancellation gone, or else its reward already spent.
ReferralSettled ==
  \A o \in Orders \ (overlapped \union dropped) :
    couponOf[o].type = "REFERRAL" /\ Quiet(o) =>
      CASE status[o] = "PENDING"  -> usage[o] = "PENDING_CONFIRMATION"
        [] status[o] = "CANCELED" -> usage[o] = "none" \/ reward[o].status = "USED"
        [] OTHER                  -> /\ usage[o] = "CONFIRMED"
                                     /\ RewardEnabled => reward[o] # NoReward

\* Where referrals are for first orders only, a referral is on its user's first
\* order unless two of the user's checkouts were in flight together.
ReferralFirstUnlessRushed ==
  FirstOrderOnly =>
    \A o \in Orders : couponOf[o].type = "REFERRAL" => o \in first \/ buyer[o] \in rushed

\* A reward that has been spent is never deleted under the order that spent it,
\* unless it was spent between the two halves of a cancel hook.
SpentRewardSurvives ==
  [][\A o \in Orders :
       reward[o].status = "USED" /\ reward'[o] # reward[o] => o \in raced]_vars

\* Given that committed requests run their hooks, an accepted referral is
\* eventually confirmed, unless the order is canceled, its requests overlapped or
\* a hook failed (nothing retries it).
ReferralConfirmed ==
  \A o \in Orders :
    couponOf[o].type = "REFERRAL" /\ "ACCEPTED" \in stamped[o]
      ~> \/ usage[o] = "CONFIRMED"
         \/ status[o] = "CANCELED"
         \/ o \in overlapped \union dropped

=============================================================================
