----------------------------- MODULE OrderProofs -----------------------------
(***************************************************************************)
(* Proofs about what follows the placing of an order and a change of its   *)
(* status, coupons (OrderCoupons) and notifications (OrderNotifications),  *)
(* for any number of users, orders, coupons and concurrent requests.  Each *)
(* takes the steps of OrderUpdates and adds state of its own to them.      *)
(***************************************************************************)
EXTENDS OrderCoupons, OrderNotifications, OrderUpdatesProofs, FiniteSetTheorems

-----------------------------------------------------------------------------
(* The order requests of OrderCoupons are those of OrderUpdates.           *)

\* Checkouts, hooks and the administrator move orders only by the steps of
\* OrderUpdates, so everything proved of OrderUpdates holds here.
THEOREM CouponsRefineUpdates == Spec => UpdatesSpec
<1>1. Init => UpdatesInit
  BY DEF Init
<1>2. [Next]_vars => [UpdatesNext]_updateVars
  <2> SUFFICES ASSUME [Next]_vars PROVE UpdatesNext \/ UNCHANGED updateVars
    OBVIOUS
  <2>1. ASSUME NEW c \in Coupons, NEW active \in BOOLEAN, NEW max \in 1..MaxUsesLimit,
               CreatePromotionalCoupon(c, active, max) \/ UpdatePromotionalCoupon(c, active, max)
        PROVE  UNCHANGED updateVars
    BY <2>1 DEF CreatePromotionalCoupon, UpdatePromotionalCoupon
  <2>2. ASSUME NEW k \in Carts,
               \/ \E u \in Users : \E coupon \in ValidCoupons(u) : Draft(k, u, coupon)
               \/ TxRead(k) \/ FailCreate(k)
        PROVE  UNCHANGED updateVars
    BY <2>2 DEF Draft, TxRead, FailCreate
  <2>3. ASSUME NEW k \in Carts, NEW o \in Orders, TxCommit(k, o) PROVE UpdatesNext
    BY <2>3 DEF TxCommit, UpdatesNext
  <2>4. ASSUME NEW r \in Updates, Read(r) \/ Commit(r) \/ Abort(r) PROVE UpdatesNext
    BY <2>4 DEF Read, Commit, Abort, UpdatesNext
  <2>5. ASSUME NEW r \in Updates, Hook(r) \/ HookFails(r)
        PROVE  UpdatesNext \/ UNCHANGED updateVars
    <3>1. EndUpdate(r) \/ UNCHANGED updateVars
      BY <2>5 DEF Hook, HookFails, AcceptHook, CancelRead, CancelNothing, CancelDelete,
                  CancelRollsBack, OtherHook
    <3> QED
      BY <3>1 DEF UpdatesNext
  <2>6. CASE UNCHANGED vars
    BY <2>6 DEF vars
  <2> QED
    BY <2>1, <2>2, <2>3, <2>4, <2>5, <2>6 DEF Next
<1> QED
  BY <1>1, <1>2, PTL DEF Spec, UpdatesSpec

-----------------------------------------------------------------------------
(* Type correctness of coupons.                                            *)

\* The coupons a draft accepts are coupons.
LEMMA ValidCouponsAreCoupons == \A u \in Users : ValidCoupons(u) \subseteq Coupon
BY DEF ValidCoupons, Coupon

\* A coupon's type says what it refers to.
LEMMA CouponKinds ==
  ASSUME NEW x \in Coupon
  PROVE  /\ x.type = "PROMOTIONAL" => x.ref \in Coupons /\ x = Promotional(x.ref)
         /\ x.type = "REFERRAL" => x.ref \in ReferralOwners /\ x = Referral(x.ref)
         /\ x.type = "REFERRAL_REWARD" => x.ref \in Orders \union {NoOrder} /\ x = Reward(x.ref)
BY DEF Coupon, NoCoupon, Promotional, Referral, Reward

\* A checkout inside its transaction has a user and a coupon.
LEMMA CartIsTyped ==
  ASSUME CouponsTypeOK, NEW k \in Carts, cart[k] # EmptyCart
  PROVE  cart[k] \in [pc : {"draft", "tx"}, user : Users, coupon : Coupon, seen : Nat]
BY DEF CouponsTypeOK

\* Every reachable state is well typed.
THEOREM CouponsTypeCorrect == Spec => []CouponsTypeOK
<1>1. Init /\ UpdatesTypeOK => CouponsTypeOK
  <2> SUFFICES ASSUME Init, UpdatesTypeOK PROVE CouponsTypeOK
    OBVIOUS
  <2>1. NoCoupon \in Coupon
    BY DEF Coupon
  <2>2. Uncreated \in [active : BOOLEAN, used : Nat, max : Nat]
    BY DEF Uncreated
  <2> QED
    BY <2>1, <2>2 DEF Init, CouponsTypeOK
<1>2. CouponsTypeOK /\ [Next]_vars /\ UpdatesTypeOK' => CouponsTypeOK'
  <2> SUFFICES ASSUME CouponsTypeOK, [Next]_vars, UpdatesTypeOK' PROVE CouponsTypeOK'
    OBVIOUS
  <2>0. MaxUsesLimit \in Nat
    BY CouponsAssumption
  <2>1. ASSUME NEW c \in Coupons, NEW active \in BOOLEAN, NEW max \in 1..MaxUsesLimit,
               CreatePromotionalCoupon(c, active, max) \/ UpdatePromotionalCoupon(c, active, max)
        PROVE  CouponsTypeOK'
    <3>1. max \in Nat
      BY <2>0
    <3>2. promo' \in [Coupons -> [active : BOOLEAN, used : Nat, max : Nat]]
      <4>1. PICK v \in [active : BOOLEAN, used : Nat, max : Nat] :
                   promo' = [promo EXCEPT ![c] = v]
        <5>1. CASE CreatePromotionalCoupon(c, active, max)
          BY <3>1, <5>1 DEF CreatePromotionalCoupon
        <5>2. CASE UpdatePromotionalCoupon(c, active, max)
          <6>0. promo[c] \in [active : BOOLEAN, used : Nat, max : Nat]
            BY DEF CouponsTypeOK
          <6>1. [promo[c] EXCEPT !.active = active, !.max = max]
                  \in [active : BOOLEAN, used : Nat, max : Nat]
            BY <3>1, <6>0
          <6> QED
            BY <5>2, <6>1 DEF UpdatePromotionalCoupon
        <5> QED
          BY <2>1, <5>1, <5>2
      <4> QED
        BY <4>1 DEF CouponsTypeOK
    <3>3. peak' \in [Coupons -> Nat]
      BY <2>1, <3>1 DEF CreatePromotionalCoupon, UpdatePromotionalCoupon, CouponsTypeOK
    <3> QED
      BY <2>1, <3>2, <3>3 DEF CreatePromotionalCoupon, UpdatePromotionalCoupon, CouponsTypeOK
  <2>2. ASSUME NEW k \in Carts, NEW u \in Users, NEW coupon \in ValidCoupons(u),
               Draft(k, u, coupon)
        PROVE  CouponsTypeOK'
    <3>1. coupon \in Coupon
      BY ValidCouponsAreCoupons
    <3> QED
      BY <2>2, <3>1 DEF Draft, CouponsTypeOK
  <2>3. ASSUME NEW k \in Carts, TxRead(k) PROVE CouponsTypeOK'
    <3>1. cart[k] \in [pc : {"draft", "tx"}, user : Users, coupon : Coupon, seen : Nat]
      BY <2>3, CartIsTyped DEF TxRead, EmptyCart
    <3>2. cart[k].coupon.type = "PROMOTIONAL" => promo[cart[k].coupon.ref].used \in Nat
      BY <3>1, CouponKinds DEF CouponsTypeOK
    <3>3. PICK n \in Nat : cart' = [cart EXCEPT ![k].pc = "tx", ![k].seen = n]
      BY <2>3, <3>2 DEF TxRead
    <3>4. cart' \in [Carts -> {EmptyCart} \union
                     [pc : {"draft", "tx"}, user : Users, coupon : Coupon, seen : Nat]]
      BY <3>1, <3>3 DEF CouponsTypeOK
    <3> QED
      BY <2>3, <3>4 DEF TxRead, CouponsTypeOK
  <2>4. ASSUME NEW k \in Carts, NEW o \in Orders, TxCommit(k, o) PROVE CouponsTypeOK'
    <3>1. cart[k] \in [pc : {"draft", "tx"}, user : Users, coupon : Coupon, seen : Nat]
      BY <2>4, CartIsTyped DEF TxCommit, EmptyCart
    <3>2. /\ promo' \in [Coupons -> [active : BOOLEAN, used : Nat, max : Nat]]
          /\ redeemed' \in [Coupons -> SUBSET Orders]
      <4>1. RedeemPromotional(k, o)
        BY <2>4 DEF TxCommit
      <4>2. /\ promo \in [Coupons -> [active : BOOLEAN, used : Nat, max : Nat]]
            /\ redeemed \in [Coupons -> SUBSET Orders]
        BY DEF CouponsTypeOK
      <4>3. CASE cart[k].coupon.type # "PROMOTIONAL"
        BY <4>1, <4>2, <4>3 DEF RedeemPromotional
      <4>4. CASE cart[k].coupon.type = "PROMOTIONAL"
        <5>1. PICK c \in Coupons : c = cart[k].coupon.ref
          BY <3>1, <4>4, CouponKinds
        <5>2. /\ promo' = [promo EXCEPT ![c].used = @ + 1]
              /\ redeemed' = [redeemed EXCEPT ![c] = @ \union {o}]
          BY <4>1, <4>4, <5>1 DEF RedeemPromotional
        <5>3. [promo[c] EXCEPT !.used = @ + 1] \in [active : BOOLEAN, used : Nat, max : Nat]
          BY <4>2
        <5>4. promo' \in [Coupons -> [active : BOOLEAN, used : Nat, max : Nat]]
          BY <4>2, <5>2, <5>3
        <5>5. redeemed' \in [Coupons -> SUBSET Orders]
          BY <4>2, <5>2
        <5> QED
          BY <5>4, <5>5
      <4> QED
        BY <4>3, <4>4
    <3>3. usage' \in [Orders -> {"none", "PENDING_CONFIRMATION", "CONFIRMED"}]
      BY <2>4 DEF TxCommit, UseReferral, CouponsTypeOK
    <3>4. reward' \in [Orders -> {NoReward, Available} \union {UsedBy(p) : p \in Orders}]
      BY <2>4 DEF TxCommit, SpendReward, CouponsTypeOK
    <3>5. /\ buyer' \in [Orders -> Users \union {NoUser}]
          /\ couponOf' \in [Orders -> Coupon]
          /\ cart' \in [Carts -> {EmptyCart} \union
                     [pc : {"draft", "tx"}, user : Users, coupon : Coupon, seen : Nat]]
      BY <2>4, <3>1 DEF TxCommit, CouponsTypeOK
    <3>6. first' \subseteq Orders /\ raced' \subseteq Orders
      BY <2>4 DEF TxCommit, CouponsTypeOK
    <3> QED
      BY <2>4, <3>2, <3>3, <3>4, <3>5, <3>6 DEF TxCommit, CouponsTypeOK
  <2>5. ASSUME NEW k \in Carts, FailCreate(k) PROVE CouponsTypeOK'
    BY <2>5 DEF FailCreate, CouponsTypeOK
  <2>6. ASSUME NEW r \in Updates, Read(r) \/ Commit(r) \/ Abort(r) PROVE CouponsTypeOK'
    BY <2>6 DEF Read, Commit, Abort, couponVars, CouponsTypeOK
  <2>7. ASSUME NEW r \in Updates, Hook(r) PROVE CouponsTypeOK'
    <3>1. CASE AcceptHook(r)
      BY <3>1 DEF AcceptHook, CouponsTypeOK
    <3>2. CASE CancelRead(r)
      <4>1. up[r] \in Serving
        BY <3>2, ServingIsTyped DEF CancelRead, CouponsTypeOK
      <4>2. reward[up[r].order].status \in {"none", "AVAILABLE"}
        BY <3>2, <4>1 DEF CancelRead, CouponsTypeOK, Serving, NoReward, Available, UsedBy
      <4> QED
        BY <3>2, <4>2 DEF CancelRead, CouponsTypeOK
    <3>3. CASE CancelNothing(r) \/ OtherHook(r)
      BY <3>3 DEF CancelNothing, OtherHook, couponVars, CouponsTypeOK
    <3>4. CASE CancelDelete(r)
      <4>1. couponOf' \in [Orders -> Coupon]
        BY <3>4 DEF CancelDelete, CouponsTypeOK, Coupon
      <4> QED
        BY <3>4, <4>1 DEF CancelDelete, CouponsTypeOK
    <3>5. CASE CancelRollsBack(r)
      BY <3>5 DEF CancelRollsBack, CouponsTypeOK
    <3> QED
      BY <2>7, <3>1, <3>2, <3>3, <3>4, <3>5 DEF Hook
  <2>8. ASSUME NEW r \in Updates, HookFails(r) PROVE CouponsTypeOK'
    <3>1. up[r] \in Serving
      BY <2>8, ServingIsTyped DEF HookFails, EndUpdate, CouponsTypeOK
    <3> QED
      BY <2>8, <3>1 DEF HookFails, CouponsTypeOK, Serving
  <2>9. CASE UNCHANGED vars
    BY <2>9 DEF vars, couponVars, CouponsTypeOK
  <2> QED
    BY <2>1, <2>2, <2>3, <2>4, <2>5, <2>6, <2>7, <2>8, <2>9 DEF Next
<1>3. Spec => []UpdatesTypeOK
  BY CouponsRefineUpdates, UpdatesTypeCorrect, PTL
<1> QED
  BY <1>1, <1>2, <1>3, PTL DEF Spec

-----------------------------------------------------------------------------
(* Promotional coupons.                                                    *)

\* A coupon row that the administrator writes: the counter stays, the limit is
\* what the form says and is at least 1.
LEMMA AdminWrites ==
  ASSUME CouponsTypeOK, NEW c \in Coupons, NEW active \in BOOLEAN,
         NEW max \in 1..MaxUsesLimit,
         CreatePromotionalCoupon(c, active, max) \/ UpdatePromotionalCoupon(c, active, max)
  PROVE  /\ max \in Nat \ {0}
         /\ promo'[c].used = promo[c].used
         /\ promo'[c].max = max
         /\ \A d \in Coupons : d # c => promo'[d] = promo[d] /\ peak'[d] = peak[d]
         /\ UNCHANGED <<redeemed, couponOf, cart>>
         /\ \/ promo[c] = Uncreated /\ peak'[c] = max
            \/ peak'[c] = IF max > peak[c] THEN max ELSE peak[c]
<1>0. max \in Nat \ {0}
  BY CouponsAssumption
<1>1. CASE CreatePromotionalCoupon(c, active, max)
  BY <1>0, <1>1 DEF CreatePromotionalCoupon, CouponsTypeOK, Uncreated
<1>2. CASE UpdatePromotionalCoupon(c, active, max)
  <2>1. /\ promo'[c].used = promo[c].used
        /\ promo'[c].max = max
    BY <1>2 DEF UpdatePromotionalCoupon, CouponsTypeOK
  <2> QED
    BY <1>0, <1>2, <2>1 DEF UpdatePromotionalCoupon, CouponsTypeOK
<1> QED
  BY <1>1, <1>2

\* A checkout with a promotional coupon adds its order to the coupon's and one to
\* the counter it had read; any other checkout leaves them alone.
LEMMA CheckoutRedeems ==
  ASSUME CouponsTypeOK, NEW k \in Carts, NEW o \in Orders, TxCommit(k, o)
  PROVE  /\ cart[k] \in [pc : {"draft", "tx"}, user : Users, coupon : Coupon, seen : Nat]
         /\ peak' = peak
         /\ \A c \in Coupons : cart[k].coupon = Promotional(c) =>
              /\ promo[c].used = cart[k].seen
              /\ promo'[c].used = promo[c].used + 1
              /\ promo'[c].max = promo[c].max
              /\ redeemed'[c] = redeemed[c] \union {o}
         /\ \A c \in Coupons : cart[k].coupon # Promotional(c) =>
              promo'[c] = promo[c] /\ redeemed'[c] = redeemed[c]
<1>1. cart[k] \in [pc : {"draft", "tx"}, user : Users, coupon : Coupon, seen : Nat]
  BY CartIsTyped DEF TxCommit, EmptyCart
<1>2. CASE cart[k].coupon.type # "PROMOTIONAL"
  BY <1>1, <1>2 DEF TxCommit, RedeemPromotional, Promotional
<1>3. CASE cart[k].coupon.type = "PROMOTIONAL"
  <2> DEFINE c == cart[k].coupon.ref
  <2>1. c \in Coupons /\ cart[k].coupon = Promotional(c)
    BY <1>1, <1>3, CouponKinds
  <2>2. \A d \in Coupons : cart[k].coupon = Promotional(d) => d = c
    BY <2>1 DEF Promotional
  <2>3. /\ promo[c].used = cart[k].seen
        /\ promo' = [promo EXCEPT ![c].used = @ + 1]
        /\ redeemed' = [redeemed EXCEPT ![c] = @ \union {o}]
        /\ peak' = peak
    BY <1>3 DEF TxCommit, RedeemPromotional
  <2> HIDE DEF c
  <2>4. /\ promo \in [Coupons -> [active : BOOLEAN, used : Nat, max : Nat]]
        /\ redeemed \in [Coupons -> SUBSET Orders]
    BY DEF CouponsTypeOK
  <2>5. /\ promo'[c].used = promo[c].used + 1
        /\ promo'[c].max = promo[c].max
        /\ redeemed'[c] = redeemed[c] \union {o}
    BY <2>1, <2>3, <2>4
  <2>6. \A d \in Coupons : d # c => promo'[d] = promo[d] /\ redeemed'[d] = redeemed[d]
    BY <2>3, <2>4
  <2> QED
    BY <1>1, <2>1, <2>2, <2>3, <2>5, <2>6
<1> QED
  BY <1>1, <1>2, <1>3 DEF TxCommit

\* Inductive form of PromoWithinLimit.  The counter a transaction has read was
\* below the limit of that moment, and the comparison in its update makes the
\* counter it increments the one it read.
LimitInv ==
  /\ \A c \in Coupons :
       /\ promo[c].used <= peak[c]
       /\ promo[c].max <= peak[c]
       /\ peak[c] > 0 => promo[c].max > 0
  /\ \A k \in Carts : \A c \in Coupons :
       cart[k].pc = "tx" /\ cart[k].coupon = Promotional(c) => cart[k].seen < peak[c]

\* Racing checkouts never push a coupon past the highest limit it has had.
THEOREM PromoLimitHolds == Spec => []PromoWithinLimit
<1>1. Init => LimitInv
  BY DEF Init, LimitInv, Uncreated, EmptyCart
<1>2. CouponsTypeOK /\ LimitInv /\ [Next]_vars => LimitInv'
  <2> SUFFICES ASSUME CouponsTypeOK, LimitInv, [Next]_vars PROVE LimitInv'
    OBVIOUS
  <2>0. \A c \in Coupons : peak[c] \in Nat /\ promo[c].used \in Nat /\ promo[c].max \in Nat
    BY DEF CouponsTypeOK
  <2>1. ASSUME NEW c \in Coupons, NEW active \in BOOLEAN, NEW max \in 1..MaxUsesLimit,
               CreatePromotionalCoupon(c, active, max) \/ UpdatePromotionalCoupon(c, active, max)
        PROVE  LimitInv'
    <3>1. /\ max \in Nat \ {0}
          /\ promo'[c].used = promo[c].used
          /\ promo'[c].max = max
          /\ \A d \in Coupons : d # c => promo'[d] = promo[d] /\ peak'[d] = peak[d]
          /\ cart' = cart
          /\ \/ promo[c] = Uncreated /\ peak'[c] = max
             \/ peak'[c] = IF max > peak[c] THEN max ELSE peak[c]
      BY <2>1, AdminWrites
    <3>2. promo[c] = Uncreated => peak[c] = 0
      BY <2>0 DEF LimitInv, Uncreated
    <3>3. /\ peak'[c] \in Nat
          /\ peak'[c] >= peak[c]
          /\ peak'[c] >= max
      BY <2>0, <3>1, <3>2
    <3>4. \A k \in Carts : cart[k].pc = "tx" => cart[k].seen \in Nat
      BY CartIsTyped DEF EmptyCart
    <3> QED
      BY <2>0, <3>1, <3>3, <3>4 DEF LimitInv
  <2>2. ASSUME NEW k \in Carts, NEW u \in Users, NEW coupon \in ValidCoupons(u),
               Draft(k, u, coupon)
        PROVE  LimitInv'
    BY <2>2 DEF Draft, LimitInv, CouponsTypeOK
  <2>3. ASSUME NEW k \in Carts, TxRead(k) PROVE LimitInv'
    <3>1. cart[k] \in [pc : {"draft", "tx"}, user : Users, coupon : Coupon, seen : Nat]
      BY <2>3, CartIsTyped DEF TxRead, EmptyCart
    <3>2. ASSUME NEW c \in Coupons, cart[k].coupon = Promotional(c)
          PROVE  cart'[k].seen < peak[c]
      <4>1. promo[c].used < promo[c].max
        BY <2>3, <3>2 DEF TxRead, PromoValid, Promotional
      <4>2. cart'[k].seen = promo[c].used
        BY <2>3, <3>1, <3>2 DEF TxRead, Promotional, CouponsTypeOK
      <4> QED
        BY <2>0, <4>1, <4>2 DEF LimitInv
    <3>3. cart'[k].coupon = cart[k].coupon
      BY <2>3, <3>1 DEF TxRead, CouponsTypeOK
    <3>4. \A j \in Carts : j # k => cart'[j] = cart[j]
      BY <2>3 DEF TxRead, CouponsTypeOK
    <3>5. UNCHANGED <<promo, peak>>
      BY <2>3 DEF TxRead
    <3> QED
      BY <3>2, <3>3, <3>4, <3>5 DEF LimitInv
  <2>4. ASSUME NEW k \in Carts, NEW o \in Orders, TxCommit(k, o) PROVE LimitInv'
    <3>1. /\ peak' = peak
          /\ cart[k].seen \in Nat
          /\ \A c \in Coupons : cart[k].coupon = Promotional(c) =>
               /\ promo[c].used = cart[k].seen
               /\ promo'[c].used = promo[c].used + 1
               /\ promo'[c].max = promo[c].max
          /\ \A c \in Coupons : cart[k].coupon # Promotional(c) => promo'[c] = promo[c]
      BY <2>4, CheckoutRedeems
    <3>2. cart[k].pc = "tx" /\ cart' = [cart EXCEPT ![k] = EmptyCart]
      BY <2>4 DEF TxCommit
    <3>3. \A j \in Carts : cart'[j].pc = "tx" => cart'[j] = cart[j]
      BY <3>2 DEF CouponsTypeOK, EmptyCart
    <3>4. \A c \in Coupons : /\ promo'[c].used <= peak[c]
                             /\ promo'[c].max = promo[c].max
      BY <2>0, <3>1, <3>2 DEF LimitInv
    <3> QED
      BY <3>1, <3>3, <3>4 DEF LimitInv
  <2>5. ASSUME NEW k \in Carts, FailCreate(k) PROVE LimitInv'
    BY <2>5 DEF FailCreate, LimitInv, CouponsTypeOK, EmptyCart
  <2>6. ASSUME NEW r \in Updates, Read(r) \/ Commit(r) \/ Abort(r) \/ Hook(r) \/ HookFails(r)
        PROVE  UNCHANGED <<promo, cart, peak>>
    BY <2>6 DEF Read, Commit, Abort, Hook, HookFails, AcceptHook, CancelRead, CancelNothing,
                CancelDelete, CancelRollsBack, OtherHook, couponVars
  <2>7. CASE UNCHANGED <<promo, cart, peak>>
    BY <2>7 DEF LimitInv
  <2>8. UNCHANGED vars => UNCHANGED <<promo, cart, peak>>
    BY DEF vars, couponVars
  <2> QED
    BY <2>1, <2>2, <2>3, <2>4, <2>5, <2>6, <2>7, <2>8 DEF Next
<1>3. LimitInv => PromoWithinLimit
  BY DEF LimitInv, PromoWithinLimit
<1> QED
  BY <1>1, <1>2, <1>3, CouponsTypeCorrect, PTL DEF Spec

\* Inductive form of PromoCountsOrders.
CountInv ==
  /\ PromoCountsOrders
  /\ \A c \in Coupons : IsFiniteSet(redeemed[c])
  /\ \A o \in Orders : ~Placed(o) => couponOf[o] = NoCoupon

\* The counter of a promotional coupon is the number of orders placed with it.
THEOREM PromoCountHolds == Spec => []PromoCountsOrders
<1>1. Init => CountInv
  <2>1. IsFiniteSet({}) /\ Cardinality({}) = 0
    BY FS_EmptySet
  <2> QED
    BY <2>1 DEF Init, CountInv, PromoCountsOrders, Uncreated, NoCoupon, Promotional
<1>2. CouponsTypeOK /\ CountInv /\ [Next]_vars => CountInv'
  <2> SUFFICES ASSUME CouponsTypeOK, CountInv, [Next]_vars PROVE CountInv'
    OBVIOUS
  <2>1. ASSUME NEW c \in Coupons, NEW active \in BOOLEAN, NEW max \in 1..MaxUsesLimit,
               CreatePromotionalCoupon(c, active, max) \/ UpdatePromotionalCoupon(c, active, max)
        PROVE  CountInv'
    <3>1. \A d \in Coupons : promo'[d].used = promo[d].used
      BY <2>1, AdminWrites
    <3>2. UNCHANGED <<redeemed, couponOf, status>>
      BY <2>1 DEF CreatePromotionalCoupon, UpdatePromotionalCoupon, updateVars
    <3> QED
      BY <3>1, <3>2 DEF CountInv, PromoCountsOrders, Placed
  <2>2. ASSUME NEW k \in Carts, NEW o \in Orders, TxCommit(k, o) PROVE CountInv'
    <3> DEFINE x == cart[k].coupon
    <3>1. /\ x \in Coupon
          /\ \A c \in Coupons : x = Promotional(c) =>
               promo'[c].used = promo[c].used + 1 /\ redeemed'[c] = redeemed[c] \union {o}
          /\ \A c \in Coupons : x # Promotional(c) =>
               promo'[c] = promo[c] /\ redeemed'[c] = redeemed[c]
      BY <2>2, CheckoutRedeems
    <3>2. /\ ~Placed(o)
          /\ status' = [status EXCEPT ![o] = "PENDING"]
          /\ couponOf' = [couponOf EXCEPT ![o] = x]
      BY <2>2 DEF TxCommit, CreateOrder
    <3> HIDE DEF x
    <3>3. couponOf'[o] = x /\ \A p \in Orders : p # o => couponOf'[p] = couponOf[p]
      BY <3>2 DEF CouponsTypeOK
    <3>4. \A c \in Coupons : couponOf[o] # Promotional(c)
      BY <3>2 DEF CountInv, NoCoupon, Promotional
    <3>5. \A p \in Orders : status'[p] = Absent => couponOf'[p] = NoCoupon
      BY <3>2, <3>3 DEF CountInv, Placed, CouponsTypeOK, UpdatesTypeOK, Absent
    <3>6. ASSUME NEW c \in Coupons
          PROVE  /\ redeemed'[c] = {p \in Orders : couponOf'[p] = Promotional(c)}
                 /\ IsFiniteSet(redeemed'[c])
                 /\ promo'[c].used = Cardinality(redeemed'[c])
      <4>1. /\ redeemed[c] = {p \in Orders : couponOf[p] = Promotional(c)}
            /\ IsFiniteSet(redeemed[c])
            /\ promo[c].used = Cardinality(redeemed[c])
        BY DEF CountInv, PromoCountsOrders
      <4>2. CASE x # Promotional(c)
        <5>1. promo'[c] = promo[c] /\ redeemed'[c] = redeemed[c]
          BY <3>1, <4>2
        <5>2. {p \in Orders : couponOf'[p] = Promotional(c)}
                = {p \in Orders : couponOf[p] = Promotional(c)}
          BY <3>3, <3>4, <4>2
        <5> QED
          BY <4>1, <5>1, <5>2
      <4>3. CASE x = Promotional(c)
        <5>1. o \notin redeemed[c]
          BY <3>4, <4>1
        <5>2. /\ IsFiniteSet(redeemed[c] \union {o})
              /\ Cardinality(redeemed[c] \union {o}) = Cardinality(redeemed[c]) + 1
          BY <4>1, <5>1, FS_AddElement
        <5> QED
          BY <3>1, <3>3, <4>1, <4>3, <5>2
      <4> QED
        BY <4>2, <4>3
    <3> QED
      BY <3>5, <3>6 DEF CountInv, PromoCountsOrders, Placed
  <2>3. ASSUME NEW r \in Updates, CancelDelete(r) PROVE CountInv'
    <3>1. UNCHANGED <<promo, redeemed, status>>
      BY <2>3 DEF CancelDelete, EndUpdate
    <3>2. /\ \A c \in Coupons : \A p \in Orders :
               couponOf'[p] = Promotional(c) <=> couponOf[p] = Promotional(c)
          /\ \A p \in Orders : couponOf[p] = NoCoupon => couponOf'[p] = NoCoupon
      BY <2>3 DEF CancelDelete, Promotional, Reward, NoCoupon
    <3> QED
      BY <3>1, <3>2 DEF CountInv, PromoCountsOrders, Placed
  <2>4. ASSUME NEW r \in Updates, Commit(r) PROVE CountInv'
    <3>1. up[r] \in Serving
      BY <2>4, ServingIsTyped DEF Commit, CommitUpdate, CouponsTypeOK
    <3>2. \A p \in Orders : ~Placed(p)' => ~Placed(p)
      BY <2>4, <3>1, AbsentIsNoStatus
         DEF Commit, CommitUpdate, Placed, CouponsTypeOK, UpdatesTypeOK, Serving
    <3>3. UNCHANGED <<promo, redeemed, couponOf>>
      BY <2>4 DEF Commit, couponVars
    <3> QED
      BY <3>2, <3>3 DEF CountInv, PromoCountsOrders
  <2>5. ASSUME NEW k \in Carts,
               \/ \E u \in Users : \E coupon \in ValidCoupons(u) : Draft(k, u, coupon)
               \/ TxRead(k) \/ FailCreate(k)
        PROVE  UNCHANGED <<promo, redeemed, couponOf, status>>
    BY <2>5 DEF Draft, TxRead, FailCreate, updateVars
  <2>6. ASSUME NEW r \in Updates,
               \/ Read(r) \/ Abort(r) \/ HookFails(r)
               \/ AcceptHook(r) \/ CancelRead(r) \/ CancelNothing(r)
               \/ CancelRollsBack(r) \/ OtherHook(r)
        PROVE  UNCHANGED <<promo, redeemed, couponOf, status>>
    BY <2>6 DEF Read, Start, ReadForUpdate, Abort, AbortUpdate, EndUpdate, HookFails, AcceptHook,
                CancelRead, CancelNothing, CancelRollsBack, OtherHook, couponVars, updateVars
  <2>7. CASE UNCHANGED <<promo, redeemed, couponOf, status>>
    BY <2>7 DEF CountInv, PromoCountsOrders, Placed
  <2>8. UNCHANGED vars => UNCHANGED <<promo, redeemed, couponOf, status>>
    BY DEF vars, couponVars, updateVars
  <2> QED
    BY <2>1, <2>2, <2>3, <2>4, <2>5, <2>6, <2>7, <2>8 DEF Next, Hook
<1>3. CountInv => PromoCountsOrders
  BY DEF CountInv
<1> QED
  BY <1>1, <1>2, <1>3, CouponsTypeCorrect, PTL DEF Spec

-----------------------------------------------------------------------------
(* Referrals and rewards.                                                  *)

\* Inductive invariant of the referral rows.  Besides the three properties it
\* says which orders have usages and coupons at all, and that no checkout names
\* a reward that does not exist.
RewardInv ==
  /\ RewardBacked
  /\ RewardSpentOnce
  /\ OneReferralPerUser
  /\ \A o \in Orders : usage[o] # "none" => couponOf[o].type = "REFERRAL" /\ buyer[o] \in Users
  /\ \A o \in Orders : ~Placed(o) => couponOf[o] = NoCoupon /\ buyer[o] = NoUser
  /\ \A k \in Carts : cart[k].coupon # Reward(NoOrder)

\* The checkout step preserves RewardInv.
LEMMA CheckoutKeepsRewardInv ==
  ASSUME CouponsTypeOK, RewardInv, NEW k \in Carts, NEW o \in Orders, TxCommit(k, o)
  PROVE  RewardInv'
<1> DEFINE x == cart[k].coupon
           u == cart[k].user
<1>1. u \in Users /\ x \in Coupon /\ x # Reward(NoOrder)
  BY CartIsTyped DEF TxCommit, EmptyCart, RewardInv
<1>2. /\ ~Placed(o)
      /\ status' = [status EXCEPT ![o] = "PENDING"]
      /\ stamped' = [stamped EXCEPT ![o] = {"PENDING"}]
      /\ couponOf' = [couponOf EXCEPT ![o] = x]
      /\ buyer' = [buyer EXCEPT ![o] = u]
      /\ cart' = [cart EXCEPT ![k] = EmptyCart]
  BY DEF TxCommit, CreateOrder
<1>3. IF x.type # "REFERRAL" THEN UNCHANGED usage
      ELSE /\ \A p \in OrdersOf(u) : usage[p] = "none"
           /\ usage' = [usage EXCEPT ![o] = "PENDING_CONFIRMATION"]
  BY DEF TxCommit, UseReferral
<1>4. IF x.type # "REFERRAL_REWARD" THEN UNCHANGED reward
      ELSE /\ RewardValid(u, x.ref)
           /\ reward' = [reward EXCEPT ![x.ref] = UsedBy(o)]
  BY DEF TxCommit, SpendReward
<1> HIDE DEF x, u
<1>5. couponOf[o] = NoCoupon /\ buyer[o] = NoUser /\ usage[o] = "none" /\ reward[o] = NoReward
  BY <1>2 DEF RewardInv, RewardBacked, NoCoupon
<1>6. \A p \in Orders : p # o =>
        /\ couponOf'[p] = couponOf[p] /\ buyer'[p] = buyer[p] /\ status'[p] = status[p]
        /\ stamped'[p] = stamped[p] /\ usage'[p] = usage[p]
  BY <1>2, <1>3 DEF CouponsTypeOK, UpdatesTypeOK
<1>7. /\ couponOf'[o] = x /\ buyer'[o] = u /\ status'[o] = "PENDING"
      /\ usage'[o] # "none" => x.type = "REFERRAL"
  BY <1>2, <1>3, <1>5 DEF CouponsTypeOK, UpdatesTypeOK
<1>8. x.type = "REFERRAL_REWARD" =>
        /\ x.ref \in Orders /\ x = Reward(x.ref) /\ x.ref # o
        /\ reward[x.ref] = Available /\ RewardOwner(x.ref) = u
  BY <1>1, <1>4, <1>5, CouponKinds DEF RewardValid, NoReward, Available
<1>9. /\ x.type = "REFERRAL_REWARD" => reward'[x.ref] = UsedBy(o)
      /\ \A p \in Orders : ~(x.type = "REFERRAL_REWARD" /\ p = x.ref) => reward'[p] = reward[p]
  BY <1>4, <1>8 DEF CouponsTypeOK
<1>10. RewardBacked'
  <2> SUFFICES ASSUME NEW p \in Orders, reward'[p] # NoReward
               PROVE  /\ usage'[p] = "CONFIRMED" /\ "ACCEPTED" \in stamped'[p]
                      /\ couponOf'[p].type = "REFERRAL" /\ RewardEnabled
    BY DEF RewardBacked
  <2>1. reward[p] # NoReward
    BY <1>8, <1>9 DEF NoReward, Available
  <2>2. p # o
    BY <1>5, <2>1
  <2> QED
    BY <1>6, <2>1, <2>2 DEF RewardInv, RewardBacked
<1>11. RewardSpentOnce'
  <2>1. ASSUME NEW p \in Orders, NEW q \in Orders, reward'[p] = UsedBy(q)
        PROVE  couponOf'[q] = Reward(p) /\ buyer'[q] = couponOf'[p].ref
    <3>1. CASE x.type = "REFERRAL_REWARD" /\ p = x.ref
      <4>1. q = o
        BY <1>9, <2>1, <3>1 DEF UsedBy
      <4> QED
        BY <1>6, <1>7, <1>8, <3>1, <4>1 DEF RewardOwner
    <3>2. CASE ~(x.type = "REFERRAL_REWARD" /\ p = x.ref)
      <4>1. reward[p] = UsedBy(q)
        BY <1>9, <2>1, <3>2
      <4>2. couponOf[q] = Reward(p) /\ buyer[q] = couponOf[p].ref
        BY <4>1 DEF RewardInv, RewardSpentOnce, RewardOwner
      <4>3. q # o /\ p # o
        BY <1>5, <4>1, <4>2 DEF NoCoupon, Reward, NoReward, UsedBy
      <4> QED
        BY <1>6, <4>2, <4>3
    <3> QED
      BY <3>1, <3>2
  <2>2. ASSUME NEW p \in Orders, NEW q \in Orders, couponOf'[q] = Reward(p)
        PROVE  reward'[p] = UsedBy(q)
    <3>1. CASE q = o
      <4>1. x.type = "REFERRAL_REWARD" /\ x.ref = p
        BY <1>7, <2>2, <3>1 DEF Reward
      <4> QED
        BY <1>9, <3>1, <4>1
    <3>2. CASE q # o
      <4>1. reward[p] = UsedBy(q)
        BY <1>6, <2>2, <3>2 DEF RewardInv, RewardSpentOnce
      <4>2. ~(x.type = "REFERRAL_REWARD" /\ p = x.ref)
        BY <1>8, <4>1 DEF Available, UsedBy
      <4> QED
        BY <1>9, <4>1, <4>2
    <3> QED
      BY <3>1, <3>2
  <2> QED
    BY <2>1, <2>2 DEF RewardSpentOnce, RewardOwner
<1>12. OneReferralPerUser'
  <2> SUFFICES ASSUME NEW w \in Users, NEW p \in Orders, NEW q \in Orders,
                      buyer'[p] = w, buyer'[q] = w, usage'[p] # "none", usage'[q] # "none"
               PROVE  p = q
    BY DEF OneReferralPerUser, OrdersOf
  <2>1. CASE p # o /\ q # o
    BY <1>6, <2>1 DEF RewardInv, OneReferralPerUser, OrdersOf
  <2>2. CASE p = o \/ q = o
    <3>1. x.type = "REFERRAL" /\ w = u
      BY <1>7, <2>2
    <3>2. \A z \in Orders : z # o /\ buyer[z] = u => usage[z] = "none"
      BY <1>3, <3>1 DEF OrdersOf
    <3> QED
      BY <1>6, <2>2, <3>1, <3>2
  <2> QED
    BY <2>1, <2>2
<1>13. \A p \in Orders : usage'[p] # "none" => couponOf'[p].type = "REFERRAL" /\ buyer'[p] \in Users
  BY <1>1, <1>6, <1>7 DEF RewardInv
<1>14. \A p \in Orders : status'[p] = Absent => couponOf'[p] = NoCoupon /\ buyer'[p] = NoUser
  BY <1>6, <1>7 DEF RewardInv, Placed, Absent
<1>15. \A j \in Carts : cart'[j].coupon # Reward(NoOrder)
  BY <1>2 DEF RewardInv, CouponsTypeOK, EmptyCart, NoCoupon, Reward
<1> QED
  BY <1>10, <1>11, <1>12, <1>13, <1>14, <1>15 DEF RewardInv, Placed

\* The hook of an accepted order preserves RewardInv: its order has the ACCEPTED
\* timestamp, and a pending usage has no reward yet.
LEMMA AcceptKeepsRewardInv ==
  ASSUME CouponsTypeOK, CommittedStays, RewardInv, NEW r \in Updates, AcceptHook(r)
  PROVE  RewardInv'
<1> DEFINE o == up[r].order
<1>1. /\ o \in Orders
      /\ "ACCEPTED" \in stamped[o]
  BY ServingIsTyped DEF AcceptHook, EndUpdate, CommittedStays, CouponsTypeOK, Serving
<1>2. UNCHANGED <<status, stamped, buyer, couponOf, cart>>
  BY DEF AcceptHook, EndUpdate
<1> HIDE DEF o
<1>3. CASE usage[o] # "PENDING_CONFIRMATION"
  <2>1. UNCHANGED <<usage, reward>>
    BY <1>3 DEF AcceptHook, o
  <2> QED
    BY <1>2, <2>1 DEF RewardInv, RewardBacked, RewardSpentOnce, OneReferralPerUser, OrdersOf,
                      RewardOwner, Placed
<1>4. CASE usage[o] = "PENDING_CONFIRMATION"
  <2>1. /\ usage' = [usage EXCEPT ![o] = "CONFIRMED"]
        /\ reward' = IF RewardEnabled THEN [reward EXCEPT ![o] = Available] ELSE reward
    BY <1>4 DEF AcceptHook, o
  <2>2. reward[o] = NoReward
    BY <1>1, <1>4 DEF RewardInv, RewardBacked
  <2>3. /\ usage'[o] = "CONFIRMED"
        /\ \A p \in Orders : p # o => usage'[p] = usage[p] /\ reward'[p] = reward[p]
        /\ reward'[o] # NoReward => RewardEnabled
        /\ reward'[o] = NoReward \/ reward'[o] = Available
    BY <1>1, <2>1, <2>2 DEF CouponsTypeOK
  <2>4. couponOf[o].type = "REFERRAL"
    BY <1>1, <1>4 DEF RewardInv
  <2>5. RewardBacked'
    BY <1>1, <1>2, <2>3, <2>4 DEF RewardInv, RewardBacked
  <2>6. RewardSpentOnce'
    <3>1. \A p \in Orders : couponOf[p] # Reward(o)
      <4>1. ASSUME NEW p \in Orders, couponOf[p] = Reward(o) PROVE reward[o] = UsedBy(p)
        BY <1>1, <4>1 DEF RewardInv, RewardSpentOnce
      <4>2. \A p \in Orders : UsedBy(p) # NoReward
        BY DEF NoReward, UsedBy
      <4> QED
        BY <2>2, <4>1, <4>2
    <3>2. \A p \in Orders : reward'[o] # UsedBy(p)
      BY <2>3 DEF NoReward, Available, UsedBy
    <3> QED
      BY <1>2, <2>3, <3>1, <3>2 DEF RewardInv, RewardSpentOnce, RewardOwner
  <2>7. OneReferralPerUser'
    BY <1>1, <1>2, <1>4, <2>3 DEF RewardInv, OneReferralPerUser, OrdersOf
  <2>8. \A p \in Orders : usage'[p] # "none" => couponOf'[p].type = "REFERRAL" /\ buyer'[p] \in Users
    BY <1>1, <1>2, <1>4, <2>3 DEF RewardInv
  <2> QED
    BY <1>2, <2>5, <2>6, <2>7, <2>8 DEF RewardInv, Placed
<1> QED
  BY <1>3, <1>4

\* The deletes of a cancel hook preserve RewardInv: the reward goes with its
\* usage, and the order that had spent it loses its link.
LEMMA CancelKeepsRewardInv ==
  ASSUME CouponsTypeOK, RewardInv, NEW r \in Updates, CancelDelete(r)
  PROVE  RewardInv'
<1> DEFINE o == up[r].order
<1>1. o \in Orders /\ usage[o] # "none"
  BY ServingIsTyped DEF CancelDelete, CanDelete, EndUpdate, CouponsTypeOK, Serving
<1>2. /\ reward' = [reward EXCEPT ![o] = NoReward]
      /\ usage' = [usage EXCEPT ![o] = "none"]
      /\ couponOf' = [p \in Orders |-> IF couponOf[p] = Reward(o) THEN Reward(NoOrder)
                                       ELSE couponOf[p]]
      /\ UNCHANGED <<status, stamped, buyer, cart>>
  BY DEF CancelDelete, EndUpdate
<1> HIDE DEF o
<1>3. /\ reward'[o] = NoReward /\ usage'[o] = "none"
      /\ \A p \in Orders : p # o => usage'[p] = usage[p] /\ reward'[p] = reward[p]
  BY <1>1, <1>2 DEF CouponsTypeOK
<1>4. \A p \in Orders : couponOf[p].type # "REFERRAL_REWARD" => couponOf'[p] = couponOf[p]
  BY <1>2 DEF Reward
<1>5. \A p, q \in Orders : couponOf'[q] = Reward(p) <=> couponOf[q] = Reward(p) /\ p # o
  BY <1>2, ConstantsAssumption DEF Reward
<1>6. \A p \in Orders : reward[p] # NoReward \/ usage[p] # "none" => couponOf'[p] = couponOf[p]
  BY <1>4 DEF RewardInv, RewardBacked
<1>7. RewardBacked'
  BY <1>2, <1>3, <1>6 DEF RewardInv, RewardBacked
<1>8. RewardSpentOnce'
  <2>1. ASSUME NEW p \in Orders, NEW q \in Orders, reward'[p] = UsedBy(q)
        PROVE  couponOf'[q] = Reward(p) /\ buyer'[q] = couponOf'[p].ref
    <3>1. p # o /\ reward[p] = UsedBy(q) /\ reward[p] # NoReward
      BY <1>3, <2>1 DEF NoReward, UsedBy
    <3> QED
      BY <1>2, <1>5, <1>6, <3>1 DEF RewardInv, RewardSpentOnce, RewardOwner
  <2>2. ASSUME NEW p \in Orders, NEW q \in Orders, couponOf'[q] = Reward(p)
        PROVE  reward'[p] = UsedBy(q)
    BY <1>3, <1>5, <2>2 DEF RewardInv, RewardSpentOnce
  <2> QED
    BY <2>1, <2>2 DEF RewardSpentOnce, RewardOwner
<1>9. OneReferralPerUser'
  BY <1>2, <1>3 DEF RewardInv, OneReferralPerUser, OrdersOf
<1>10. \A p \in Orders : usage'[p] # "none" => couponOf'[p].type = "REFERRAL" /\ buyer'[p] \in Users
  BY <1>2, <1>3, <1>6 DEF RewardInv
<1>11. \A p \in Orders : ~Placed(p)' => couponOf'[p] = NoCoupon /\ buyer'[p] = NoUser
  BY <1>2, <1>4 DEF RewardInv, Placed, NoCoupon
<1> QED
  BY <1>2, <1>7, <1>8, <1>9, <1>10, <1>11 DEF RewardInv

\* RewardInv is inductive.
LEMMA RewardInvHolds == Spec => []RewardInv
<1> DEFINE rewardVars == <<status, stamped, buyer, couponOf, usage, reward, cart>>
<1>1. Init => RewardInv
  BY ConstantsAssumption, CouponsAssumption
     DEF Init, UpdatesInit, RewardInv, RewardBacked, RewardSpentOnce, OneReferralPerUser, OrdersOf,
         Placed, NoReward, UsedBy, NoCoupon, Reward, EmptyCart
<1>2. CouponsTypeOK /\ CommittedStays /\ RewardInv /\ [Next]_vars => RewardInv'
  <2> SUFFICES ASSUME CouponsTypeOK, CommittedStays, RewardInv, [Next]_vars
               PROVE  RewardInv'
    OBVIOUS
  <2>1. CASE UNCHANGED rewardVars
    BY <2>1 DEF RewardInv, RewardBacked, RewardSpentOnce, OneReferralPerUser, OrdersOf,
                RewardOwner, Placed
  <2>2. ASSUME NEW c \in Coupons, NEW active \in BOOLEAN, NEW max \in 1..MaxUsesLimit,
               CreatePromotionalCoupon(c, active, max) \/ UpdatePromotionalCoupon(c, active, max)
        PROVE  UNCHANGED rewardVars
    BY <2>2 DEF CreatePromotionalCoupon, UpdatePromotionalCoupon, updateVars
  <2>3. ASSUME NEW k \in Carts,
               \/ \E u \in Users : \E coupon \in ValidCoupons(u) : Draft(k, u, coupon)
               \/ TxRead(k) \/ FailCreate(k)
        PROVE  RewardInv'
    <3>1. UNCHANGED <<status, stamped, buyer, couponOf, usage, reward>>
      BY <2>3 DEF Draft, TxRead, FailCreate, updateVars
    <3>2. \A u \in Users : Reward(NoOrder) \notin ValidCoupons(u)
      BY ConstantsAssumption DEF ValidCoupons, NoCoupon, Reward, Promotional, Referral
    <3>3. cart'[k].coupon # Reward(NoOrder)
      <4>1. CASE \E u \in Users : \E coupon \in ValidCoupons(u) : Draft(k, u, coupon)
        BY <3>2, <4>1 DEF Draft, CouponsTypeOK
      <4>2. CASE TxRead(k)
        <5>1. cart'[k].coupon = cart[k].coupon
          BY <4>2, CartIsTyped DEF TxRead, CouponsTypeOK, EmptyCart
        <5> QED
          BY <5>1 DEF RewardInv
      <4>3. CASE FailCreate(k)
        BY <4>3 DEF FailCreate, CouponsTypeOK, EmptyCart, NoCoupon, Reward
      <4> QED
        BY <2>3, <4>1, <4>2, <4>3
    <3>4. \A j \in Carts : j # k => cart'[j] = cart[j]
      BY <2>3 DEF Draft, TxRead, FailCreate, CouponsTypeOK
    <3> QED
      BY <3>1, <3>3, <3>4 DEF RewardInv, RewardBacked, RewardSpentOnce, OneReferralPerUser,
                              OrdersOf, RewardOwner, Placed
  <2>4. ASSUME NEW k \in Carts, NEW o \in Orders, TxCommit(k, o) PROVE RewardInv'
    BY <2>4, CheckoutKeepsRewardInv
  <2>5. ASSUME NEW r \in Updates, Commit(r) PROVE RewardInv'
    <3>1. up[r] \in Serving
      BY <2>5, ServingIsTyped DEF Commit, CommitUpdate, CouponsTypeOK
    <3>2. \A p \in Orders : (~Placed(p)' => ~Placed(p)) /\ stamped[p] \subseteq stamped'[p]
      BY <2>5, <3>1, AbsentIsNoStatus
         DEF Commit, CommitUpdate, Placed, CouponsTypeOK, UpdatesTypeOK, Serving
    <3>3. UNCHANGED <<buyer, couponOf, usage, reward, cart>>
      BY <2>5 DEF Commit, couponVars
    <3> QED
      BY <3>2, <3>3 DEF RewardInv, RewardBacked, RewardSpentOnce, OneReferralPerUser, OrdersOf,
                        RewardOwner
  <2>6. ASSUME NEW r \in Updates, AcceptHook(r) PROVE RewardInv'
    BY <2>6, AcceptKeepsRewardInv
  <2>7. ASSUME NEW r \in Updates, CancelDelete(r) PROVE RewardInv'
    BY <2>7, CancelKeepsRewardInv
  <2>8. ASSUME NEW r \in Updates,
               \/ Read(r) \/ Abort(r) \/ HookFails(r) \/ CancelRead(r) \/ CancelNothing(r)
               \/ CancelRollsBack(r) \/ OtherHook(r)
        PROVE  UNCHANGED rewardVars
    BY <2>8 DEF Read, Start, ReadForUpdate, Abort, AbortUpdate, EndUpdate, HookFails, CancelRead,
                CancelNothing, CancelRollsBack, OtherHook, couponVars, updateVars
  <2>9. UNCHANGED vars => UNCHANGED rewardVars
    BY DEF vars, couponVars, updateVars
  <2> HIDE DEF rewardVars
  <2> QED
    BY <2>1, <2>2, <2>3, <2>4, <2>5, <2>6, <2>7, <2>8, <2>9 DEF Next, Hook
<1>3. Spec => []CommittedStays
  BY CouponsRefineUpdates, CommittedStaysHolds, PTL
<1> QED
  BY <1>1, <1>2, <1>3, CouponsTypeCorrect, PTL DEF Spec

\* Usages, rewards and the orders that spend them stay linked one to one.
THEOREM ReferralLinksHold == Spec => []ReferralLinks
<1>1. RewardInv => ReferralLinks
  BY DEF RewardInv, ReferralLinks
<1> QED
  BY <1>1, RewardInvHolds, PTL

\* Promotional coupons are counted exactly and never used past their limit.
THEOREM PromoUsesHold == Spec => []PromoUses
<1>1. PromoCountsOrders /\ PromoWithinLimit => PromoUses
  BY DEF PromoUses
<1> QED
  BY <1>1, PromoCountHolds, PromoLimitHolds, PTL

-----------------------------------------------------------------------------
(* Referrals of first orders.                                              *)

\* Two checkouts of one user make the user rushed; a checkout that brings a referral
\* found its user without orders, and only that user's other checkouts place any.
FirstInv ==
  /\ \A j, k \in Carts : j # k /\ cart[j] # EmptyCart /\ cart[k] # EmptyCart
                           /\ cart[j].user = cart[k].user => cart[k].user \in rushed
  /\ FirstOrderOnly =>
       \A k \in Carts : cart[k] # EmptyCart /\ cart[k].coupon.type = "REFERRAL" =>
         OrdersOf(cart[k].user) = {} \/ cart[k].user \in rushed
  /\ ReferralFirstUnlessRushed

\* A checkout begins, reads the coupon or fails.
LEMMA UncommittedKeepsFirstInv ==
  ASSUME CouponsTypeOK, FirstInv, NEW k \in Carts,
         \/ \E u \in Users : \E coupon \in ValidCoupons(u) : Draft(k, u, coupon)
         \/ TxRead(k) \/ FailCreate(k)
  PROVE  FirstInv'
<1>1. /\ UNCHANGED <<buyer, couponOf, first>> /\ rushed \subseteq rushed'
      /\ \A j \in Carts : j # k => cart'[j] = cart[j]
  BY DEF Draft, TxRead, FailCreate, CouponsTypeOK
<1>2. ReferralFirstUnlessRushed'
  BY <1>1 DEF FirstInv, ReferralFirstUnlessRushed
<1>3. /\ \A j \in Carts \ {k} : cart'[k] # EmptyCart /\ cart'[j] # EmptyCart
                                  /\ cart'[j].user = cart'[k].user => cart'[k].user \in rushed'
      /\ FirstOrderOnly /\ cart'[k] # EmptyCart /\ cart'[k].coupon.type = "REFERRAL" =>
           OrdersOf(cart'[k].user) = {} \/ cart'[k].user \in rushed'
  <2>1. CASE \E u \in Users : \E coupon \in ValidCoupons(u) : Draft(k, u, coupon)
    <3>0. PICK u \in Users : \E coupon \in ValidCoupons(u) : Draft(k, u, coupon)
      BY <2>1
    <3>1. PICK coupon \in ValidCoupons(u) : Draft(k, u, coupon)
      BY <3>0
    <3>2. /\ cart'[k].user = u /\ cart'[k].coupon = coupon
          /\ (\E j \in Carts : cart[j].user = u) => u \in rushed'
      BY <3>1 DEF Draft, CouponsTypeOK
    <3>3. FirstOrderOnly /\ coupon.type = "REFERRAL" => OrdersOf(u) = {}
      BY <3>1 DEF ValidCoupons, ReferralValid, NoCoupon, Reward, Promotional, Referral
    <3> QED
      BY <1>1, <3>2, <3>3
  <2>2. CASE TxRead(k)
    <3>1. cart[k] # EmptyCart /\ cart'[k].user = cart[k].user /\ cart'[k].coupon = cart[k].coupon
      <4>1. cart[k] # EmptyCart
        BY <2>2 DEF TxRead, EmptyCart
      <4> QED
        BY <2>2, <4>1, CartIsTyped DEF TxRead, CouponsTypeOK
    <3> QED
      BY <1>1, <3>1 DEF FirstInv
  <2>3. CASE FailCreate(k)
    BY <2>3 DEF FailCreate, CouponsTypeOK
  <2> QED
    BY <2>1, <2>2, <2>3
<1>4. \A j, i \in Carts : j # i /\ cart'[j] # EmptyCart /\ cart'[i] # EmptyCart
                            /\ cart'[j].user = cart'[i].user => cart'[i].user \in rushed'
  BY <1>1, <1>3 DEF FirstInv
<1>5. ASSUME FirstOrderOnly, NEW j \in Carts, cart'[j] # EmptyCart, cart'[j].coupon.type = "REFERRAL"
      PROVE  (\A p \in Orders : buyer'[p] # cart'[j].user) \/ cart'[j].user \in rushed'
  BY <1>1, <1>3, <1>5 DEF FirstInv, OrdersOf
<1> QED
  BY <1>2, <1>4, <1>5 DEF FirstInv, OrdersOf

\* A checkout commits: the user's other checkouts have made the user rushed.
LEMMA CheckoutKeepsFirstInv ==
  ASSUME CouponsTypeOK, FirstInv, NEW k \in Carts, NEW o \in Orders, TxCommit(k, o)
  PROVE  FirstInv'
<1> DEFINE u == cart[k].user
<1>1. /\ cart[k] # EmptyCart
      /\ buyer' = [buyer EXCEPT ![o] = u]
      /\ couponOf' = [couponOf EXCEPT ![o] = cart[k].coupon]
      /\ cart' = [cart EXCEPT ![k] = EmptyCart]
      /\ first' = IF OrdersOf(u) = {} THEN first \union {o} ELSE first
      /\ rushed' = rushed
  BY DEF TxCommit, EmptyCart
<1>2. \A j \in Carts : /\ cart'[j] # EmptyCart => j # k /\ cart'[j] = cart[j]
                       /\ cart'[j] # EmptyCart /\ cart[j].user = u => u \in rushed
  BY <1>1 DEF CouponsTypeOK, FirstInv
<1>3. \A p \in Orders : buyer'[p] = u \/ buyer'[p] = buyer[p]
  BY <1>1 DEF CouponsTypeOK
<1>4. ReferralFirstUnlessRushed'
  <2> SUFFICES ASSUME FirstOrderOnly, NEW p \in Orders, couponOf'[p].type = "REFERRAL"
               PROVE  p \in first' \/ buyer'[p] \in rushed
    BY <1>1 DEF ReferralFirstUnlessRushed
  <2>1. CASE p = o
    BY <1>1, <2>1 DEF FirstInv, CouponsTypeOK
  <2>2. CASE p # o
    BY <1>1, <2>2 DEF FirstInv, ReferralFirstUnlessRushed, CouponsTypeOK
  <2> QED
    BY <2>1, <2>2
<1>5. \A j, i \in Carts : j # i /\ cart'[j] # EmptyCart /\ cart'[i] # EmptyCart
                            /\ cart'[j].user = cart'[i].user => cart'[i].user \in rushed'
  BY <1>1, <1>2 DEF FirstInv
<1>6. ASSUME FirstOrderOnly, NEW j \in Carts, cart'[j] # EmptyCart,
             cart'[j].coupon.type = "REFERRAL", cart'[j].user \notin rushed
      PROVE  \A p \in Orders : buyer'[p] # cart'[j].user
  <2>1. cart'[j] = cart[j] /\ cart[j].user # u
    BY <1>2, <1>6
  <2>2. OrdersOf(cart[j].user) = {}
    BY <1>6, <2>1 DEF FirstInv
  <2> QED
    BY <1>3, <2>1, <2>2 DEF OrdersOf
<1> QED
  BY <1>1, <1>4, <1>5, <1>6 DEF FirstInv, OrdersOf

\* With referrals for first orders only, a referral is on its user's first order
\* unless two of the user's checkouts were in flight together.
THEOREM ReferralFirstHolds == Spec => []ReferralFirstUnlessRushed
<1> DEFINE firstVars == <<buyer, couponOf, cart, first, rushed>>
<1>1. Init => FirstInv
  BY DEF Init, FirstInv, ReferralFirstUnlessRushed, NoCoupon
<1>2. CouponsTypeOK /\ FirstInv /\ [Next]_vars => FirstInv'
  <2> SUFFICES ASSUME CouponsTypeOK, FirstInv, [Next]_vars PROVE FirstInv'
    OBVIOUS
  <2>1. CASE UNCHANGED firstVars
    BY <2>1 DEF FirstInv, ReferralFirstUnlessRushed, OrdersOf
  <2>2. ASSUME NEW c \in Coupons, NEW active \in BOOLEAN, NEW max \in 1..MaxUsesLimit,
               CreatePromotionalCoupon(c, active, max) \/ UpdatePromotionalCoupon(c, active, max)
        PROVE  UNCHANGED firstVars
    BY <2>2 DEF CreatePromotionalCoupon, UpdatePromotionalCoupon
  <2>3. ASSUME NEW r \in Updates, CancelDelete(r) PROVE FirstInv'
    <3>1. UNCHANGED <<buyer, cart, first, rushed>>
      BY <2>3 DEF CancelDelete
    <3>2. \A p \in Orders : couponOf'[p].type = couponOf[p].type
      BY <2>3 DEF CancelDelete, Reward
    <3> QED
      BY <3>1, <3>2 DEF FirstInv, ReferralFirstUnlessRushed, OrdersOf
  <2>4. ASSUME NEW r \in Updates,
               \/ Read(r) \/ Commit(r) \/ Abort(r) \/ HookFails(r) \/ AcceptHook(r) \/ CancelRead(r)
               \/ CancelNothing(r) \/ CancelRollsBack(r) \/ OtherHook(r)
        PROVE  UNCHANGED firstVars
    BY <2>4 DEF Read, Commit, Abort, HookFails, AcceptHook, CancelRead, CancelNothing,
                CancelRollsBack, OtherHook, couponVars
  <2>5. UNCHANGED vars => UNCHANGED firstVars
    BY DEF vars, couponVars
  <2> HIDE DEF firstVars
  <2> QED
    BY <2>1, <2>2, <2>3, <2>4, <2>5, UncommittedKeepsFirstInv, CheckoutKeepsFirstInv DEF Next, Hook
<1>3. FirstInv => ReferralFirstUnlessRushed
  BY DEF FirstInv
<1> QED
  BY <1>1, <1>2, <1>3, CouponsTypeCorrect, PTL DEF Spec

-----------------------------------------------------------------------------
(* A spent reward survives the cancellation of the order it was for.       *)

\* The halves of a cancel hook belong to one request; where a reward was spent
\* between them, the ghost says so.
SpentInv ==
  \A r \in Updates : cancel[r] # "unread" =>
    /\ up[r].pc = "hook" /\ up[r].to = "CANCELED"
    /\ cancel[r] = "AVAILABLE" /\ reward[up[r].order].status = "USED" => up[r].order \in raced

\* SpentInv is inductive.
LEMMA SpentInvHolds == Spec => []SpentInv
<1>1. Init => SpentInv
  BY DEF Init, SpentInv
<1>2. CouponsTypeOK /\ SpentInv /\ [Next]_vars => SpentInv'
  <2> SUFFICES ASSUME CouponsTypeOK, SpentInv, [Next]_vars PROVE SpentInv'
    OBVIOUS
  <2> USE DEF CouponsTypeOK, UpdatesTypeOK
  <2>1. CASE UNCHANGED <<up, reward, cancel, raced>>
    BY <2>1 DEF SpentInv
  <2>2. ASSUME NEW c \in Coupons, NEW active \in BOOLEAN, NEW max \in 1..MaxUsesLimit,
               CreatePromotionalCoupon(c, active, max) \/ UpdatePromotionalCoupon(c, active, max)
        PROVE  UNCHANGED <<up, reward, cancel, raced>>
    BY <2>2 DEF CreatePromotionalCoupon, UpdatePromotionalCoupon, updateVars
  <2>3. ASSUME NEW k \in Carts,
               \/ \E u \in Users : \E coupon \in ValidCoupons(u) : Draft(k, u, coupon)
               \/ TxRead(k) \/ FailCreate(k)
        PROVE  UNCHANGED <<up, reward, cancel, raced>>
    BY <2>3 DEF Draft, TxRead, FailCreate, updateVars
  <2>4. ASSUME NEW k \in Carts, NEW o \in Orders, TxCommit(k, o) PROVE SpentInv'
    <3> DEFINE x == cart[k].coupon
    <3>1. UNCHANGED <<up, cancel>> /\ raced \subseteq raced'
      BY <2>4 DEF TxCommit, CreateOrder
    <3>2. IF x.type # "REFERRAL_REWARD" THEN UNCHANGED reward
          ELSE reward' = [reward EXCEPT ![x.ref] = UsedBy(o)]
      BY <2>4 DEF TxCommit, SpendReward
    <3>3. x \in Coupon
      BY <2>4, CartIsTyped DEF TxCommit, EmptyCart
    <3>4. \A p \in Orders : /\ reward'[p] = reward[p] \/ x = Reward(p)
                            /\ x = Reward(p) /\ (\E r \in Updates : up[r].order = p /\ cancel[r] = "AVAILABLE")
                                 => p \in raced'
      BY <2>4, <3>2, <3>3, CouponKinds DEF TxCommit
    <3>5. \A r \in Updates : cancel[r] # "unread" => up[r].order \in Orders
      BY ServingIsTyped DEF SpentInv, Serving
    <3> HIDE DEF x
    <3> QED
      BY <3>1, <3>4, <3>5 DEF SpentInv
  <2>5. ASSUME NEW r \in Updates, Read(r) \/ Commit(r) \/ Abort(r) PROVE SpentInv'
    <3>1. UNCHANGED <<reward, cancel, raced>>
      BY <2>5 DEF Read, Commit, Abort, couponVars
    <3>2. up[r].pc # "hook" /\ \A q \in Updates : q # r => up'[q] = up[q]
      BY <2>5 DEF Read, Start, ReadForUpdate, Commit, CommitUpdate, Abort, AbortUpdate
    <3> QED
      BY <3>1, <3>2 DEF SpentInv
  <2>6. ASSUME NEW r \in Updates, Hook(r) \/ HookFails(r) PROVE SpentInv'
    <3>1. raced' = raced /\ \A q \in Updates : q # r => up'[q] = up[q] /\ cancel'[q] = cancel[q]
      BY <2>6 DEF Hook, HookFails, AcceptHook, CancelRead, CancelNothing, CancelDelete,
                  CancelRollsBack, OtherHook, EndUpdate, couponVars, updateVars
    <3>2. \A p \in Orders : reward'[p] = reward[p] \/ reward'[p].status # "USED"
      BY <2>6 DEF Hook, HookFails, AcceptHook, CancelRead, CancelNothing, CancelDelete,
                  CancelRollsBack, OtherHook, couponVars, Available, NoReward
    <3>3. \A q \in Updates : cancel[q] # "unread" => up[q].order \in Orders
      BY ServingIsTyped DEF SpentInv, Serving
    <3>4. cancel'[r] # "unread" =>
            /\ up'[r] = up[r] /\ up[r].pc = "hook" /\ up[r].to = "CANCELED"
            /\ reward' = reward /\ reward[up[r].order].status # "USED"
      BY <2>6 DEF Hook, HookFails, AcceptHook, CancelRead, CancelNothing, CancelDelete,
                  CancelRollsBack, OtherHook, EndUpdate, couponVars, updateVars, SpentInv
    <3> HIDE DEF CouponsTypeOK, UpdatesTypeOK
    <3> QED
      BY <3>1, <3>2, <3>3, <3>4 DEF SpentInv
  <2>7. UNCHANGED vars => UNCHANGED <<up, reward, cancel, raced>>
    BY DEF vars, couponVars, updateVars
  <2> QED
    BY <2>1, <2>2, <2>3, <2>4, <2>5, <2>6, <2>7 DEF Next
<1> QED
  BY <1>1, <1>2, CouponsTypeCorrect, PTL DEF Spec

\* No step changes or deletes a reward that has been spent, unless it was spent
\* after a cancel hook had read it as available.
THEOREM SpentRewardSurvivesHolds == Spec => SpentRewardSurvives
<1> DEFINE Survives == \A o \in Orders :
                         reward[o].status = "USED" /\ reward'[o] # reward[o] => o \in raced
<1>1. CouponsTypeOK /\ RewardInv /\ SpentInv /\ [Next]_vars => [Survives]_vars
  <2> SUFFICES ASSUME CouponsTypeOK, RewardInv, SpentInv, Next,
                      NEW o \in Orders, reward[o].status = "USED", reward'[o] # reward[o]
               PROVE  o \in raced
    OBVIOUS
  <2> USE DEF CouponsTypeOK, UpdatesTypeOK
  <2>1. ASSUME NEW k \in Carts, NEW p \in Orders, TxCommit(k, p) PROVE FALSE
    <3>1. reward'[o] = reward[o] \/ reward[o] = Available
      BY <2>1 DEF TxCommit, SpendReward, RewardValid
    <3> QED
      BY <3>1 DEF Available
  <2>2. ASSUME NEW r \in Updates, AcceptHook(r) PROVE FALSE
    <3>1. usage[o] = "PENDING_CONFIRMATION"
      BY <2>2 DEF AcceptHook
    <3>2. reward[o] # NoReward
      BY DEF NoReward
    <3>3. usage[o] = "CONFIRMED"
      BY <3>2 DEF RewardInv, RewardBacked
    <3> QED
      BY <3>1, <3>3
  <2>3. ASSUME NEW r \in Updates, CancelDelete(r) PROVE o \in raced
    <3>1. o = up[r].order /\ cancel[r] # "unread" /\ CanDelete(r)
      BY <2>3 DEF CancelDelete
    <3>2. cancel[r] = "AVAILABLE"
      BY <3>1 DEF CanDelete, NoReward
    <3> QED
      BY <3>1, <3>2 DEF SpentInv
  <2>4. CASE UNCHANGED reward
    BY <2>4
  <2>5. \/ UNCHANGED reward
        \/ \E k \in Carts, p \in Orders : TxCommit(k, p)
        \/ \E r \in Updates : AcceptHook(r) \/ CancelDelete(r)
    BY DEF Next, Hook, CreatePromotionalCoupon, UpdatePromotionalCoupon, Draft, TxRead, FailCreate,
           Read, Commit, Abort, HookFails, CancelRead, CancelNothing, CancelRollsBack, OtherHook,
           couponVars
  <2> QED
    BY <2>1, <2>2, <2>3, <2>4, <2>5
<1> QED
  BY <1>1, CouponsTypeCorrect, RewardInvHolds, SpentInvHolds, PTL DEF Spec, SpentRewardSurvives

-----------------------------------------------------------------------------
(* Referrals are settled.                                                  *)

\* How a referral stands once the hook of status s has run.
Settled(o, s) ==
  CASE s = "PENDING"  -> usage[o] = "PENDING_CONFIRMATION"
    [] s = "CANCELED" -> usage[o] = "none" \/ reward[o].status = "USED"
    [] OTHER          -> /\ usage[o] = "CONFIRMED"
                         /\ RewardEnabled => reward[o] # NoReward

\* The hook of request r is to bring the referral of its order from the status the
\* request read to the one it set; if it has read the reward, it read what is there.
HookPending(r) ==
  LET o == up[r].order
  IN  /\ Settled(o, up[r].from)
      /\ up[r].to = status[o]
      /\ up[r].to \in ORDER_STATUS_FLOW[up[r].from]
      /\ cancel[r] # "unread" => (cancel[r] = "AVAILABLE" <=> reward[o] # NoReward)

\* The referral of an order agrees with its status, or the one request at work has
\* changed that and its hook is still to follow.
OrderSettled(o) ==
  /\ (\A r \in Updates : up[r].pc = "hook" => up[r].order # o) => Settled(o, status[o])
  /\ \A r \in Updates : up[r].pc = "hook" /\ up[r].order = o => HookPending(r)

SettledInv ==
  \A o \in Orders \ (overlapped \union dropped) :
    couponOf[o].type = "REFERRAL" => OrderSettled(o)

\* An order that a step is not about.
LEMMA UntouchedSettled ==
  ASSUME NEW o, OrderSettled(o),
         status'[o] = status[o], usage'[o] = usage[o],
         reward'[o] = reward[o] \/ (reward[o] = Available /\ reward'[o].status = "USED"),
         \A r \in Updates : (up[r].pc = "hook" /\ up[r].order = o) \/ (up'[r].pc = "hook" /\ up'[r].order = o)
                              => up'[r] = up[r] /\ cancel'[r] = cancel[r]
  PROVE  OrderSettled(o)'
<1>1. \A s : Settled(o, s) => Settled(o, s)'
  BY DEF Settled, Available, NoReward
<1>2. reward'[o] # NoReward <=> reward[o] # NoReward
  BY DEF Available, NoReward
<1> QED
  BY <1>1, <1>2 DEF OrderSettled, HookPending

\* A checkout places its order with its referral pending, and may spend a reward.
LEMMA CheckoutKeepsSettled ==
  ASSUME CouponsTypeOK, Grounded, CommittedStays, SettledInv, NEW k \in Carts, NEW o \in Orders,
         TxCommit(k, o)
  PROVE  SettledInv'
<1> DEFINE x == cart[k].coupon
<1>1. /\ UNCHANGED <<up, cancel, overlapped, dropped>>
      /\ couponOf' = [couponOf EXCEPT ![o] = x]
      /\ status' = [status EXCEPT ![o] = "PENDING"]
      /\ ~Placed(o)
  BY DEF TxCommit, CreateOrder
<1>2. IF x.type # "REFERRAL" THEN UNCHANGED usage
      ELSE usage' = [usage EXCEPT ![o] = "PENDING_CONFIRMATION"]
  BY DEF TxCommit, UseReferral
<1>3. \A p \in Orders : \/ reward'[p] = reward[p]
                        \/ reward[p] = Available /\ reward'[p].status = "USED"
  <2>1. IF x.type # "REFERRAL_REWARD" THEN UNCHANGED reward
        ELSE reward[x.ref] = Available /\ reward' = [reward EXCEPT ![x.ref] = UsedBy(o)]
    BY DEF TxCommit, SpendReward, RewardValid
  <2> HIDE DEF x
  <2> QED
    BY <2>1 DEF CouponsTypeOK, UsedBy
<1> HIDE DEF x
<1>4. \A r \in Updates : up[r].pc = "hook" => up[r].order # o
  BY <1>1 DEF CommittedStays, Grounded
<1>5. couponOf'[o].type = "REFERRAL" => OrderSettled(o)'
  <2>1. couponOf'[o] = x /\ status'[o] = "PENDING"
    BY <1>1 DEF CouponsTypeOK, UpdatesTypeOK
  <2>2. x.type = "REFERRAL" => usage'[o] = "PENDING_CONFIRMATION"
    BY <1>2 DEF CouponsTypeOK
  <2> QED
    BY <1>1, <1>4, <2>1, <2>2 DEF OrderSettled, Settled
<1>6. ASSUME NEW p \in Orders \ (overlapped' \union dropped'), p # o,
             couponOf'[p].type = "REFERRAL"
      PROVE  OrderSettled(p)'
  <2>1. couponOf'[p] = couponOf[p] /\ status'[p] = status[p] /\ usage'[p] = usage[p]
    BY <1>1, <1>2, <1>6 DEF CouponsTypeOK, UpdatesTypeOK
  <2>2. OrderSettled(p)
    BY <1>1, <1>6, <2>1 DEF SettledInv
  <2> QED
    BY <1>1, <1>3, <2>1, <2>2, UntouchedSettled
<1> QED
  BY <1>5, <1>6 DEF SettledInv

\* A request changes the order; the referral agrees with the status it has read.
LEMMA CommitKeepsSettled ==
  ASSUME CouponsTypeOK, Grounded, Undisturbed, SpentInv, SettledInv, NEW r \in Updates, Commit(r)
  PROVE  SettledInv'
<1> DEFINE o == up[r].order
<1>1. /\ up[r] \in Serving /\ up[r].pc = "read" /\ cancel[r] = "unread"
      /\ UNCHANGED <<usage, reward, couponOf, cancel, overlapped, dropped>>
  BY ServingIsTyped DEF Commit, CommitUpdate, couponVars, CouponsTypeOK, SpentInv
<1>2. /\ o \in Orders
      /\ up'[r].order = o /\ up'[r].from = up[r].from /\ up'[r].to = up[r].to
      /\ status'[o] = up[r].to
      /\ \A q \in Updates : q # r => up'[q] = up[q]
      /\ \A p \in Orders : p # o => status'[p] = status[p]
  BY <1>1 DEF Commit, CommitUpdate, Serving, CouponsTypeOK, UpdatesTypeOK
<1>3. up[r].to \in ORDER_STATUS_FLOW[up[r].from]
  BY <1>1 DEF Grounded
<1> HIDE DEF o
<1>4. ASSUME NEW p \in Orders \ (overlapped' \union dropped'), couponOf'[p].type = "REFERRAL"
      PROVE  OrderSettled(p)'
  <2>1. OrderSettled(p)
    BY <1>1, <1>4 DEF SettledInv
  <2>2. CASE p = o
    <3>1. /\ up[r].from = status[o]
          /\ \A q \in Updates : up[q].pc = "hook" => up[q].order # o
      BY <1>1, <1>4, <2>2 DEF Undisturbed, o
    <3>2. Settled(o, up[r].from)
      BY <2>1, <2>2, <3>1 DEF OrderSettled
    <3>3. HookPending(r)'
      BY <1>1, <1>2, <1>3, <3>2 DEF HookPending, Settled
    <3>4. \A q \in Updates : up'[q].pc = "hook" /\ up'[q].order = o => q = r
      BY <1>2, <3>1
    <3>5. up'[r].pc = "hook"
      BY <1>1 DEF Commit, CommitUpdate, CouponsTypeOK, UpdatesTypeOK
    <3> QED
      BY <1>2, <2>2, <3>3, <3>4, <3>5 DEF OrderSettled
  <2>3. CASE p # o
    <3>1. \A q \in Updates : (up[q].pc = "hook" /\ up[q].order = p) \/ (up'[q].pc = "hook" /\ up'[q].order = p)
                               => up'[q] = up[q] /\ cancel'[q] = cancel[q]
      BY <1>1, <1>2, <2>3
    <3> QED
      BY <1>1, <1>2, <2>1, <2>3, <3>1, UntouchedSettled
  <2> QED
    BY <2>2, <2>3
<1> QED
  BY <1>4 DEF SettledInv

\* What a hook leaves behind: the referral its order should have, or one half of
\* the cancellation done, or a failure on record.
LEMMA HookSettles ==
  ASSUME CouponsTypeOK, SpentInv, NEW r \in Updates, Hook(r), up[r] \in Serving, HookPending(r),
         NEW o \in Orders, up[r].order = o
  PROVE  \/ UNCHANGED updateVars /\ HookPending(r)'
         \/ EndUpdate(r) /\ Settled(o, status[o])'
<1>0. /\ up[r].from \in OrderStatus
      /\ up[r].to = status[o] /\ up[r].to \in ORDER_STATUS_FLOW[up[r].from]
      /\ Settled(o, up[r].from)
      /\ cancel[r] # "unread" => (cancel[r] = "AVAILABLE" <=> reward[o] # NoReward)
      /\ reward[o] \in {NoReward, Available} \union {UsedBy(p) : p \in Orders}
  BY DEF Serving, HookPending, CouponsTypeOK
<1>1. CASE AcceptHook(r)
  <2>1. up[r].to = "ACCEPTED" /\ up[r].from = "PENDING" /\ EndUpdate(r)
    BY <1>0, <1>1 DEF AcceptHook, ORDER_STATUS_FLOW, OrderStatus
  <2>2. usage[o] = "PENDING_CONFIRMATION"
    BY <1>0, <2>1 DEF Settled
  <2>3. usage'[o] = "CONFIRMED" /\ (RewardEnabled => reward'[o] = Available)
    BY <1>0, <1>1, <2>2 DEF AcceptHook, CouponsTypeOK
  <2>4. status'[o] = "ACCEPTED" /\ Available # NoReward
    BY <1>0, <2>1 DEF EndUpdate, Available, NoReward
  <2>5. Settled(o, status[o])'
    BY <2>1, <2>3, <2>4 DEF Settled, EndUpdate
  <2> QED
    BY <2>1, <2>5
<1>2. CASE CancelRead(r)
  <2>1. /\ UNCHANGED <<status, up, usage, reward>> /\ UNCHANGED updateVars
        /\ cancel'[r] = reward[o].status
        /\ reward[o].status # "USED"
    BY <1>2 DEF CancelRead, updateVars, CouponsTypeOK
  <2>2. cancel'[r] = "AVAILABLE" <=> reward'[o] # NoReward
    BY <1>0, <2>1 DEF NoReward, Available, UsedBy
  <2> QED
    BY <1>0, <2>1, <2>2 DEF HookPending, Settled
<1>3. CASE CancelNothing(r)
  <2>1. /\ EndUpdate(r)
        /\ status'[o] = "CANCELED"
        /\ usage'[o] = "none" \/ reward'[o].status = "USED"
    BY <1>0, <1>3 DEF CancelNothing, EndUpdate, couponVars
  <2> QED
    BY <2>1, <1>3 DEF Settled, CancelNothing, EndUpdate
<1>4. CASE CancelDelete(r) \/ CancelRollsBack(r)
  <2>1. /\ EndUpdate(r) /\ status' = status
        /\ up[r].to = "CANCELED"
    BY <1>4 DEF CancelDelete, CancelRollsBack, EndUpdate, SpentInv
  <2>2. usage'[o] = "none"
    BY <1>0, <1>4 DEF CancelDelete, CancelRollsBack, CanDelete, CouponsTypeOK
  <2> QED
    BY <1>0, <2>1, <2>2 DEF Settled
<1>5. CASE OtherHook(r)
  <2>1. EndUpdate(r) /\ UNCHANGED <<status, usage, reward>> /\ up[r].to \notin {"ACCEPTED", "CANCELED"}
    BY <1>5 DEF OtherHook, EndUpdate, couponVars
  <2>2. {up[r].from, up[r].to} \intersect {"PENDING", "CANCELED"} = {}
    BY <1>0, <2>1 DEF ORDER_STATUS_FLOW, OrderStatus
  <2> QED
    BY <1>0, <2>1, <2>2 DEF Settled
<1> QED
  BY <1>1, <1>2, <1>3, <1>4, <1>5 DEF Hook

\* A step of a hook, or its failure, keeps every referral settled.
LEMMA HookKeepsSettled ==
  ASSUME CouponsTypeOK, Undisturbed, SpentInv, SettledInv, NEW r \in Updates, Hook(r) \/ HookFails(r)
  PROVE  SettledInv'
<1>0. up[r].pc = "hook" /\ up[r] \in Serving
  <2>1. up[r].pc = "hook"
    BY DEF Hook, HookFails, AcceptHook, CancelRead, CancelNothing, CancelDelete, CancelRollsBack,
           OtherHook, EndUpdate
  <2> QED
    BY <2>1, ServingIsTyped DEF CouponsTypeOK
<1>1. PICK o \in Orders : o = up[r].order
  BY <1>0 DEF Serving
<1>2. /\ \A q \in Updates : q # r => up'[q] = up[q] /\ cancel'[q] = cancel[q]
      /\ up'[r] = up[r] \/ up'[r].pc = "idle"
      /\ status' = status /\ overlapped' = overlapped /\ dropped \subseteq dropped'
  BY DEF Hook, HookFails, AcceptHook, CancelRead, CancelNothing, CancelDelete, CancelRollsBack,
         OtherHook, EndUpdate, Idle, couponVars, updateVars, CouponsTypeOK, UpdatesTypeOK
<1>3. /\ \A p \in Orders : couponOf'[p].type = couponOf[p].type
      /\ \A p \in Orders : p # o => usage'[p] = usage[p] /\ reward'[p] = reward[p]
  BY <1>1 DEF Hook, HookFails, AcceptHook, CancelRead, CancelNothing, CancelDelete, CancelRollsBack,
              OtherHook, CouponsTypeOK, couponVars, Reward
<1>4. ASSUME NEW p \in Orders \ (overlapped' \union dropped'), couponOf'[p].type = "REFERRAL"
      PROVE  OrderSettled(p)'
  <2>1. OrderSettled(p)
    BY <1>2, <1>3, <1>4 DEF SettledInv
  <2>2. CASE p # o
    <3>1. \A q \in Updates : (up[q].pc = "hook" /\ up[q].order = p) \/ (up'[q].pc = "hook" /\ up'[q].order = p)
                               => up'[q] = up[q] /\ cancel'[q] = cancel[q]
      BY <1>0, <1>1, <1>2, <2>2
    <3> QED
      BY <1>2, <1>3, <2>1, <2>2, <3>1, UntouchedSettled
  <2>3. CASE p = o /\ Hook(r)
    <3>1. HookPending(r)
      BY <1>0, <1>1, <2>1, <2>3 DEF OrderSettled
    <3>2. \A q \in Updates : up[q].pc = "hook" /\ up[q].order = o => q = r
      BY <1>0, <1>1, <1>2, <1>4, <2>3 DEF Undisturbed
    <3>3. CASE UNCHANGED updateVars /\ HookPending(r)'
      <4>1. up' = up
        BY <3>3 DEF updateVars
      <4> QED
        BY <1>0, <1>1, <2>3, <3>2, <3>3, <4>1 DEF OrderSettled
    <3>4. CASE EndUpdate(r) /\ Settled(o, status[o])'
      <4>1. \A q \in Updates : up'[q].pc = "hook" => up'[q].order # o
        <5>1. up'[r].pc = "idle"
          BY <3>4 DEF EndUpdate, Idle, CouponsTypeOK, UpdatesTypeOK
        <5> QED
          BY <1>2, <3>2, <5>1
      <4> QED
        BY <2>3, <3>4, <4>1 DEF OrderSettled
    <3> QED
      BY <1>0, <1>1, <2>3, <3>1, <3>3, <3>4, HookSettles
  <2>4. CASE p = o /\ HookFails(r)
    BY <1>1, <1>4, <2>4 DEF HookFails
  <2> QED
    BY <2>2, <2>3, <2>4
<1> QED
  BY <1>4 DEF SettledInv

\* Once the requests of a referred order have ended, its referral is settled, unless
\* they overlapped or one of its hooks failed.
THEOREM ReferralSettledHolds == Spec => []ReferralSettled
<1> DEFINE settledVars == <<status, up, overlapped, couponOf, usage, reward, cancel, dropped>>
<1>1. Init => SettledInv
  BY DEF Init, SettledInv, NoCoupon
<1>2. /\ CouponsTypeOK /\ Grounded /\ CommittedStays /\ Undisturbed /\ SpentInv /\ SettledInv
      /\ [Next]_vars
      => SettledInv'
  <2> SUFFICES ASSUME CouponsTypeOK, Grounded, CommittedStays, Undisturbed, SpentInv, SettledInv,
                      [Next]_vars
               PROVE  SettledInv'
    OBVIOUS
  <2>1. CASE UNCHANGED settledVars
    BY <2>1 DEF SettledInv, OrderSettled, HookPending, Settled
  <2>2. ASSUME NEW c \in Coupons, NEW active \in BOOLEAN, NEW max \in 1..MaxUsesLimit,
               CreatePromotionalCoupon(c, active, max) \/ UpdatePromotionalCoupon(c, active, max)
        PROVE  UNCHANGED settledVars
    BY <2>2 DEF CreatePromotionalCoupon, UpdatePromotionalCoupon, updateVars
  <2>3. ASSUME NEW k \in Carts,
               \/ \E u \in Users : \E coupon \in ValidCoupons(u) : Draft(k, u, coupon)
               \/ TxRead(k) \/ FailCreate(k)
        PROVE  UNCHANGED settledVars
    BY <2>3 DEF Draft, TxRead, FailCreate, updateVars
  <2>4. ASSUME NEW r \in Updates, Read(r) \/ Abort(r) PROVE SettledInv'
    <3>1. /\ UNCHANGED <<status, couponOf, usage, reward, cancel, dropped>>
          /\ overlapped \subseteq overlapped'
          /\ \A q \in Updates : up[q].pc = "hook" \/ up'[q].pc = "hook" => up'[q] = up[q]
      BY <2>4 DEF Read, Start, ReadForUpdate, Abort, AbortUpdate, Idle, couponVars, CouponsTypeOK,
                  UpdatesTypeOK
    <3>2. \A p \in Orders : OrderSettled(p) => OrderSettled(p)'
      BY <3>1, UntouchedSettled
    <3> QED
      BY <3>1, <3>2 DEF SettledInv
  <2>5. UNCHANGED vars => UNCHANGED settledVars
    BY DEF vars, couponVars, updateVars
  <2> HIDE DEF settledVars
  <2> QED
    BY <2>1, <2>2, <2>3, <2>4, <2>5, CheckoutKeepsSettled, CommitKeepsSettled, HookKeepsSettled
       DEF Next
<1>3. SettledInv => ReferralSettled
  BY DEF SettledInv, OrderSettled, Settled, ReferralSettled, Quiet, InFlight
<1>4. Spec => [](Grounded /\ CommittedStays /\ Undisturbed)
  BY CouponsRefineUpdates, GroundedHolds, CommittedStaysHolds, UndisturbedHolds, PTL
<1> QED
  BY <1>1, <1>2, <1>3, <1>4, CouponsTypeCorrect, SpentInvHolds, PTL DEF Spec

-----------------------------------------------------------------------------
(* The order requests of OrderNotifications are those of OrderUpdates.     *)

\* Notifying moves orders only by the steps of OrderUpdates.
THEOREM NotificationsRefineUpdates == NotifySpec => UpdatesSpec
<1>1. NotifyInit => UpdatesInit
  BY DEF NotifyInit
<1>2. [NotifyNext]_toldVars => [UpdatesNext]_updateVars
  <2> SUFFICES ASSUME [NotifyNext]_toldVars PROVE UpdatesNext \/ UNCHANGED updateVars
    OBVIOUS
  <2>1. ASSUME NEW o \in Orders, Create(o) PROVE UpdatesNext
    BY <2>1 DEF Create, UpdatesNext
  <2>2. ASSUME NEW o \in Orders, Announce(o) \/ AnnounceFails(o) PROVE UNCHANGED updateVars
    BY <2>2 DEF Announce, AnnounceFails
  <2>3. ASSUME NEW r \in Updates,
               NotifyRead(r) \/ NotifyCommit(r) \/ NotifyAbort(r) \/ Publish(r) \/ NotifyFails(r)
        PROVE  UpdatesNext
    BY <2>3 DEF NotifyRead, NotifyCommit, NotifyAbort, Publish, NotifyFails, UpdatesNext
  <2>4. ASSUME NEW r \in Updates, FetchForPush(r) \/ SendPush(r) \/ SkipPush(r)
        PROVE  UNCHANGED updateVars
    BY <2>4 DEF FetchForPush, SendPush, SkipPush
  <2>5. CASE UNCHANGED toldVars
    BY <2>5 DEF toldVars
  <2> QED
    BY <2>1, <2>2, <2>3, <2>4, <2>5 DEF NotifyNext
<1> QED
  BY <1>1, <1>2, PTL DEF NotifySpec, UpdatesSpec

-----------------------------------------------------------------------------
(* Type correctness of notifications.                                      *)

\* What a slot may hold of a notification job.
Jobs == [stage : {"none", "fetch", "push", "publish"}, seen : OrderStatus \union {Absent}]

\* A request in flight works on an existing order, and what it is to write is a
\* status.
LEMMA InFlightIsTyped ==
  ASSUME UpdatesTypeOK, NEW r \in Updates, up[r].pc # "idle"
  PROVE  up[r].order \in Orders /\ up[r].to \in OrderStatus
BY ServingIsTyped DEF Serving

\* Jobs are pending exactly in the slots whose request has committed.
JobsOK ==
  \A r \in Updates :
    /\ job[r].stage # "none" <=> up[r].pc = "hook"
    /\ job[r].stage = "push" => job[r].seen \in OrderStatus

\* Every reachable state is well typed.
THEOREM NotifyTypeCorrect == NotifySpec => [](NotifyTypeOK /\ JobsOK)
<1>1. NotifyInit /\ UpdatesTypeOK => NotifyTypeOK /\ JobsOK
  BY DEF NotifyInit, UpdatesInit, NotifyTypeOK, JobsOK, NoJob, Idle
<1>2. NotifyTypeOK /\ JobsOK /\ Grounded /\ CommittedStays /\ [NotifyNext]_toldVars /\ UpdatesTypeOK'
        => (NotifyTypeOK /\ JobsOK)'
  <2> SUFFICES ASSUME NotifyTypeOK, JobsOK, Grounded, CommittedStays, [NotifyNext]_toldVars,
                      UpdatesTypeOK'
               PROVE  NotifyTypeOK' /\ JobsOK'
    OBVIOUS
  <2> USE DEF NotifyTypeOK
  <2>1. ASSUME NEW o \in Orders, Create(o) \/ Announce(o) \/ AnnounceFails(o)
        PROVE  NotifyTypeOK' /\ JobsOK'
    BY <2>1 DEF Create, CreateOrder, Announce, AnnounceFails, updateVars, OrderStatus, JobsOK
  <2>2. ASSUME NEW r \in Updates, NotifyRead(r) PROVE NotifyTypeOK' /\ JobsOK'
    <3>1. PICK a \in Actors, o \in Orders, s \in Targets : ReadForUpdate(r, a, o, s)
      BY <2>2 DEF NotifyRead, Start
    <3>2. /\ up[r].pc = "idle"
          /\ up'[r].pc = "read" /\ up'[r].order = o
          /\ \A q \in Updates : q # r => up'[q] = up[q]
      BY <3>1 DEF ReadForUpdate, UpdatesTypeOK
    <3>3. muddled' \subseteq Orders
      BY <2>2, <3>2 DEF NotifyRead
    <3> QED
      BY <2>2, <3>2, <3>3 DEF NotifyRead, JobsOK
  <2>3. ASSUME NEW r \in Updates, NotifyCommit(r) PROVE NotifyTypeOK' /\ JobsOK'
    <3>1. /\ up'[r].pc = "hook"
          /\ \A q \in Updates : q # r => up'[q] = up[q]
      BY <2>3, ServingIsTyped DEF NotifyCommit, CommitUpdate, UpdatesTypeOK, Serving
    <3>2. /\ job'[r] = [stage |-> "fetch", seen |-> Absent]
          /\ \A q \in Updates : q # r => job'[q] = job[q]
          /\ job' \in [Updates -> Jobs]
      BY <2>3 DEF NotifyCommit, Jobs
    <3>3. news' \in [Orders -> SUBSET OrderStatus]
      BY <2>3 DEF NotifyCommit
    <3>4. JobsOK'
      BY <3>1, <3>2 DEF JobsOK
    <3> QED
      BY <2>3, <3>2, <3>3, <3>4 DEF NotifyCommit, Jobs
  <2>4. ASSUME NEW r \in Updates, NotifyAbort(r) PROVE NotifyTypeOK' /\ JobsOK'
    BY <2>4 DEF NotifyAbort, AbortUpdate, notifyVars, JobsOK, UpdatesTypeOK, Idle
  <2>5. ASSUME NEW r \in Updates, FetchForPush(r) PROVE NotifyTypeOK' /\ JobsOK'
    <3>1. up[r].pc = "hook" /\ up[r].order \in Orders
      BY <2>5, InFlightIsTyped DEF FetchForPush, JobsOK
    <3>2. PICK s \in OrderStatus \union {Absent} :
            s = status[up[r].order] /\ job' = [job EXCEPT ![r] = [stage |-> "push", seen |-> s]]
      BY <2>5, <3>1 DEF FetchForPush, UpdatesTypeOK
    <3>3. s \in OrderStatus
      BY <3>1, <3>2 DEF CommittedStays, Grounded, Placed
    <3>4. /\ job'[r] = [stage |-> "push", seen |-> s]
          /\ \A q \in Updates : q # r => job'[q] = job[q]
          /\ job' \in [Updates -> Jobs]
      BY <3>2 DEF Jobs
    <3>5. UNCHANGED <<updateVars, announced, phone, panel, news, lost, muddled>>
      BY <2>5 DEF FetchForPush
    <3>6. JobsOK'
      BY <3>1, <3>3, <3>4, <3>5 DEF JobsOK, updateVars
    <3> QED
      BY <3>4, <3>5, <3>6 DEF Jobs
  <2>6. ASSUME NEW r \in Updates, SendPush(r) \/ SkipPush(r) PROVE NotifyTypeOK' /\ JobsOK'
    <3>1. /\ up[r].pc = "hook" /\ up[r].order \in Orders
          /\ job[r].stage = "push" /\ job[r].seen \in OrderStatus
      BY <2>6, InFlightIsTyped DEF SendPush, SkipPush, JobsOK
    <3>2. job' = [job EXCEPT ![r].stage = "publish"] /\ updateVars' = updateVars
      BY <2>6 DEF SendPush, SkipPush
    <3>3. /\ job'[r].stage = "publish"
          /\ \A q \in Updates : q # r => job'[q] = job[q]
          /\ job' \in [Updates -> Jobs]
      BY <3>2 DEF Jobs
    <3>4. JobsOK'
      BY <3>1, <3>2, <3>3 DEF JobsOK, updateVars
    <3>5. /\ phone' \in [Orders -> OrderStatus \union {Absent}]
          /\ news' \in [Orders -> SUBSET OrderStatus]
          /\ lost' \subseteq Orders
          /\ UNCHANGED <<announced, panel, muddled>>
      BY <2>6, <3>1 DEF SendPush, SkipPush
    <3> QED
      BY <3>3, <3>4, <3>5 DEF Jobs
  <2>7. ASSUME NEW r \in Updates, Publish(r) \/ NotifyFails(r) PROVE NotifyTypeOK' /\ JobsOK'
    <3>1. up[r].order \in Orders /\ up[r].to \in OrderStatus
      BY <2>7, InFlightIsTyped DEF Publish, NotifyFails, EndUpdate
    <3>2. up' = [up EXCEPT ![r] = Idle] /\ job' = [job EXCEPT ![r] = NoJob]
      BY <2>7 DEF Publish, NotifyFails, EndUpdate
    <3>3. JobsOK'
      BY <3>2 DEF JobsOK, UpdatesTypeOK, Idle, NoJob
    <3>4. /\ panel' \in [Orders -> OrderStatus \union {Absent}]
          /\ lost' \subseteq Orders
          /\ UNCHANGED <<announced, phone, news, muddled>>
      BY <2>7, <3>1 DEF Publish, NotifyFails
    <3> QED
      BY <3>2, <3>3, <3>4 DEF NoJob
  <2>8. CASE UNCHANGED toldVars
    BY <2>8 DEF toldVars, updateVars, notifyVars, JobsOK
  <2> QED
    BY <2>1, <2>2, <2>3, <2>4, <2>5, <2>6, <2>7, <2>8 DEF NotifyNext
<1>3. NotifySpec => [](UpdatesTypeOK /\ Grounded /\ CommittedStays)
  BY NotificationsRefineUpdates, UpdatesTypeCorrect, GroundedHolds, CommittedStaysHolds, PTL
<1> QED
  BY <1>1, <1>2, <1>3, PTL DEF NotifySpec

-----------------------------------------------------------------------------
(* The customer is told.                                                   *)

\* Inductive form of CustomerIsTold: the customer has been told the current
\* status since it last changed, or a request that has committed is still about
\* to tell it.
WillTell(r, o) ==
  /\ up[r].pc = "hook" /\ up[r].order = o
  /\ \/ job[r].stage = "fetch"
     \/ job[r].stage = "push" /\ job[r].seen = status[o]

ToldInv ==
  \A o \in Orders : Changed(o) /\ o \notin lost =>
    status[o] \in news[o] \/ \E r \in Updates : WillTell(r, o)

\* Unless a message is lost, an order at rest has its last status with the
\* customer, whatever requests raced for it.
THEOREM CustomerToldHolds == NotifySpec => []CustomerIsTold
<1>1. NotifyInit => ToldInv
  BY DEF NotifyInit, UpdatesInit, ToldInv, Changed
<1>2. NotifyTypeOK /\ JobsOK /\ ToldInv /\ [NotifyNext]_toldVars => ToldInv'
  <2> SUFFICES ASSUME NotifyTypeOK, JobsOK, ToldInv, [NotifyNext]_toldVars PROVE ToldInv'
    OBVIOUS
  <2> USE DEF NotifyTypeOK
  <2>1. ASSUME NEW o \in Orders, Create(o) PROVE ToldInv'
    <3>1. Len(history'[o]) = 1
      BY <2>1 DEF Create, CreateOrder, UpdatesTypeOK
    <3>2. \A p \in Orders : p # o => history'[p] = history[p] /\ status'[p] = status[p]
      BY <2>1 DEF Create, CreateOrder, UpdatesTypeOK
    <3>3. UNCHANGED <<up, job, news, lost>>
      BY <2>1 DEF Create, CreateOrder
    <3>4. ASSUME NEW p \in Orders, Len(history'[p]) > 1, p \notin lost'
          PROVE  status'[p] \in news'[p] \/ \E q \in Updates : WillTell(q, p)'
      <4>0. ~(1 > 1)
        OBVIOUS
      <4>1. p # o /\ Len(history[p]) > 1 /\ p \notin lost
        <5>1. p # o
          BY <3>1, <3>4, <4>0
        <5> QED
          BY <3>2, <3>3, <3>4, <5>1
      <4>2. status[p] \in news[p] \/ \E q \in Updates : WillTell(q, p)
        BY <4>1 DEF ToldInv, Changed
      <4> QED
        BY <3>2, <3>3, <4>1, <4>2 DEF WillTell
    <3> QED
      BY <3>4 DEF ToldInv, Changed
  <2>2. ASSUME NEW o \in Orders, Announce(o) \/ AnnounceFails(o) PROVE ToldInv'
    <3>1. UNCHANGED <<history, status, up, job, news>> /\ lost \subseteq lost'
      BY <2>2 DEF Announce, AnnounceFails, updateVars
    <3> QED
      BY <3>1 DEF ToldInv, Changed, WillTell
  <2>3. ASSUME NEW r \in Updates, NotifyRead(r) \/ NotifyAbort(r) PROVE ToldInv'
    <3>1. \A q \in Updates : up[q].pc = "hook" => up'[q] = up[q]
      BY <2>3 DEF NotifyRead, Start, ReadForUpdate, NotifyAbort, AbortUpdate, UpdatesTypeOK
    <3>2. UNCHANGED <<history, status, job, news, lost>>
      BY <2>3 DEF NotifyRead, Start, ReadForUpdate, NotifyAbort, AbortUpdate, notifyVars
    <3> QED
      BY <3>1, <3>2 DEF ToldInv, Changed, WillTell
  <2>4. ASSUME NEW r \in Updates, NotifyCommit(r) PROVE ToldInv'
    <3>1. up[r] \in Serving
      BY <2>4, ServingIsTyped DEF NotifyCommit, CommitUpdate
    <3>2. PICK o \in Orders : o = up[r].order
      BY <3>1 DEF Serving
    <3>3. /\ up'[r].pc = "hook" /\ up'[r].order = o /\ job'[r].stage = "fetch"
          /\ \A q \in Updates : q # r => up'[q] = up[q] /\ job'[q] = job[q]
      BY <2>4, <3>1, <3>2 DEF NotifyCommit, CommitUpdate, UpdatesTypeOK, Serving
    <3>4. \A p \in Orders : p # o =>
            /\ history'[p] = history[p] /\ status'[p] = status[p] /\ news'[p] = news[p]
      BY <2>4, <3>2 DEF NotifyCommit, CommitUpdate, UpdatesTypeOK
    <3>5. lost' = lost /\ up[r].pc = "read"
      BY <2>4 DEF NotifyCommit, CommitUpdate
    <3>6. ASSUME NEW p \in Orders, p # o, Len(history'[p]) > 1, p \notin lost'
          PROVE  status'[p] \in news'[p] \/ \E q \in Updates : WillTell(q, p)'
      <4>1. status[p] \in news[p] \/ \E q \in Updates : WillTell(q, p)
        BY <3>4, <3>5, <3>6 DEF ToldInv, Changed
      <4>2. ASSUME NEW q \in Updates, WillTell(q, p) PROVE WillTell(q, p)'
        <5>1. q # r
          BY <3>5, <4>2 DEF WillTell
        <5> QED
          BY <3>3, <3>4, <3>6, <4>2, <5>1 DEF WillTell
      <4> QED
        BY <3>4, <3>6, <4>1, <4>2
    <3>7. WillTell(r, o)'
      BY <3>3 DEF WillTell
    <3> QED
      BY <3>6, <3>7 DEF ToldInv, Changed
  <2>5. ASSUME NEW r \in Updates, FetchForPush(r) PROVE ToldInv'
    <3>1. /\ job'[r] = [stage |-> "push", seen |-> status[up[r].order]]
          /\ \A q \in Updates : q # r => job'[q] = job[q]
          /\ UNCHANGED <<history, status, up, news, lost>>
      BY <2>5 DEF FetchForPush, updateVars
    <3> QED
      BY <3>1 DEF ToldInv, Changed, WillTell
  <2>6. ASSUME NEW r \in Updates, SendPush(r) \/ SkipPush(r) PROVE ToldInv'
    <3>1. /\ up[r].pc = "hook" /\ up[r].order \in Orders
          /\ job[r].stage = "push"
      BY <2>6, InFlightIsTyped DEF SendPush, SkipPush, JobsOK
    <3>2. /\ \A q \in Updates : q # r => job'[q] = job[q]
          /\ UNCHANGED <<history, status, up>>
          /\ lost \subseteq lost'
          /\ \A p \in Orders : news[p] \subseteq news'[p]
      BY <2>6 DEF SendPush, SkipPush, updateVars
    <3>3. up[r].order \in lost' \/ job[r].seen \in news'[up[r].order]
      BY <2>6, <3>1 DEF SendPush, SkipPush
    <3>4. ASSUME NEW p \in Orders, Len(history'[p]) > 1, p \notin lost'
          PROVE  status'[p] \in news'[p] \/ \E q \in Updates : WillTell(q, p)'
      <4>1. status[p] \in news[p] \/ \E q \in Updates : WillTell(q, p)
        BY <3>2, <3>4 DEF ToldInv, Changed
      <4>2. ASSUME NEW q \in Updates, WillTell(q, p), q # r PROVE WillTell(q, p)'
        BY <3>2, <4>2 DEF WillTell
      <4>3. ASSUME WillTell(r, p) PROVE status'[p] \in news'[p]
        BY <3>1, <3>2, <3>3, <3>4, <4>3 DEF WillTell
      <4>4. status[p] \in news[p] => status'[p] \in news'[p]
        BY <3>2
      <4> QED
        BY <4>1, <4>2, <4>3, <4>4
    <3> QED
      BY <3>4 DEF ToldInv, Changed
  <2>7. ASSUME NEW r \in Updates, Publish(r) \/ NotifyFails(r) PROVE ToldInv'
    <3>1. /\ \A q \in Updates : q # r => up'[q] = up[q] /\ job'[q] = job[q]
          /\ UNCHANGED <<history, status, news>>
          /\ lost \subseteq lost'
      BY <2>7 DEF Publish, NotifyFails, EndUpdate, UpdatesTypeOK
    <3>2. job[r].stage = "publish" \/ up[r].order \in lost'
      BY <2>7 DEF Publish, NotifyFails
    <3> QED
      BY <3>1, <3>2 DEF ToldInv, Changed, WillTell
  <2>8. CASE UNCHANGED toldVars
    BY <2>8 DEF toldVars, updateVars, notifyVars, ToldInv, Changed, WillTell
  <2> QED
    BY <2>1, <2>2, <2>3, <2>4, <2>5, <2>6, <2>7, <2>8 DEF NotifyNext
<1>3. ToldInv => CustomerIsTold
  BY DEF ToldInv, WillTell, CustomerIsTold, Quiet, InFlight
<1> QED
  BY <1>1, <1>2, <1>3, NotifyTypeCorrect, PTL DEF NotifySpec

-----------------------------------------------------------------------------
(* What is shown last.                                                     *)

Working(r, o) == up[r].pc # "idle" /\ up[r].order = o

\* The phone shows the status, or the request that changed it is still to push it;
\* what that one has read is the status, as no other can have changed it since.
PhoneIsRight(o) ==
  /\ \A r \in Updates : Working(r, o) /\ job[r].stage = "push" => job[r].seen = status[o]
  /\ Changed(o) => \/ phone[o] = status[o]
                   \/ \E r \in Updates : Working(r, o) /\ job[r].stage \in {"fetch", "push"}

\* One request at a time works on the order, its creation included; the panel shows
\* the status, or the request that changed it is still to publish it.
PanelIsRight(o) ==
  /\ \A q, r \in Updates : Working(q, o) /\ Working(r, o) => q = r
  /\ announced[o] = "due" => status[o] = "PENDING" /\ \A r \in Updates : ~Working(r, o)
  /\ \A r \in Updates : Working(r, o) /\ up[r].pc = "hook" => up[r].to = status[o]
  /\ announced[o] = "yes" => \/ panel[o] = status[o]
                             \/ \E r \in Updates : Working(r, o) /\ up[r].pc = "hook"

Shown(o) ==
  o \notin lost => /\ o \notin overlapped => PhoneIsRight(o)
                   /\ o \notin muddled => PanelIsRight(o)

ShownInv == \A o \in Orders : Shown(o)

\* An order that a step is not about.
Untouched(o) ==
  /\ status'[o] = status[o] /\ history'[o] = history[o]
  /\ phone'[o] = phone[o] /\ panel'[o] = panel[o] /\ announced'[o] = announced[o]
  /\ \A r \in Updates : Working(r, o) \/ Working(r, o)' => up'[r] = up[r] /\ job'[r] = job[r]

\* Such an order is shown as rightly as before.
LEMMA UntouchedShown ==
  ASSUME NEW o, Shown(o), Untouched(o),
         lost \subseteq lost', overlapped \subseteq overlapped', muddled \subseteq muddled'
  PROVE  Shown(o)'
<1>1. \A r \in Updates : /\ Working(r, o)' <=> Working(r, o)
                         /\ Working(r, o) => up'[r] = up[r] /\ job'[r] = job[r]
  BY DEF Untouched, Working
<1>2. ASSUME PhoneIsRight(o) PROVE PhoneIsRight(o)'
  BY <1>1, <1>2 DEF Untouched, PhoneIsRight, Changed
<1>3. ASSUME PanelIsRight(o) PROVE PanelIsRight(o)'
  BY <1>1, <1>3 DEF Untouched, PanelIsRight
<1> QED
  BY <1>2, <1>3 DEF Shown

\* An order is created, with no request for it, and announced.
LEMMA CreationShown ==
  ASSUME NotifyTypeOK, Grounded, CommittedStays, ShownInv, NEW o \in Orders,
         Create(o) \/ Announce(o) \/ AnnounceFails(o)
  PROVE  ShownInv'
<1> USE DEF NotifyTypeOK, UpdatesTypeOK
<1>1. /\ UNCHANGED <<up, job, overlapped, muddled>> /\ lost \subseteq lost'
      /\ \A p \in Orders : p # o => Untouched(p)
  BY DEF Create, CreateOrder, Announce, AnnounceFails, updateVars, Untouched
<1>2. \A r \in Updates, p \in Orders : Working(r, p)' <=> Working(r, p)
  BY <1>1 DEF Working
<1>3. CASE Create(o)
  <2>1. \A r \in Updates : ~Working(r, o)
    BY <1>3, InFlightIsTyped, ServingIsTyped
       DEF Create, CreateOrder, Working, Grounded, CommittedStays, Serving, Placed
  <2>2. status'[o] = "PENDING" /\ announced'[o] = "due"
    BY <1>3 DEF Create, CreateOrder
  <2>3. ~Changed(o)'
    <3>1. Len(history'[o]) = 1
      BY <1>3 DEF Create, CreateOrder
    <3> QED
      BY <3>1 DEF Changed
  <2>4. Shown(o)'
    BY <1>2, <2>1, <2>2, <2>3 DEF Shown, PhoneIsRight, PanelIsRight
  <2> QED
    BY <1>1, <2>4, UntouchedShown DEF ShownInv
<1>4. CASE Announce(o)
  <2>1. /\ announced[o] = "due" /\ announced'[o] = "yes" /\ panel'[o] = "PENDING"
        /\ UNCHANGED <<status, history, up, job, phone, lost, overlapped, muddled>>
    BY <1>4 DEF Announce, updateVars
  <2>2. Shown(o)'
    BY <1>2, <2>1 DEF ShownInv, Shown, PhoneIsRight, PanelIsRight, Changed
  <2> QED
    BY <1>1, <2>2, UntouchedShown DEF ShownInv
<1>5. CASE AnnounceFails(o)
  <2>1. Shown(o)'
    BY <1>5 DEF AnnounceFails, Shown
  <2> QED
    BY <1>1, <2>1, UntouchedShown DEF ShownInv
<1> QED
  BY <1>3, <1>4, <1>5

\* A request comes, when no other works on its order and it is announced, or it
\* muddles the order.
LEMMA ReadShown ==
  ASSUME NotifyTypeOK, JobsOK, ShownInv, NEW r \in Updates, NotifyRead(r)
  PROVE  ShownInv'
<1> USE DEF NotifyTypeOK, UpdatesTypeOK
<1>1. PICK a \in Actors, o \in Orders, s \in Targets : ReadForUpdate(r, a, o, s)
  BY DEF NotifyRead, Start
<1>2. /\ up[r].pc = "idle" /\ up'[r].pc = "read" /\ up'[r].order = o
      /\ \A q \in Updates : q # r => up'[q] = up[q]
      /\ UNCHANGED <<status, history>>
  BY <1>1 DEF ReadForUpdate
<1>3. /\ UNCHANGED <<job, announced, phone, panel, lost>>
      /\ muddled' = IF Quiet(o) /\ announced[o] # "due" THEN muddled ELSE muddled \union {o}
  BY <1>2 DEF NotifyRead
<1>4. /\ overlapped \subseteq overlapped' /\ muddled \subseteq muddled'
      /\ o \notin overlapped' => \A q \in Updates : ~Working(q, o)
      /\ o \notin muddled' => announced[o] # "due" /\ \A q \in Updates : ~Working(q, o)
  BY <1>1, <1>3 DEF ReadForUpdate, Quiet, InFlight, Working
<1>5. \A p \in Orders : p # o => Untouched(p)
  BY <1>2, <1>3 DEF Untouched, Working
<1>6. job[r].stage = "none"
  BY <1>2 DEF JobsOK
<1>7. /\ \A q \in Updates : q # r => (Working(q, o)' <=> Working(q, o))
      /\ Working(r, o)' /\ ~Working(r, o)
  BY <1>2 DEF Working
<1>8. o \notin lost /\ o \notin overlapped' => PhoneIsRight(o)'
  <2> SUFFICES ASSUME o \notin lost, o \notin overlapped' PROVE PhoneIsRight(o)'
    OBVIOUS
  <2>1. PhoneIsRight(o) /\ \A q \in Updates : ~Working(q, o)
    BY <1>4 DEF ShownInv, Shown
  <2> QED
    BY <1>2, <1>3, <1>6, <1>7, <2>1 DEF PhoneIsRight, Changed
<1>9. o \notin lost /\ o \notin muddled' => PanelIsRight(o)'
  <2> SUFFICES ASSUME o \notin lost, o \notin muddled' PROVE PanelIsRight(o)'
    OBVIOUS
  <2>1. PanelIsRight(o) /\ announced[o] # "due" /\ \A q \in Updates : ~Working(q, o)
    BY <1>4 DEF ShownInv, Shown
  <2> QED
    BY <1>2, <1>3, <1>7, <2>1 DEF PanelIsRight
<1>10. Shown(o)'
  BY <1>3, <1>8, <1>9 DEF Shown
<1> QED
  BY <1>3, <1>4, <1>5, <1>10, UntouchedShown DEF ShownInv

\* The order changes, and its request is to tell of it.
LEMMA CommitShown ==
  ASSUME NotifyTypeOK, JobsOK, Undisturbed, ShownInv, NEW r \in Updates, NotifyCommit(r)
  PROVE  ShownInv'
<1> USE DEF NotifyTypeOK, UpdatesTypeOK
<1>1. PICK o \in Orders : o = up[r].order
  BY ServingIsTyped DEF NotifyCommit, CommitUpdate, Serving
<1>2. /\ up[r].pc = "read" /\ up'[r].pc = "hook" /\ up'[r].order = o /\ up'[r].to = up[r].to
      /\ \A q \in Updates : q # r => up'[q] = up[q] /\ job'[q] = job[q]
      /\ job'[r].stage = "fetch"
      /\ status'[o] = up[r].to
      /\ UNCHANGED <<announced, phone, panel, lost, overlapped, muddled>>
  <2>1. up[r] \in Serving
    BY ServingIsTyped DEF NotifyCommit, CommitUpdate
  <2> QED
    BY <1>1, <2>1 DEF NotifyCommit, CommitUpdate, Serving
<1>3. \A p \in Orders : p # o => Untouched(p)
  BY <1>1, <1>2 DEF NotifyCommit, CommitUpdate, Untouched, Working
<1>4. /\ \A q \in Updates : q # r => (Working(q, o)' <=> Working(q, o))
      /\ Working(r, o)' /\ Working(r, o)
  BY <1>1, <1>2 DEF Working
<1>5. o \notin overlapped => \A q \in Updates : Working(q, o) => q = r
  BY <1>1, <1>4 DEF Undisturbed, Working
<1>6. o \notin lost /\ o \notin overlapped => PhoneIsRight(o)'
  BY <1>2, <1>4, <1>5 DEF PhoneIsRight
<1>7. o \notin lost /\ o \notin muddled => PanelIsRight(o)'
  <2> SUFFICES ASSUME o \notin lost, o \notin muddled PROVE PanelIsRight(o)'
    OBVIOUS
  <2>1. PanelIsRight(o)
    BY DEF ShownInv, Shown
  <2> QED
    BY <1>2, <1>4, <2>1 DEF PanelIsRight
<1>8. Shown(o)'
  BY <1>2, <1>6, <1>7 DEF Shown
<1> QED
  BY <1>2, <1>3, <1>8, UntouchedShown DEF ShownInv

\* A request ends before it has changed anything.
LEMMA AbortShown ==
  ASSUME NotifyTypeOK, JobsOK, ShownInv, NEW r \in Updates, NotifyAbort(r)
  PROVE  ShownInv'
<1> USE DEF NotifyTypeOK, UpdatesTypeOK
<1>1. /\ up[r].pc = "read" /\ up'[r].pc = "idle"
      /\ \A q \in Updates : q # r => up'[q] = up[q]
      /\ UNCHANGED <<status, history, job, announced, phone, panel, lost, overlapped, muddled>>
      /\ job[r].stage = "none"
  BY DEF NotifyAbort, AbortUpdate, notifyVars, Idle, JobsOK
<1>2. \A p \in Orders : /\ ~Working(r, p)'
                        /\ \A q \in Updates : q # r => (Working(q, p)' <=> Working(q, p))
  BY <1>1 DEF Working
<1>3. ASSUME NEW p \in Orders, PhoneIsRight(p) PROVE PhoneIsRight(p)'
  BY <1>1, <1>2, <1>3 DEF PhoneIsRight, Changed
<1>4. ASSUME NEW p \in Orders, PanelIsRight(p) PROVE PanelIsRight(p)'
  BY <1>1, <1>2, <1>4 DEF PanelIsRight
<1> QED
  BY <1>1, <1>3, <1>4 DEF ShownInv, Shown

\* The hook of a status change goes on: it reads the order, pushes and publishes.
LEMMA HookShown ==
  ASSUME NotifyTypeOK, JobsOK, Undisturbed, ShownInv, NEW r \in Updates,
         FetchForPush(r) \/ SendPush(r) \/ SkipPush(r) \/ Publish(r) \/ NotifyFails(r)
  PROVE  ShownInv'
<1> USE DEF NotifyTypeOK, UpdatesTypeOK
<1>1. up[r].pc = "hook"
  BY DEF FetchForPush, SendPush, SkipPush, Publish, NotifyFails, EndUpdate, JobsOK
<1>2. PICK o \in Orders : o = up[r].order
  BY <1>1, InFlightIsTyped
<1>3. /\ \A q \in Updates : q # r => up'[q] = up[q] /\ job'[q] = job[q]
      /\ up'[r] = up[r] \/ up'[r].pc = "idle"
      /\ UNCHANGED <<status, history, announced, overlapped, muddled>> /\ lost \subseteq lost'
  BY DEF FetchForPush, SendPush, SkipPush, Publish, NotifyFails, EndUpdate, Idle, updateVars
<1>4. \A p \in Orders : p # o => Untouched(p)
  <2>1. \A p \in Orders : p # o => phone'[p] = phone[p] /\ panel'[p] = panel[p]
    BY <1>2 DEF FetchForPush, SendPush, SkipPush, Publish, NotifyFails
  <2> QED
    BY <1>1, <1>2, <1>3, <2>1 DEF Untouched, Working
<1>5. /\ \A q \in Updates : q # r => (Working(q, o)' <=> Working(q, o))
      /\ Working(r, o)
  BY <1>1, <1>2, <1>3 DEF Working
<1>6. o \notin overlapped => \A q \in Updates : Working(q, o) => q = r
  BY <1>2, <1>5 DEF Undisturbed, Working
<1>7. ASSUME o \notin lost', o \notin overlapped PROVE PhoneIsRight(o)'
  <2>1. PhoneIsRight(o)
    BY <1>3, <1>7 DEF ShownInv, Shown
  <2>2. CASE FetchForPush(r)
    <3>1. up' = up /\ job'[r].stage = "push" /\ job'[r].seen = status[o]
      BY <1>2, <2>2 DEF FetchForPush, updateVars
    <3> QED
      BY <1>3, <1>5, <1>6, <1>7, <3>1 DEF PhoneIsRight, Working
  <2>3. CASE SendPush(r)
    <3>1. up' = up /\ job'[r].stage = "publish" /\ phone'[o] = job[r].seen
          /\ job[r].stage = "push"
      BY <1>2, <2>3 DEF SendPush, updateVars
    <3> QED
      BY <1>3, <1>5, <1>6, <1>7, <2>1, <3>1 DEF PhoneIsRight
  <2>4. CASE SkipPush(r) \/ NotifyFails(r)
    BY <1>2, <1>7, <2>4 DEF SkipPush, NotifyFails
  <2>5. CASE Publish(r)
    <3>1. up'[r].pc = "idle" /\ job[r].stage = "publish" /\ phone' = phone
      BY <2>5 DEF Publish, EndUpdate, Idle
    <3> QED
      BY <1>3, <1>5, <1>6, <1>7, <2>1, <3>1 DEF PhoneIsRight, Changed, Working
  <2> QED
    BY <2>2, <2>3, <2>4, <2>5
<1>8. ASSUME o \notin lost', o \notin muddled PROVE PanelIsRight(o)'
  <2>1. PanelIsRight(o)
    BY <1>3, <1>8 DEF ShownInv, Shown
  <2>2. CASE FetchForPush(r) \/ SendPush(r)
    <3>1. up' = up /\ panel' = panel
      BY <2>2 DEF FetchForPush, SendPush, updateVars
    <3> QED
      BY <1>3, <2>1, <3>1 DEF PanelIsRight, Working
  <2>3. CASE SkipPush(r) \/ NotifyFails(r)
    BY <1>2, <1>8, <2>3 DEF SkipPush, NotifyFails
  <2>4. CASE Publish(r)
    <3>1. up'[r].pc = "idle" /\ panel'[o] = up[r].to
      BY <1>2, <2>4 DEF Publish, EndUpdate, Idle
    <3>2. up[r].to = status[o]
      BY <1>1, <1>5, <2>1 DEF PanelIsRight
    <3> QED
      BY <1>3, <1>5, <2>1, <3>1, <3>2 DEF PanelIsRight, Working
  <2> QED
    BY <2>2, <2>3, <2>4
<1>9. Shown(o)'
  BY <1>3, <1>7, <1>8 DEF Shown
<1> QED
  BY <1>3, <1>4, <1>9, UntouchedShown DEF ShownInv

\* Once the requests of an order have ended and nothing was lost, the phone shows its
\* status if status requests never overlapped, and the panel shows it if neither they
\* nor the announcement of create did.
THEOREM LastShownHolds == NotifySpec => []LastShownIsCurrent
<1>1. NotifyInit => ShownInv
  BY DEF NotifyInit, UpdatesInit, ShownInv, Shown, PhoneIsRight, PanelIsRight, Changed, Working, Idle
<1>2. /\ NotifyTypeOK /\ JobsOK /\ Grounded /\ CommittedStays /\ Undisturbed /\ ShownInv
      /\ [NotifyNext]_toldVars
      => ShownInv'
  <2> SUFFICES ASSUME NotifyTypeOK, JobsOK, Grounded, CommittedStays, Undisturbed, ShownInv,
                      [NotifyNext]_toldVars
               PROVE  ShownInv'
    OBVIOUS
  <2>1. CASE UNCHANGED toldVars
    BY <2>1 DEF toldVars, updateVars, notifyVars, ShownInv, Shown, PhoneIsRight, PanelIsRight,
       Changed, Working
  <2> QED
    BY <2>1, CreationShown, ReadShown, CommitShown, AbortShown, HookShown DEF NotifyNext
<1>3. ShownInv => LastShownIsCurrent
  BY DEF ShownInv, Shown, PhoneIsRight, PanelIsRight, Working, LastShownIsCurrent,
     LastPushIsCurrent, PanelIsCurrent, Quiet, InFlight
<1>4. NotifySpec => [](Grounded /\ CommittedStays /\ Undisturbed)
  BY NotificationsRefineUpdates, GroundedHolds, CommittedStaysHolds, UndisturbedHolds, PTL
<1> QED
  BY <1>1, <1>2, <1>3, <1>4, NotifyTypeCorrect, PTL DEF NotifySpec

=============================================================================
