---------------------------- MODULE MCOrderCoupons ----------------------------
(* Model-checking instances of OrderCoupons.                                 *)
EXTENDS OrderCoupons, TLC

Symmetry == Permutations(Orders) \union Permutations(Carts) \union Permutations(Updates)

(* Everything at once is out of reach, so a behaviour of the large instance  *)
(* is followed as long as it plays one of three scenes.                      *)

BusyCarts == {k \in Carts : cart[k] # EmptyCart}
BusyUpdates == {r \in Updates : up[r] # Idle}
Kinds == {cart[k].coupon.type : k \in BusyCarts} \union {couponOf[o].type : o \in Orders}
Promotions == \E c \in Coupons : promo[c] # Uncreated
Changed == {o \in Orders : Len(history[o]) > 1} \union {up[r].order : r \in BusyUpdates}

\* Promotional coupons, the administrator and competing checkouts.
PromotionScene == Promotions /\ Changed = {} /\ Kinds \subseteq {"NONE", "PROMOTIONAL"}

\* Competing checkouts with referrals and rewards, and one accepted order.
CheckoutScene ==
  /\ ~Promotions /\ dropped = {}
  /\ Cardinality(Changed) <= 1
  /\ Cardinality(BusyUpdates) <= 1
  /\ \A o \in Orders : status[o] # "CANCELED"
  /\ \A r \in Updates : up[r].to # "CANCELED"

\* Competing acceptances and cancellations of one order, and a checkout that
\* may spend its reward meanwhile.
HookScene ==
  /\ ~Promotions
  /\ Cardinality(BusyCarts) <= 1 /\ rushed = {}
  /\ Cardinality({o \in Orders : status[o] # Absent}) <= 2
  /\ Cardinality(Changed) <= 1

InScene == PromotionScene \/ CheckoutScene \/ HookScene
=============================================================================
