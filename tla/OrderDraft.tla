----------------------------- MODULE OrderDraft -----------------------------
(***************************************************************************)
(* Placing an order: buildOrderDraft reads what is on offer query by query *)
(* and the order is created in a later transaction that checks none of it  *)
(* again, while owners and administrators edit the offer and the customer  *)
(* edits the address.  Money is counted in cents, and before it is stored  *)
(* in parts of a cent as fine as percentages with two decimals leave.      *)
(***************************************************************************)
EXTENDS Addresses, SequencesExt

CONSTANTS
  Carts,      \* what a customer may ask for
  Offers,     \* what may be on offer at first
  Settings,   \* groups of options an owner may try to save
  Prices,
  Fees,
  MaxEdits    \* bound on the edits of the offer

\* Tables: offer, what an order depends on: the customer's verified phone, the
\* restaurant, its zones, items and payment methods; order, the one placed last.
\* Ghost: edits, how many.
DraftTables(offer) == [offer |-> offer, edits |-> 0, order |-> Null]

-----------------------------------------------------------------------------
(* What the services check of an offer.                                    *)

ServesCity(offer, row) == offer.active /\ offer.city \in {Null, row.city}
ServesZone(offer, nb) == offer.zones[nb] # Null /\ offer.zones[nb].active

\* With no methods configured all are taken.
MethodActive(offer, method) ==
  DOMAIN offer.methods = {} \/ (method \in DOMAIN offer.methods /\ offer.methods[method])
MethodAccepted(offer, method) ==
  DOMAIN offer.methods = {} \/ offer.accepted = {} \/ method \in offer.accepted

ActiveGroups(item) == {g \in DOMAIN item.groups : item.groups[g].active}
ActiveChoices(group) == {c \in DOMAIN group.choices : group.choices[c].active}
MinSelect(group) == IF group.min # Null THEN group.min ELSE IF group.required THEN 1 ELSE 0

PicksFit(picks, item) ==
  /\ \A p \in picks : p.group \in ActiveGroups(item)
  /\ \A g \in ActiveGroups(item) :
       LET group == item.groups[g]
           chosen == {p.choice : p \in {q \in picks : q.group = g}}
       IN  /\ MinSelect(group) <= Cardinality(chosen)
           /\ group.max # Null => Cardinality(chosen) <= group.max
           /\ chosen \subseteq ActiveChoices(group)

\* maxPerOrder is compared with each line of the cart, although the refusal speaks of
\* units "por pedido": an item on two lines may exceed it.
LineFits(line, item) ==
  /\ item # Null /\ item.available
  /\ item.max # Null => line.qty <= item.max
  /\ line.note => item.allowsNotes
  /\ IsInjective(line.picks)
  /\ PicksFit(ToSet(line.picks), item)

LinePrice(line, item) ==
  line.qty * (item.price
    + SumFunction([k \in DOMAIN line.picks |->
                     item.groups[line.picks[k].group].choices[line.picks[k].choice].price]))
Subtotal(lines, items) ==
  SumFunction([n \in DOMAIN lines |-> LinePrice(lines[n], items[lines[n].item])])

\* Exact amounts are counted in ten-thousandths of a cent.
Cent == 10000
HalfCent == 5000

\* A slip: a coupon may take off more than the subtotal.
computeDiscount_Uncapped(coupon, subtotal) ==
  IF coupon = Null THEN 0
  ELSE LET wanted == IF coupon.percent THEN subtotal * coupon.value ELSE Cent * coupon.value
       IN  IF coupon.max # Null /\ Cent * coupon.max < wanted THEN Cent * coupon.max ELSE wanted

\* The value has two decimals: hundredths of a percent, or cents.  The coupon itself
\* was found valid before.
computeDiscount(coupon, subtotal) ==
  IF coupon = Null THEN 0
  ELSE LET wanted == IF coupon.percent THEN subtotal * coupon.value ELSE Cent * coupon.value
           capped == IF coupon.max # Null /\ Cent * coupon.max < wanted THEN Cent * coupon.max ELSE wanted
       IN  IF Cent * subtotal < capped THEN Cent * subtotal ELSE capped

\* A slip: decimals are cut off, not rounded.
Stored_Truncated(exact) == exact \div Cent

\* A column with two decimals rounds half a cent up.
Stored(exact) == (exact + HalfCent) \div Cent

-----------------------------------------------------------------------------
(* The draft and the order.                                                *)

Step(r, name) == up[r].op = "draft" /\ up[r].step = name
GoOn(r, name, read) == Proceed(r, Joined(read, [up[r] EXCEPT !.step = name]))

\* seen is a ghost: what was on offer since the request arrived.
StartDraft(r, cart) ==
  /\ db.offer.verified
  /\ Arrive(r, [op |-> "draft", on |-> Null, step |-> "restaurant", cart |-> cart, seen |-> {db.offer}])

ReadRestaurant(r) ==
  /\ Step(r, "restaurant") /\ db.offer.active
  /\ GoOn(r, "address", [city |-> db.offer.city, minOrder |-> db.offer.minOrder])

\* A slip: the city of the address is not compared with that of the restaurant.
ReadAddress_AnyCity(r) ==
  LET a == up[r].cart.address
  IN  /\ Step(r, "address") /\ a \in Owned
      /\ GoOn(r, "zone", [place |-> db.addresses[a], clean |-> a \notin blurred])

\* clean is a ghost: no moves of the address have overlapped.
ReadAddress(r) ==
  LET a == up[r].cart.address
  IN  /\ Step(r, "address") /\ a \in Owned
      /\ up[r].city \in {Null, db.addresses[a].city}
      /\ GoOn(r, "zone", [place |-> db.addresses[a], clean |-> a \notin blurred])

\* A slip: a zone that was switched off still delivers.
ReadZone_Inactive(r) ==
  /\ Step(r, "zone") /\ db.offer.zones[up[r].place.nb] # Null
  /\ GoOn(r, "items", [fee |-> db.offer.zones[up[r].place.nb].fee])

ReadZone(r) ==
  /\ Step(r, "zone") /\ ServesZone(db.offer, up[r].place.nb)
  /\ GoOn(r, "items", [fee |-> db.offer.zones[up[r].place.nb].fee])

ReadItems(r) ==
  LET lines == up[r].cart.lines
      subtotal == Subtotal(lines, db.offer.items)
  IN  /\ Step(r, "items")
      /\ \A n \in DOMAIN lines : LineFits(lines[n], db.offer.items[lines[n].item])
      /\ GoOn(r, "method", [subtotal |-> subtotal])

\* After the coupon the subtotal is compared with the minimum of the restaurant.
ReadMethod(r) ==
  /\ Step(r, "method")
  /\ up[r].minOrder # Null => up[r].minOrder <= up[r].subtotal
  /\ MethodActive(db.offer, up[r].cart.method)
  /\ GoOn(r, "accepted", <<>>)

\* Discount and total are kept exact; the cash must be enough for the total.
ReadAccepted(r) ==
  LET cart == up[r].cart
      discount == computeDiscount(cart.coupon, up[r].subtotal)
      total == Cent * (up[r].subtotal + up[r].fee) - discount
  IN  /\ Step(r, "accepted") /\ MethodAccepted(db.offer, cart.method)
      /\ cart.cash # Null => cart.method = "CASH" /\ total <= Cent * cart.cash
      /\ GoOn(r, "place", [discount |-> discount, total |-> total])

PlaceOrder(r) ==
  LET job == up[r]
  IN  /\ Step(r, "place")
      /\ Commit(r, [db EXCEPT !.order =
           [cart |-> job.cart, place |-> job.place, clean |-> job.clean, seen |-> job.seen,
            fee |-> job.fee, subtotal |-> job.subtotal, exact |-> job.discount,
            discount |-> Stored(job.discount), total |-> Stored(job.total)]])

-----------------------------------------------------------------------------
(* Edits of the offer, each a statement of its own.                        *)

Edit(offer) ==
  /\ db.edits < MaxEdits /\ offer # db.offer
  /\ db' = [db EXCEPT !.offer = offer, !.edits = @ + 1]
  /\ up' = [r \in Requests |-> IF up[r].op = "draft" THEN [up[r] EXCEPT !.seen = @ \union {offer}] ELSE up[r]]
  /\ UNCHANGED <<overlapped, blurred>>

SetRestaurantStatus(active) == Edit([db.offer EXCEPT !.active = active])
SetItemStatus(i, available) ==
  db.offer.items[i] # Null /\ Edit([db.offer EXCEPT !.items[i].available = available])
SetPrice(i, price) == db.offer.items[i] # Null /\ Edit([db.offer EXCEPT !.items[i].price = price])
SetZoneStatus(nb, active) ==
  db.offer.zones[nb] # Null /\ Edit([db.offer EXCEPT !.zones[nb].active = active])
SetFee(nb, fee) == db.offer.zones[nb] # Null /\ Edit([db.offer EXCEPT !.zones[nb].fee = fee])
SetMethodOnOff(method, active) == Edit([db.offer EXCEPT !.methods[method] = active])
SetAccepted(methods) ==
  /\ \A method \in methods : db.offer.methods[method]
  /\ Edit([db.offer EXCEPT !.accepted = methods])

\* A slip: nobody looks at a required group that takes no choices.
validateOptions_NoMax(groups) ==
  \A g \in DOMAIN groups :
    /\ Null \notin {groups[g].min, groups[g].max} => groups[g].min <= groups[g].max
    /\ DOMAIN groups[g].choices # {}

validateOptions(groups) ==
  \A g \in DOMAIN groups :
    /\ Null \notin {groups[g].min, groups[g].max} => groups[g].min <= groups[g].max
    /\ ~(groups[g].required /\ groups[g].max = 0)
    /\ DOMAIN groups[g].choices # {}

\* Saving the options of an item replaces its groups and choices by new ones.
SaveOptions(i, groups) ==
  /\ db.offer.items[i] # Null /\ validateOptions(groups)
  /\ Edit([db.offer EXCEPT !.items[i].groups = groups])

\* Null is an item of another restaurant, or one that was removed.
IsGroup(group) ==
  /\ group \in [required : BOOLEAN, min : Nat \union {Null}, max : Nat \union {Null},
                active : BOOLEAN, choices : {group.choices}]
  /\ IsFiniteSet(DOMAIN group.choices)
  /\ group.choices \in [DOMAIN group.choices -> [active : BOOLEAN, price : Nat]]
AreGroups(groups) == IsFiniteSet(DOMAIN groups) /\ \A g \in DOMAIN groups : IsGroup(groups[g])
IsItem(item) ==
  /\ item \in [available : BOOLEAN, price : Nat, max : Nat \union {Null}, allowsNotes : BOOLEAN,
               groups : {item.groups}]
  /\ AreGroups(item.groups) /\ validateOptions(item.groups)
IsOffer(offer) ==
  /\ offer \in [verified : BOOLEAN, active : BOOLEAN, city : Cities \union {Null},
                minOrder : Nat \union {Null}, items : {offer.items}, methods : {offer.methods},
                zones : [Neighborhoods -> [active : BOOLEAN, fee : Nat] \union {Null}],
                accepted : {offer.accepted}]
  /\ offer.methods \in [DOMAIN offer.methods -> BOOLEAN]
  /\ \A i \in DOMAIN offer.items : offer.items[i] = Null \/ IsItem(offer.items[i])

\* A cart may name any of the items.
IsLine(line) ==
  /\ \A offer \in Offers : line.item \in DOMAIN offer.items
  /\ line.qty \in Nat /\ line.picks \in Seq(ToSet(line.picks))
  /\ \A p \in ToSet(line.picks) : p = [group |-> p.group, choice |-> p.choice]
IsCart(cart) ==
  /\ cart.lines \in Seq(ToSet(cart.lines)) /\ \A line \in ToSet(cart.lines) : IsLine(line)
  /\ \/ cart.coupon = Null
     \/ cart.coupon \in [percent : BOOLEAN, value : Nat, max : Nat \union {Null}]

\* What was saved before was validated too, and no price is negative.
ASSUME OrderDraftAssumption ==
  /\ \A offer \in Offers : IsOffer(offer)
  /\ \A cart \in Carts : IsCart(cart)
  /\ \A groups \in Settings : AreGroups(groups)
  /\ Prices \union Fees \subseteq Nat

DraftStep(r) ==
  \/ \E cart \in Carts : StartDraft(r, cart)
  \/ ReadRestaurant(r) \/ ReadAddress(r) \/ ReadZone(r) \/ ReadItems(r)
  \/ ReadMethod(r) \/ ReadAccepted(r) \/ PlaceOrder(r)

OfferChange ==
  \/ \E active \in BOOLEAN :
       \/ SetRestaurantStatus(active)
       \/ \E nb \in Neighborhoods : SetZoneStatus(nb, active)
       \/ \E i \in DOMAIN db.offer.items : SetItemStatus(i, active)
       \/ \E method \in DOMAIN db.offer.methods : SetMethodOnOff(method, active)
  \/ \E i \in DOMAIN db.offer.items :
       \/ \E price \in Prices : SetPrice(i, price)
       \/ \E groups \in Settings : SaveOptions(i, groups)
  \/ \E nb \in Neighborhoods, fee \in Fees : SetFee(nb, fee)
  \/ \E methods \in SUBSET DOMAIN db.offer.methods : SetAccepted(methods)

-----------------------------------------------------------------------------
(* Properties.                                                             *)

\* Each part of an order was on offer, at the price charged, at some moment while
\* the order was being made: the restaurant, the zone, the items, the method.  All
\* of it was at once when nothing was edited meanwhile.  What is on offer includes how
\* many units of an item an order may have, except that the code compares line by line:
\* an item split over several lines of the cart is exempt from its maxPerOrder, though
\* the refusal says "por pedido" (orders.service.ts, line 538).
OrdersAsOffered ==
  db.order # Null =>
    LET o == db.order
        lines == o.cart.lines
        units(i) == SumFunction([n \in DOMAIN lines |-> IF lines[n].item = i THEN lines[n].qty ELSE 0])
        Split(i) == Cardinality({n \in DOMAIN lines : lines[n].item = i}) > 1
    IN  /\ \E s \in o.seen : /\ s.active /\ s.city \in {Null, o.place.city}
                             /\ s.minOrder # Null => o.subtotal >= s.minOrder
        /\ \E s \in o.seen : s.zones[o.place.nb] = [active |-> TRUE, fee |-> o.fee]
        /\ \E s \in o.seen :
             /\ \A n \in DOMAIN lines :
                  LET item == s.items[lines[n].item]
                      picked(g) == {c \in DOMAIN item.groups[g].choices :
                                      [group |-> g, choice |-> c] \in ToSet(lines[n].picks)}
                  IN  /\ item.available /\ (lines[n].note => item.allowsNotes)
                      /\ item.max = Null \/ units(lines[n].item) <= item.max \/ Split(lines[n].item)
                      /\ Len(lines[n].picks) = SumFunction([g \in ActiveGroups(item) |-> Cardinality(picked(g))])
                      /\ \A g \in ActiveGroups(item) :
                           LET group == item.groups[g]
                           IN  /\ \A c \in picked(g) : group.choices[c].active
                               /\ group.required /\ group.min # 0 => picked(g) # {}
                               /\ group.min # Null => Cardinality(picked(g)) >= group.min
                               /\ group.max # Null => Cardinality(picked(g)) <= group.max
             /\ o.subtotal = Subtotal(lines, s.items)
        /\ \E s \in o.seen : DOMAIN s.methods # {} => s.methods[o.cart.method]
        /\ \E s \in o.seen : s.accepted = {} \/ o.cart.method \in s.accepted \/ DOMAIN s.methods = {}

\* No order is discounted by more than its items, and its amounts add up, except that
\* total and discount are rounded apart: a discount that ends in half a cent makes the
\* total a cent too high.
TotalsAddUp ==
  db.order # Null =>
    LET o == db.order
    IN  /\ o.discount \in 0..o.subtotal
        /\ o.total + o.discount - o.subtotal - o.fee = IF o.exact % Cent = HalfCent THEN 1 ELSE 0

\* An order goes to a neighborhood of the city of the restaurant, unless two moves of
\* the address had overlapped.
DeliveredInTown ==
  db.order # Null /\ db.order.clean =>
    \E s \in db.order.seen : s.city \in {Null, CityOf[db.order.place.nb]}

\* An order can be carried out: what it takes was there, and it can be brought.
OrderSound == OrdersAsOffered /\ DeliveredInTown

\* The restaurants that findAvailableByAddress lists, and the methods that
\* loadRestaurantPaymentMethods selects for customers.
Listed(offer, row) ==
  /\ offer.active /\ offer.city = row.city
  /\ \E nb \in DOMAIN offer.zones : nb = row.nb /\ offer.zones[nb] # Null /\ offer.zones[nb].active
Selected(offer) ==
  LET active == {method \in DOMAIN offer.methods : offer.methods[method]}
  IN  active \intersect (IF offer.accepted = {} THEN active ELSE offer.accepted)

\* Customers can order what they are shown: a listed restaurant serves the address,
\* the selected methods are those it takes, and whatever options were saved, an item
\* with as many choices in each group as the group demands has picks that fit it.
ShownCanBeOrdered ==
  /\ \A a \in Owned : Listed(db.offer, db.addresses[a]) =>
       ServesCity(db.offer, db.addresses[a]) /\ ServesZone(db.offer, db.addresses[a].nb)
  /\ \A method \in DOMAIN db.offer.methods :
       method \in Selected(db.offer) <=> MethodActive(db.offer, method) /\ MethodAccepted(db.offer, method)
  /\ \A i \in {k \in DOMAIN db.offer.items : db.offer.items[k] # Null} :
       LET item == db.offer.items[i]
           pairs == UNION {{[group |-> g, choice |-> c] : c \in ActiveChoices(item.groups[g])} :
                             g \in ActiveGroups(item)}
       IN  (\A g \in ActiveGroups(item) :
              MinSelect(item.groups[g]) <= Cardinality(ActiveChoices(item.groups[g])))
             => \E picks \in SUBSET pairs : PicksFit(picks, item)

=============================================================================
