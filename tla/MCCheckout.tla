----------------------------- MODULE MCCheckout -----------------------------
(* Model-checking instance of Checkout.                                      *)
EXTENDS Checkout, TLC

CONSTANTS r1, r2, a1, a2, a3, n1, n2, riverside, hilltop, o1, o2, burger, soda,
          sauces, extras, g1, g2, g3, g4, g5, c1, c2

CityOfDef == [n \in {n1, n2} |-> IF n = n1 THEN riverside ELSE hilltop]

ChoiceRows(on) == [c \in {c1, c2} |-> [active |-> c \in on, price |-> IF c = c1 THEN 0 ELSE 125]]
Group(required, min, max, on) ==
  [required |-> required, min |-> min, max |-> max, active |-> TRUE, choices |-> ChoiceRows(on)]

Sauces == sauces :> Group(TRUE, Null, 1, {c1, c2})
Burger == [available |-> TRUE, price |-> 1990, max |-> 2, allowsNotes |-> FALSE, groups |-> Sauces]
Soda == [available |-> TRUE, price |-> 650, max |-> Null, allowsNotes |-> TRUE, groups |-> <<>>]

Zones(on) == [n \in {n1, n2} |-> [active |-> n \in on, fee |-> 500]]
Usual == [verified |-> TRUE, active |-> TRUE, city |-> riverside, minOrder |-> 1000,
          zones |-> Zones({n1, n2}), items |-> burger :> Burger @@ soda :> Soda,
          methods |-> [m \in {"CASH", "PIX"} |-> TRUE], accepted |-> {"PIX", "CASH"}]
OffersDef == {Usual,
  [Usual EXCEPT !.city = Null, !.minOrder = Null, !.methods = <<>>, !.accepted = {}],
  [Usual EXCEPT !.zones = [Zones({n1}) EXCEPT ![n2] = Null], !.accepted = {"PIX"},
                !.items[burger].groups = extras :> Group(FALSE, 1, Null, {c2}), !.items[soda] = Null],
  [Usual EXCEPT !.zones = Zones({n2}), !.accepted = {}, !.methods["CASH"] = FALSE,
                !.items[soda].available = FALSE],
  [Usual EXCEPT !.verified = FALSE]}

SettingsDef == {
  g1 :> Group(TRUE, 2, 1, {c1}), g1 :> Group(TRUE, Null, 0, {c1}),
  g1 :> [Group(FALSE, Null, Null, {}) EXCEPT !.choices = <<>>],
  g2 :> Group(TRUE, Null, 1, {c1}), g3 :> Group(FALSE, 2, Null, {c1}),
  g4 :> Group(FALSE, Null, 0, {c2}), g5 :> Group(TRUE, 0, 2, {c1, c2})}

Pick(g, c) == [group |-> g, choice |-> c]
Line(i, qty, note, picks) == [item |-> i, qty |-> qty, note |-> note, picks |-> picks]
Cart(lines, method, cash, coupon) ==
  [address |-> a1, lines |-> lines, method |-> method, cash |-> cash, coupon |-> coupon]
Percentage(value, max) == [percent |-> TRUE, value |-> value, max |-> max]

OneBurger == Line(burger, 1, FALSE, <<Pick(sauces, c1)>>)
CartsDef == {
  Cart(<<OneBurger>>, "PIX", Null, Percentage(1500, Null)),
  Cart(<<OneBurger, OneBurger>>, "CASH", 4000, Percentage(1500, 500)),
  Cart(<<Line(burger, 2, FALSE, <<Pick(sauces, c2)>>), OneBurger>>, "CASH", Null, Percentage(1275, Null)),
  Cart(<<Line(burger, 1, FALSE, <<Pick(extras, c2)>>)>>, "PIX", Null, Null),
  Cart(<<Line(burger, 1, FALSE, <<>>)>>, "PIX", Null, Null),
  Cart(<<Line(burger, 1, FALSE, <<Pick(sauces, c1), Pick(sauces, c1)>>)>>, "PIX", Null, Null),
  Cart(<<Line(burger, 3, FALSE, <<Pick(sauces, c1)>>)>>, "PIX", Null, Null),
  Cart(<<Line(burger, 1, TRUE, <<Pick(sauces, c1)>>)>>, "PIX", 5000, Null),
  Cart(<<Line(soda, 1, TRUE, <<>>)>>, "PIX", Null, Null),
  Cart(<<Line(soda, 2, TRUE, <<>>)>>, "CASH", 1000, [percent |-> FALSE, value |-> 2000, max |-> Null])}

-----------------------------------------------------------------------------
(* One part of the system moves at a time.                                   *)

Ops(ops) == \A r \in Requests : up[r].op \in ops \union {"idle"}
NoOrder == db.offer = Usual /\ db.edits = 0 /\ db.order = Null
NoBills == db.version = 0 /\ db.cycle = Null
OneAddress == db.used \subseteq {a1} /\ ~db.gone /\ ~db.waived /\ NoBills
              /\ (\A r \in Requests : up[r].op = "createAddress" => up[r].id = a1 /\ up[r].want = Null)
              /\ Cardinality({r \in Requests : up[r].op \in {"createAddress", "draft"}}) <= 1

\* Orders while the offer is edited, or while the address moves.  What was edited
\* before a draft is one of the offers.
EditScene ==
  /\ OneAddress /\ blurred = {} /\ Ops({"createAddress", "draft"})
  /\ db.edits > 0 => db.order # Null \/ \E r \in Requests : up[r].op = "draft"
  /\ db.order # Null => Ops({})
MoveScene ==
  /\ OneAddress /\ blurred \subseteq {a1} /\ Ops({"createAddress", "move", "draft"})
  /\ db.edits = 0 /\ db.offer.items = Usual.items
  /\ db.order # Null => Ops({})

\* Addresses that become the default, appear and go; ids are taken in turn.
AddressScene ==
  /\ NoOrder /\ NoBills /\ blurred \subseteq {"addresses"}
  /\ Ops({"createAddress", "makeDefault", "decline", "handOver", "removeAddress", "deleteMyAccount"})
  /\ a3 \in db.used => a2 \in db.used
  /\ a2 \in db.used => a1 \in db.used
  /\ \A r \in Requests : up[r].op = "createAddress" => up[r].nb = n1
  /\ \A a \in Owned : db.addresses[a].nb = n1

BillingScene ==
  /\ NoOrder /\ db.used = {} /\ ~db.gone /\ blurred \subseteq {"cycle"} /\ Ops({"save"})

InScene == EditScene \/ MoveScene \/ AddressScene \/ BillingScene
Symmetry == Permutations(Requests)
=============================================================================
