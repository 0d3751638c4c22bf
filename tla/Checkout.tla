------------------------------ MODULE Checkout ------------------------------
(***************************************************************************)
(* What a customer does up to an order and what is billed for it: the      *)
(* addresses, the order with what is on offer, and the billing cycle.      *)
(***************************************************************************)
EXTENDS OrderDraft, Billing

\* The cycle is no address.
ASSUME CheckoutAssumption == "cycle" \notin AddressIds

CheckoutTables(offer) == Joined(Joined(AddressTables, DraftTables(offer)), BillingTables)

\* The customer starts without an address.
Init == \E offer \in Offers : DatabaseInit(CheckoutTables(offer))

Next ==
  \/ \E r \in Requests : AddressStep(r) \/ DraftStep(r) \/ BillingStep(r) \/ Fail(r)
  \/ OfferChange
  \/ BillChange

Spec == Init /\ [][Next]_dbVars

=============================================================================
