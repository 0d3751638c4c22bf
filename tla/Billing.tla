------------------------------- MODULE Billing -------------------------------
(***************************************************************************)
(* Billing cycles of one restaurant and one period: a report over its      *)
(* orders, and the cycle that is saved from it in a later transaction,     *)
(* while orders arrive and are canceled.  Money is counted in cents.       *)
(***************************************************************************)
EXTENDS Database, Functions

CONSTANTS
  Bills,       \* orders of the period
  Totals,      \* what an order may cost
  Percent,     \* the commission
  MaxChanges   \* bound on the changes of orders

\* Saves are contended under the name of the cycle; nothing costs less than nothing.
ASSUME BillingAssumption ==
  /\ "cycle" # Null
  /\ IsFiniteSet(Bills) /\ Totals \subseteq Nat /\ Percent \in Nat

\* Tables: bills, and cycle with its items.  Ghost: version, the changes of bills
\* so far; cycle.asOf, the version that was reported.
BillingTables == [bills |-> [o \in Bills |-> Null], version |-> 0, cycle |-> Null]

Placed(bills) == {o \in Bills : bills[o] # Null}

\* roundCurrency goes through a binary number: half a cent may go either way.
roundCurrency(hundredths, halfUp) == (hundredths + (IF halfUp THEN 50 ELSE 49)) \div 100

\* A slip: canceled orders are charged like the others.
CommissionBase_Canceled(bill) == bill.total

CommissionBase(bill) == IF bill.canceled THEN 0 ELSE bill.total

\* What a report says of the orders; the commission is taken of the sum.
buildReport(bills, halfUp) ==
  LET all == Placed(bills)
      gross == SumFunction([o \in all |-> IF bills[o].canceled THEN 0 ELSE bills[o].total])
      commission == roundCurrency(gross * Percent, halfUp)
  IN  [gross |-> gross,
       canceled |-> SumFunction([o \in all |-> IF bills[o].canceled THEN bills[o].total ELSE 0]),
       commission |-> commission,
       net |-> gross - commission,
       billed |-> Cardinality({o \in all : ~bills[o].canceled}),
       items |-> {[order |-> o, total |-> bills[o].total, canceled |-> bills[o].canceled,
                   commission |-> roundCurrency(CommissionBase(bills[o]) * Percent, halfUp)] : o \in all}]

-----------------------------------------------------------------------------

BillChanged(bills) ==
  /\ db.version < MaxChanges
  /\ db' = [db EXCEPT !.bills = bills, !.version = @ + 1]
  /\ UNCHANGED <<up, overlapped, blurred>>

PlaceBill(o, total) ==
  /\ db.bills[o] = Null
  /\ BillChanged([db.bills EXCEPT ![o] = [total |-> total, canceled |-> FALSE]])

CancelBill(o) ==
  /\ db.bills[o] # Null /\ ~db.bills[o].canceled
  /\ BillChanged([db.bills EXCEPT ![o].canceled = TRUE])

\* saveCycle computes the report first, outside its transaction.
getReport(r, halfUp) ==
  Arrive(r, [op |-> "save", on |-> "cycle", report |-> buildReport(db.bills, halfUp), asOf |-> db.version])

Cycle(job, items) ==
  [gross |-> job.report.gross, canceled |-> job.report.canceled,
   commission |-> job.report.commission, net |-> job.report.net, billed |-> job.report.billed,
   due |-> job.report.commission,
   status |-> IF job.report.commission > 0 THEN "OPEN" ELSE "PAID",
   items |-> items, asOf |-> job.asOf]

\* A slip: the transaction is sent again after it was committed.
saveCycle_SentTwice(r) ==
  /\ up[r].op = "save"
  /\ CommitAnd(r, [db EXCEPT !.cycle = Cycle(up[r], up[r].report.items)], [up[r] EXCEPT !.on = Null])

\* The row is written first and keeps other saves out until the items are there.
saveCycle(r) ==
  /\ up[r].op = "save"
  /\ Commit(r, [db EXCEPT !.cycle = Cycle(up[r], up[r].report.items)])

-----------------------------------------------------------------------------
(* The steps of a request, and of the orders.                              *)

BillingStep(r) == saveCycle(r) \/ \E halfUp \in BOOLEAN : getReport(r, halfUp)
BillChange == \E o \in Bills : CancelBill(o) \/ \E total \in Totals : PlaceBill(o, total)

-----------------------------------------------------------------------------
(* Properties.                                                             *)

\* A saved cycle is the sum of its items, one for each order: sales, canceled
\* sales, and the commission up to the rounding of each item.
CycleIsSumOfItems ==
  db.cycle # Null =>
    LET c == db.cycle
        charged == SumFunction([i \in c.items |-> i.commission])
    IN  /\ \A i, j \in c.items : i.order = j.order => i = j
        /\ c.gross = SumFunction([i \in c.items |-> IF i.canceled THEN 0 ELSE i.total])
        /\ c.canceled = SumFunction([i \in c.items |-> IF i.canceled THEN i.total ELSE 0])
        /\ 2 * (c.commission - charged) <= c.billed + 1
        /\ 2 * (charged - c.commission) <= c.billed + 1
        /\ c.net + c.due = c.gross

\* A cycle never goes back to an older report, unless two saves overlapped.
NewerReportStays ==
  [][db.cycle # Null => db'.cycle.asOf >= db.cycle.asOf \/ "cycle" \in blurred']_dbVars

=============================================================================
