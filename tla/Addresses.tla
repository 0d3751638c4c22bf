------------------------------ MODULE Addresses ------------------------------
(***************************************************************************)
(* The addresses of one customer, one of which is the default, and the     *)
(* deletion of the account.  The locks of rows only delay a transaction;   *)
(* what it decides comes from what was committed when it looked.           *)
(***************************************************************************)
EXTENDS Database

CONSTANTS
  AddressIds,
  Neighborhoods,
  CityOf         \* the city of each neighborhood

Cities == {CityOf[n] : n \in Neighborhoods}

\* The list of addresses is contended under a name of its own; Null is no value of a column.
ASSUME AddressesAssumption ==
  /\ IsFiniteSet(AddressIds)
  /\ "addresses" \notin AddressIds /\ Null \notin AddressIds \union {"addresses"}
  /\ Null \notin BOOLEAN
  /\ Null \notin [nb : Neighborhoods, city : Cities, isDefault : BOOLEAN, at : Nat]

\* Tables: addresses, and gone, whether the account is deleted.  at orders them by
\* creation.  Ghost: waived, the customer asked for no default.
AddressTables ==
  [addresses |-> [a \in AddressIds |-> Null], used |-> {}, gone |-> FALSE, waived |-> FALSE]

Owned == {a \in AddressIds : db.addresses[a] # Null}
Defaults == {a \in Owned : db.addresses[a].isDefault}
Newest(ids) == CHOOSE a \in ids : \A b \in ids : db.addresses[b].at <= db.addresses[a].at

Or(x, old) == IF x = Null THEN old ELSE x

ensureCityAndNeighborhoodAreValid(city, nb) == CityOf[nb] = city

\* The rows with new defaults: those in off are cleared first.
WithDefaults(off, on) ==
  [a \in AddressIds |-> IF a \in Owned
                        THEN [db.addresses[a] EXCEPT !.isDefault = (@ /\ a \notin off) \/ a \in on]
                        ELSE Null]

\* The customer is left with addresses and without a default because of want.
Waives(want, rows) ==
  IF \E a \in AddressIds : rows[a] # Null /\ rows[a].isDefault THEN FALSE
  ELSE db.waived \/ want = FALSE

-----------------------------------------------------------------------------
(* Creating and changing an address.                                       *)

CreateAddress(r, a, nb, want) ==
  /\ ~db.gone /\ Fresh(a)
  /\ Arrive(r, [op |-> "createAddress", on |-> "addresses", id |-> a, nb |-> nb, want |-> want,
                off |-> {}, first |-> Null])

\* The transaction clears the other defaults, if it is told to, and counts.
ClearAndCount(r) ==
  /\ up[r].op = "createAddress" /\ up[r].first = Null
  /\ Proceed(r, [up[r] EXCEPT !.off = IF up[r].want = TRUE THEN Defaults ELSE {},
                              !.first = Owned = {}])

WriteAddress(r) ==
  LET job == up[r]
      rows == [WithDefaults(job.off, {}) EXCEPT ![job.id] =
                 [nb |-> job.nb, city |-> CityOf[job.nb], isDefault |-> Or(job.want, job.first),
                  at |-> Cardinality(db.used)]]
  IN  /\ job.op = "createAddress" /\ job.first # Null /\ Fresh(job.id)
      /\ CommitStep(r, [db EXCEPT !.addresses = rows, !.used = @ \union {job.id},
                                  !.waived = Waives(job.want, rows)], Idle, job.want = TRUE)

\* One request moves the address or says whether it is the default; what it leaves
\* out is completed from the row as it was read, but only for the check.
Move(r, a, city, nb) ==
  /\ ~db.gone /\ a \in Owned
  /\ ensureCityAndNeighborhoodAreValid(Or(city, db.addresses[a].city), Or(nb, db.addresses[a].nb))
  /\ Arrive(r, [op |-> "move", on |-> a, id |-> a, city |-> city, nb |-> nb])

\* A slip: the city is taken along with the neighborhood, but not the other way.
WriteMove_Half(r) ==
  LET job == up[r]
  IN  /\ job.op = "move" /\ job.id \in Owned
      /\ Commit(r, [db EXCEPT !.addresses[job.id] = [@ EXCEPT !.nb = Or(job.nb, @)]])

WriteMove(r) ==
  LET job == up[r]
      row == db.addresses[job.id]
      moved == [row EXCEPT !.nb = Or(job.nb, row.nb), !.city = Or(job.city, row.city)]
  IN  /\ job.op = "move" /\ job.id \in Owned
      /\ CommitStep(r, [db EXCEPT !.addresses[job.id] = moved], Idle, Null \notin {job.nb, job.city})

\* update and updateDefault: both clear the other defaults before they set this one.
MakeDefault(r, a) ==
  /\ ~db.gone /\ a \in Owned
  /\ Arrive(r, [op |-> "makeDefault", on |-> "addresses", id |-> a, off |-> Null])

ClearOthers(r) ==
  /\ up[r].op = "makeDefault" /\ up[r].off = Null
  /\ Proceed(r, [up[r] EXCEPT !.off = Defaults])

\* A slip: the other defaults are left as they are.
WriteDefault_KeepsOthers(r) ==
  LET rows == WithDefaults({}, {up[r].id})
  IN  /\ up[r].op = "makeDefault" /\ up[r].off # Null /\ up[r].id \in Owned
      /\ Commit(r, [db EXCEPT !.addresses = rows, !.waived = FALSE])

WriteDefault(r) ==
  LET rows == WithDefaults(up[r].off, {up[r].id})
  IN  /\ up[r].op = "makeDefault" /\ up[r].off # Null /\ up[r].id \in Owned
      /\ Commit(r, [db EXCEPT !.addresses = rows, !.waived = FALSE])

\* update with isDefault: false; no other address takes over.
Decline(r, a) ==
  /\ ~db.gone /\ a \in Owned
  /\ Arrive(r, [op |-> "decline", on |-> "addresses", id |-> a])

WriteDecline(r) ==
  LET rows == WithDefaults({up[r].id}, {})
  IN  /\ up[r].op = "decline" /\ up[r].id \in Owned
      /\ CommitPart(r, [db EXCEPT !.addresses = rows, !.waived = Waives(FALSE, rows)])

\* updateDefault with false: the newest other address is chosen before the
\* transaction, and one that is no default is left alone.
HandOver(r, a) ==
  /\ ~db.gone /\ a \in Defaults /\ Owned # {a}
  /\ Arrive(r, [op |-> "handOver", on |-> "addresses", id |-> a, heir |-> Newest(Owned \ {a})])

WriteHandOver(r) ==
  /\ up[r].op = "handOver" /\ {up[r].id, up[r].heir} \subseteq Owned
  /\ CommitPart(r, [db EXCEPT !.addresses = WithDefaults({up[r].id}, {up[r].heir}), !.waived = FALSE])

-----------------------------------------------------------------------------
(* Removing an address, and all of them.                                   *)

RemoveAddress(r, a) ==
  /\ ~db.gone /\ a \in Owned
  /\ Arrive(r, [op |-> "removeAddress", on |-> "addresses", id |-> a, heir |-> {},
                wasDefault |-> db.addresses[a].isDefault, ready |-> FALSE])

\* The row is deleted; if it was the default when it was read, the newest of the
\* others is to take its place.
DeleteAndChoose(r) ==
  LET others == Owned \ {up[r].id}
  IN  /\ up[r].op = "removeAddress" /\ ~up[r].ready
      /\ Proceed(r, [up[r] EXCEPT !.ready = TRUE,
           !.heir = IF up[r].wasDefault /\ others # {} THEN {Newest(others)} ELSE {}])

WriteRemoval(r) ==
  LET job == up[r]
      rows == [WithDefaults({}, job.heir) EXCEPT ![job.id] = Null]
  IN  /\ job.op = "removeAddress" /\ job.ready
      /\ {job.id} \union job.heir \subseteq Owned
      /\ CommitPart(r, [db EXCEPT !.addresses = rows, !.waived = Waives(Null, rows)])

DeleteAccount(r) ==
  /\ ~db.gone
  /\ Arrive(r, [op |-> "deleteMyAccount", on |-> "addresses"])

\* A slip: the addresses are left behind.
WriteAccountGone_KeepsAddresses(r) ==
  /\ up[r].op = "deleteMyAccount"
  /\ Commit(r, [db EXCEPT !.gone = TRUE])

WriteAccountGone(r) ==
  /\ up[r].op = "deleteMyAccount"
  /\ Commit(r, [db EXCEPT !.gone = TRUE, !.addresses = [a \in AddressIds |-> Null]])

-----------------------------------------------------------------------------
(* The steps of a request.                                                 *)

AddressStep(r) ==
  \/ \E a \in AddressIds :
       \/ \E nb \in Neighborhoods, want \in BOOLEAN \union {Null} : CreateAddress(r, a, nb, want)
       \/ \E city \in Cities \union {Null}, nb \in Neighborhoods \union {Null} : Move(r, a, city, nb)
       \/ MakeDefault(r, a) \/ Decline(r, a) \/ HandOver(r, a) \/ RemoveAddress(r, a)
  \/ ClearAndCount(r) \/ WriteAddress(r) \/ WriteMove(r) \/ ClearOthers(r) \/ WriteDefault(r)
  \/ WriteDecline(r) \/ WriteHandOver(r) \/ DeleteAndChoose(r) \/ WriteRemoval(r)
  \/ DeleteAccount(r) \/ WriteAccountGone(r)

-----------------------------------------------------------------------------
(* Properties.                                                             *)

\* A customer with addresses has exactly one default, unless changes of them
\* overlapped, or the customer declined a default.
OneDefault ==
  Owned # {} /\ "addresses" \notin blurred =>
    /\ Cardinality(Defaults) <= 1
    /\ Defaults = {} => db.waived

\* The neighborhood of an address lies in its city, unless two moves of it
\* overlapped, each of which was checked against the row the other changed.
PlaceConsistent ==
  \A a \in Owned \ blurred : CityOf[db.addresses[a].nb] = db.addresses[a].city

\* A deleted account keeps no address, unless a request for one was under way.
DeletedHasNoAddress == db.gone /\ "addresses" \notin blurred => Owned = {}

=============================================================================
