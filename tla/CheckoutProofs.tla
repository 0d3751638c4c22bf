---------------------------- MODULE CheckoutProofs ----------------------------
(***************************************************************************)
(* Proofs about Checkout, for any number of addresses, neighborhoods,      *)
(* orders and concurrent requests, whatever is on offer.  Each family of   *)
(* requests has an invariant of its own, which the requests of the others  *)
(* do not disturb.                                                         *)
(***************************************************************************)
EXTENDS Checkout, FiniteSetTheorems, WellFoundedInduction, TLAPS

-----------------------------------------------------------------------------
(* The addresses.                                                          *)

ListOps == {"createAddress", "makeDefault", "decline", "handOver", "removeAddress", "deleteMyAccount"}
AddressOps == ListOps \union {"move"}

\* What a request about addresses may be doing.
Jobs ==
  [op : {"createAddress"}, on : {"addresses"}, id : AddressIds, nb : Neighborhoods,
            want : BOOLEAN \union {Null}, off : SUBSET AddressIds, first : BOOLEAN \union {Null}]
    \union [op : {"move"}, on : AddressIds, id : AddressIds,
            city : Cities \union {Null}, nb : Neighborhoods \union {Null}]
    \union [op : {"makeDefault"}, on : {"addresses"}, id : AddressIds,
            off : (SUBSET AddressIds) \union {Null}]
    \union [op : {"decline"}, on : {"addresses"}, id : AddressIds]
    \union [op : {"deleteMyAccount"}, on : {"addresses"}]

\* The jobs with an heir, which is one of the addresses for all that matters here.
HeirJob(j) ==
  /\ {"op", "on", "id"} \subseteq DOMAIN j
  /\ j.op \in {"handOver", "removeAddress"} /\ j.on = "addresses" /\ j.id \in AddressIds

\* A request that has nothing to do with addresses.
Foreign(j) == j.op \notin AddressOps /\ j.on \notin AddressIds \union {"addresses"}

IsJob(j) == j \in Jobs \/ HeirJob(j) \/ Foreign(j)

Fields == {"addresses", "used", "gone", "waived"}

\* The tables have their columns, and an address that is there has a key that was taken.
TablesOK ==
  /\ Fields \subseteq DOMAIN db
  /\ DOMAIN db.addresses = AddressIds
  /\ Owned \subseteq db.used
  /\ \A a \in Owned : {"nb", "city"} \subseteq DOMAIN db.addresses[a]

\* Every request does one of its jobs; a move is about the row it names.
JobsOK ==
  /\ DOMAIN up = Requests
  /\ \A r \in Requests : /\ IsJob(up[r])
                         /\ up[r].op = "move" => up[r].on = up[r].id /\ up[r].id \in db.used

Fits(job, row) == CityOf[Or(job.nb, row.nb)] = Or(job.city, row.city)

\* A move that no other has overlapped still fits the row it is about to change.
MovesFit ==
  \A r \in Requests \ overlapped :
    up[r].op = "move" /\ up[r].id \in Owned => Fits(up[r], db.addresses[up[r].id])

PlaceInv == TablesOK /\ JobsOK /\ MovesFit /\ PlaceConsistent

-----------------------------------------------------------------------------
(* Steps that leave the place of every row alone.                          *)

\* A slot without a request holds nothing about addresses.
LEMMA IdleIsForeign == Foreign(Idle) /\ IsJob(Idle) /\ Idle.op = "idle"
BY AddressesAssumption DEF Idle, IsJob, Foreign, AddressOps, ListOps

\* A request goes on, or is refused, and no transaction commits.
LEMMA QuietStep ==
  ASSUME PlaceInv, NEW r \in Requests, NEW j, IsJob(j), j.op # "move",
         db' = db, blurred' = blurred, up' = [up EXCEPT ![r] = j],
         overlapped \ {r} \subseteq overlapped'
  PROVE  PlaceInv'
<1> USE DEF PlaceInv
<1>1. TablesOK'
  BY DEF TablesOK, Owned
<1>2. JobsOK'
  BY DEF JobsOK
<1>3. MovesFit'
  BY DEF MovesFit, JobsOK, Owned, Fits, Or
<1>4. PlaceConsistent'
  BY DEF PlaceConsistent, Owned
<1> QED
  BY <1>1, <1>2, <1>3, <1>4

\* A request that is no move commits: an address that was there keeps its place, and
\* a new one has a key that was not taken.
LEMMA RewriteStep ==
  ASSUME PlaceInv, NEW r \in Requests,
         Fields \subseteq DOMAIN db', DOMAIN db'.addresses = AddressIds,
         db.used \subseteq db'.used, Owned' \subseteq db'.used,
         \A a \in Owned' : {"nb", "city"} \subseteq DOMAIN db'.addresses[a],
         \A a \in Owned' \intersect Owned :
           /\ db'.addresses[a].nb = db.addresses[a].nb
           /\ db'.addresses[a].city = db.addresses[a].city,
         \A a \in Owned' \ Owned :
           /\ a \notin db.used
           /\ CityOf[db'.addresses[a].nb] = db'.addresses[a].city,
         blurred \ {"addresses"} \subseteq blurred', up' = [up EXCEPT ![r] = Idle],
         overlapped \ {r} \subseteq overlapped'
  PROVE  PlaceInv'
<1> USE DEF PlaceInv
<1> DEFINE addresses == db'.addresses
<1>1. TablesOK'
  BY DEF TablesOK
<1>2. IsJob(Idle) /\ Idle.op = "idle"
  BY IdleIsForeign
<1>3. JobsOK'
  BY <1>2 DEF JobsOK
<1>4. ASSUME NEW s \in Requests, s \notin overlapped', up'[s].op = "move", up'[s].id \in Owned'
      PROVE  Fits(up'[s], db'.addresses[up'[s].id])
  <2>1. s # r /\ up'[s] = up[s] /\ s \notin overlapped
    BY <1>2, <1>4 DEF JobsOK
  <2>2. up[s].id \in db.used
    BY <1>4, <2>1 DEF JobsOK
  <2>3. up[s].id \in Owned
    BY <1>4, <2>1, <2>2
  <2>4. Fits(up[s], db.addresses[up[s].id])
    BY <1>4, <2>1, <2>3 DEF MovesFit
  <2> QED
    BY <1>4, <2>1, <2>3, <2>4 DEF Fits
<1>5. MovesFit'
  BY <1>4 DEF MovesFit
<1>6. Owned' \subseteq AddressIds
  BY DEF Owned
<1>7. PlaceConsistent'
  BY <1>6, AddressesAssumption DEF PlaceConsistent
<1> QED
  BY <1>1, <1>3, <1>5, <1>7

-----------------------------------------------------------------------------
(* The steps one by one.                                                   *)

\* WithDefaults changes which addresses are defaults and nothing else.
LEMMA DefaultsKeepPlace ==
  ASSUME TablesOK, NEW off, NEW on
  PROVE  LET rows == WithDefaults(off, on)
         IN  /\ DOMAIN rows = AddressIds
             /\ \A a \in AddressIds \ Owned : rows[a] = Null
             /\ \A a \in Owned : /\ {"nb", "city"} \subseteq DOMAIN rows[a]
                                 /\ rows[a].nb = db.addresses[a].nb
                                 /\ rows[a].city = db.addresses[a].city
BY DEF TablesOK, WithDefaults, Owned

\* What a commit of a request that is no move does to the ghosts.
LEMMA CommitGhosts ==
  ASSUME JobsOK, NEW r \in Requests, NEW tables, NEW whole \in BOOLEAN,
         up[r].op \in ListOps, CommitStep(r, tables, Idle, whole)
  PROVE  /\ db' = tables /\ up' = [up EXCEPT ![r] = Idle]
         /\ blurred \ {"addresses"} \subseteq blurred'
         /\ overlapped \ {r} \subseteq overlapped'
<1>1. up[r].on = "addresses"
  BY DEF JobsOK, Jobs, IsJob, HeirJob, Foreign, AddressOps, ListOps
<1> QED
  BY <1>1 DEF CommitStep

\* A request that arrives changes nothing but its slot.
LEMMA ArrivalIsQuiet ==
  ASSUME PlaceInv, NEW r \in Requests, NEW j, IsJob(j), j.op # "move", Arrive(r, j)
  PROVE  PlaceInv'
BY QuietStep DEF Arrive

\* So does one that goes on.
LEMMA ProceedIsQuiet ==
  ASSUME PlaceInv, NEW r \in Requests, NEW j, IsJob(j), j.op # "move", Proceed(r, j)
  PROVE  PlaceInv'
BY QuietStep DEF Proceed

\* A transaction that only rewrites defaults keeps every place.
LEMMA DefaultsStep ==
  ASSUME PlaceInv, NEW r \in Requests, NEW off, NEW on, NEW waived, NEW whole \in BOOLEAN,
         up[r].op \in ListOps,
         CommitStep(r, [db EXCEPT !.addresses = WithDefaults(off, on), !.waived = waived], Idle, whole)
  PROVE  PlaceInv'
<1> DEFINE rows == WithDefaults(off, on)
<1>1. TablesOK /\ JobsOK
  BY DEF PlaceInv
<1>2. /\ db' = [db EXCEPT !.addresses = rows, !.waived = waived]
      /\ up' = [up EXCEPT ![r] = Idle]
      /\ blurred \ {"addresses"} \subseteq blurred'
      /\ overlapped \ {r} \subseteq overlapped'
  BY <1>1, CommitGhosts
<1>3. /\ DOMAIN rows = AddressIds
      /\ \A a \in AddressIds \ Owned : rows[a] = Null
      /\ \A a \in Owned : /\ {"nb", "city"} \subseteq DOMAIN rows[a]
                          /\ rows[a].nb = db.addresses[a].nb
                          /\ rows[a].city = db.addresses[a].city
  BY <1>1, DefaultsKeepPlace
<1> HIDE DEF rows
<1>4. Fields \subseteq DOMAIN db' /\ db'.addresses = rows /\ db'.used = db.used
  BY <1>1, <1>2 DEF TablesOK, Fields
<1>5. Owned' \subseteq Owned
  BY <1>3, <1>4 DEF Owned
<1>6. \A a \in Owned' : /\ {"nb", "city"} \subseteq DOMAIN db'.addresses[a]
                        /\ db'.addresses[a].nb = db.addresses[a].nb
                        /\ db'.addresses[a].city = db.addresses[a].city
  BY <1>3, <1>4, <1>5
<1>7. DOMAIN db'.addresses = AddressIds /\ db.used \subseteq db'.used /\ Owned' \subseteq db'.used
  BY <1>1, <1>3, <1>4, <1>5 DEF TablesOK
<1> QED
  BY <1>2, <1>4, <1>5, <1>6, <1>7, RewriteStep

\* A request to create an address.
LEMMA CreateKeeps ==
  ASSUME PlaceInv, NEW r \in Requests,
         NEW a \in AddressIds, NEW nb \in Neighborhoods, NEW want \in BOOLEAN \union {Null},
         CreateAddress(r, a, nb, want)
  PROVE  PlaceInv'
<1>1. [op |-> "createAddress", on |-> "addresses", id |-> a, nb |-> nb, want |-> want,
       off |-> {}, first |-> Null] \in Jobs
  BY DEF Jobs
<1> QED
  BY <1>1, ArrivalIsQuiet DEF CreateAddress, IsJob

\* Counting the addresses.
LEMMA CountKeeps ==
  ASSUME PlaceInv, NEW r \in Requests, ClearAndCount(r)
  PROVE  PlaceInv'
<1> DEFINE off == IF up[r].want = TRUE THEN Defaults ELSE {}
           first == Owned = {}
           j == [up[r] EXCEPT !.off = off, !.first = first]
<1>1. up[r] \in [op : {"createAddress"}, on : {"addresses"}, id : AddressIds, nb : Neighborhoods,
            want : BOOLEAN \union {Null}, off : SUBSET AddressIds, first : BOOLEAN \union {Null}]
  BY DEF ClearAndCount, PlaceInv, JobsOK, Jobs, IsJob, HeirJob, Foreign, AddressOps, ListOps
<1>2. off \in SUBSET AddressIds
  BY DEF Defaults, Owned
<1>3. first \in BOOLEAN
  OBVIOUS
<1> HIDE DEF off, first
<1>4. IsJob(j) /\ j.op = "createAddress"
  BY <1>1, <1>2, <1>3 DEF Jobs, IsJob
<1>5. Proceed(r, j)
  BY DEF ClearAndCount, off, first
<1> QED
  BY <1>4, <1>5, ProceedIsQuiet

\* Writing the new row, under a key that was free, in the city of its neighborhood.
LEMMA WriteKeeps ==
  ASSUME PlaceInv, NEW r \in Requests, WriteAddress(r)
  PROVE  PlaceInv'
<1> DEFINE job == up[r]
           new == [nb |-> job.nb, city |-> CityOf[job.nb], isDefault |-> Or(job.want, job.first),
                   at |-> Cardinality(db.used)]
           old == WithDefaults(job.off, {})
           rows == [old EXCEPT ![job.id] = new]
           waived == Waives(job.want, rows)
           whole == job.want = TRUE
<1>1. TablesOK /\ JobsOK
  BY DEF PlaceInv
<1>2. job.op = "createAddress" /\ job.id \in AddressIds /\ job.id \notin db.used
  BY <1>1 DEF WriteAddress, JobsOK, Jobs, IsJob, HeirJob, Foreign, AddressOps, ListOps, Fresh
<1>3. /\ DOMAIN old = AddressIds
      /\ \A a \in AddressIds \ Owned : old[a] = Null
      /\ \A a \in Owned : /\ {"nb", "city"} \subseteq DOMAIN old[a]
                          /\ old[a].nb = db.addresses[a].nb
                          /\ old[a].city = db.addresses[a].city
  BY <1>1, DefaultsKeepPlace
<1>4. whole \in BOOLEAN /\ CommitStep(r, [db EXCEPT !.addresses = rows, !.used = @ \union {job.id},
                                                     !.waived = waived], Idle, whole)
  BY DEF WriteAddress
<1> HIDE DEF waived, whole
<1>5. /\ db' = [db EXCEPT !.addresses = rows, !.used = @ \union {job.id}, !.waived = waived]
      /\ up' = [up EXCEPT ![r] = Idle]
      /\ blurred \ {"addresses"} \subseteq blurred'
      /\ overlapped \ {r} \subseteq overlapped'
  BY <1>1, <1>2, <1>4, CommitGhosts DEF ListOps
<1>6. {"nb", "city"} \subseteq DOMAIN new /\ CityOf[new.nb] = new.city
  OBVIOUS
<1> HIDE DEF new, old
<1>7. /\ Fields \subseteq DOMAIN db' /\ db'.addresses = rows
      /\ db'.used = db.used \union {job.id}
  BY <1>1, <1>5 DEF TablesOK, Fields
<1>8. DOMAIN rows = AddressIds /\ rows[job.id] = new /\ \A a \in AddressIds \ {job.id} : rows[a] = old[a]
  BY <1>2, <1>3
<1>9. Owned' \subseteq Owned \union {job.id} /\ job.id \notin Owned
  BY <1>1, <1>2, <1>3, <1>7, <1>8 DEF Owned, TablesOK
<1>10. \A a \in Owned : a \in AddressIds
  BY DEF Owned
<1> HIDE DEF rows, job
<1>11. Owned' \subseteq db'.used /\ db.used \subseteq db'.used
  BY <1>1, <1>7, <1>9 DEF TablesOK
<1>12. \A a \in Owned' \intersect Owned :
         /\ {"nb", "city"} \subseteq DOMAIN db'.addresses[a]
         /\ db'.addresses[a].nb = db.addresses[a].nb
         /\ db'.addresses[a].city = db.addresses[a].city
  BY <1>3, <1>7, <1>8, <1>9, <1>10
<1>13. \A a \in Owned' \ Owned :
         /\ a \notin db.used /\ {"nb", "city"} \subseteq DOMAIN db'.addresses[a]
         /\ CityOf[db'.addresses[a].nb] = db'.addresses[a].city
  BY <1>2, <1>6, <1>7, <1>8, <1>9
<1> QED
  BY ZenonT(60), <1>5, <1>7, <1>8, <1>11, <1>12, <1>13, RewriteStep

-----------------------------------------------------------------------------
(* Moves.                                                                  *)

\* A move that arrives was checked against the row as it is.
LEMMA MoveArrives ==
  ASSUME PlaceInv, NEW r \in Requests, NEW a \in AddressIds,
         NEW city \in Cities \union {Null}, NEW nb \in Neighborhoods \union {Null},
         Move(r, a, city, nb)
  PROVE  PlaceInv'
<1> DEFINE j == [op |-> "move", on |-> a, id |-> a, city |-> city, nb |-> nb]
<1>1. IsJob(j) /\ j.op = "move" /\ j.on = j.id /\ j.id = a
  BY DEF Jobs, IsJob
<1>2. a \in Owned /\ Fits(j, db.addresses[a])
  BY DEF Move, ensureCityAndNeighborhoodAreValid, Fits
<1>3. /\ up' = [up EXCEPT ![r] = j]
      /\ db' = db /\ overlapped' = overlapped /\ blurred' = blurred
  BY DEF Move, Arrive
<1> HIDE DEF j
<1>4. TablesOK'
  BY <1>3 DEF PlaceInv, TablesOK, Owned
<1>5. JobsOK'
  BY <1>1, <1>2, <1>3 DEF PlaceInv, TablesOK, JobsOK
<1>6. MovesFit'
  BY <1>1, <1>2, <1>3 DEF PlaceInv, MovesFit, JobsOK, Owned, Fits, Or
<1>7. PlaceConsistent'
  BY <1>3 DEF PlaceInv, PlaceConsistent, Owned
<1> QED
  BY <1>4, <1>5, <1>6, <1>7 DEF PlaceInv

\* One that commits leaves a place that fits, or it was overlapped; the moves it
\* overlaps are excused from now on, and the others are about other rows.
LEMMA MoveCommits ==
  ASSUME PlaceInv, NEW r \in Requests, WriteMove(r)
  PROVE  PlaceInv'
<1> DEFINE job == up[r]
           a == job.id
           row == db.addresses[a]
           new == [row EXCEPT !.nb = Or(job.nb, row.nb), !.city = Or(job.city, row.city)]
<1>1. TablesOK /\ JobsOK /\ MovesFit /\ PlaceConsistent
  BY DEF PlaceInv
<1>2. job.op = "move" /\ a \in Owned /\ a \in AddressIds /\ job.on = a /\ a # Null
  BY <1>1, AddressesAssumption DEF WriteMove, JobsOK, Owned
<1>3. {"nb", "city"} \subseteq DOMAIN row
  BY <1>1, <1>2 DEF TablesOK
<1>4. /\ {"nb", "city"} \subseteq DOMAIN new
      /\ new.nb = Or(job.nb, row.nb) /\ new.city = Or(job.city, row.city)
  BY <1>3
<1>5. /\ db' = [db EXCEPT !.addresses[a] = new]
      /\ up' = [up EXCEPT ![r] = Idle]
      /\ overlapped' = (overlapped \union Contenders(r)) \ {r}
      /\ blurred' = IF r \in overlapped THEN blurred \union {a}
                    ELSE IF Null \notin {job.nb, job.city} THEN blurred \ {a} ELSE blurred
  BY <1>2 DEF WriteMove, CommitStep
<1>6. r \notin overlapped => Fits(job, row)
  BY <1>1, <1>2 DEF MovesFit
<1> HIDE DEF new, row
<1>7. /\ Fields \subseteq DOMAIN db' /\ db'.used = db.used
      /\ DOMAIN db'.addresses = AddressIds
      /\ db'.addresses[a] = new /\ \A b \in AddressIds \ {a} : db'.addresses[b] = db.addresses[b]
  BY <1>1, <1>2, <1>5 DEF TablesOK, Fields
<1>8. Owned' \subseteq Owned
  BY <1>2, <1>7 DEF Owned
<1>9. TablesOK'
  BY <1>1, <1>4, <1>7, <1>8 DEF TablesOK, Owned
<1>10. IsJob(Idle) /\ Idle.op = "idle"
  BY IdleIsForeign
<1>11. JobsOK'
  BY <1>1, <1>5, <1>7, <1>10 DEF JobsOK
<1>12. ASSUME NEW s \in Requests, s \notin overlapped', up'[s].op = "move", up'[s].id \in Owned'
       PROVE  Fits(up'[s], db'.addresses[up'[s].id])
  <2>1. s # r /\ up'[s] = up[s]
    BY <1>1, <1>5, <1>10, <1>12 DEF JobsOK
  <2>2. s \notin overlapped /\ s \notin Contenders(r)
    BY <1>5, <1>12, <2>1
  <2>3. up[s].on = up[s].id /\ up[s].id # a
    BY <1>1, <1>2, <1>12, <2>1, <2>2 DEF JobsOK, Contenders
  <2>4. db'.addresses[up[s].id] = db.addresses[up[s].id] /\ up[s].id \in Owned
    BY <1>7, <1>8, <1>12, <2>1, <2>3 DEF Owned
  <2> QED
    BY <1>1, <1>12, <2>1, <2>2, <2>4 DEF MovesFit
<1>13. MovesFit'
  BY <1>12 DEF MovesFit
<1>14. a \notin blurred' => CityOf[new.nb] = new.city
  BY <1>4, <1>5, <1>6 DEF Fits
<1>15. \A b \in Owned' \ {a} : b \notin blurred' => b \in Owned /\ b \notin blurred
  BY <1>5, <1>8
<1>16. PlaceConsistent'
  BY <1>1, <1>7, <1>14, <1>15 DEF PlaceConsistent, Owned
<1> QED
  BY <1>9, <1>11, <1>13, <1>16 DEF PlaceInv

-----------------------------------------------------------------------------
(* Removals.                                                               *)

\* The row of a removed address is gone and its heir keeps its place.
LEMMA RemovalCommits ==
  ASSUME PlaceInv, NEW r \in Requests, WriteRemoval(r)
  PROVE  PlaceInv'
<1> DEFINE job == up[r]
           old == WithDefaults({}, job.heir)
           rows == [old EXCEPT ![job.id] = Null]
           waived == Waives(Null, rows)
<1>1. TablesOK /\ JobsOK
  BY DEF PlaceInv
<1>2. job.op = "removeAddress" /\ job.id \in AddressIds
  BY <1>1 DEF WriteRemoval, JobsOK, Jobs, IsJob, HeirJob, Foreign, AddressOps, ListOps
<1>3. /\ DOMAIN old = AddressIds
      /\ \A a \in AddressIds \ Owned : old[a] = Null
      /\ \A a \in Owned : /\ {"nb", "city"} \subseteq DOMAIN old[a]
                          /\ old[a].nb = db.addresses[a].nb
                          /\ old[a].city = db.addresses[a].city
  BY <1>1, DefaultsKeepPlace
<1>4. CommitStep(r, [db EXCEPT !.addresses = rows, !.waived = waived], Idle, FALSE)
  BY DEF WriteRemoval, CommitPart
<1> HIDE DEF waived, old
<1>5. /\ db' = [db EXCEPT !.addresses = rows, !.waived = waived]
      /\ up' = [up EXCEPT ![r] = Idle]
      /\ blurred \ {"addresses"} \subseteq blurred'
      /\ overlapped \ {r} \subseteq overlapped'
  BY <1>1, <1>2, <1>4, CommitGhosts DEF ListOps
<1>6. Fields \subseteq DOMAIN db' /\ db'.addresses = rows /\ db'.used = db.used
  BY <1>1, <1>5 DEF TablesOK, Fields
<1>7. DOMAIN rows = AddressIds /\ rows[job.id] = Null /\ \A a \in AddressIds \ {job.id} : rows[a] = old[a]
  BY <1>2, <1>3
<1>8. Owned' \subseteq Owned \ {job.id}
  BY <1>2, <1>3, <1>6, <1>7 DEF Owned
<1>9. \A a \in Owned : a \in AddressIds
  BY DEF Owned
<1> HIDE DEF rows, job
<1>10. \A a \in Owned' : /\ {"nb", "city"} \subseteq DOMAIN db'.addresses[a]
                         /\ db'.addresses[a].nb = db.addresses[a].nb
                         /\ db'.addresses[a].city = db.addresses[a].city
  BY <1>3, <1>6, <1>7, <1>8, <1>9
<1> QED
  BY <1>1, <1>5, <1>6, <1>7, <1>8, <1>10, RewriteStep, ZenonT(60) DEF TablesOK

\* With the account every row goes.
LEMMA AccountGoes ==
  ASSUME PlaceInv, NEW r \in Requests, WriteAccountGone(r)
  PROVE  PlaceInv'
<1> DEFINE rows == [a \in AddressIds |-> Null]
<1>1. TablesOK /\ JobsOK
  BY DEF PlaceInv
<1>2. CommitStep(r, [db EXCEPT !.gone = TRUE, !.addresses = rows], Idle, TRUE)
  BY DEF WriteAccountGone, Commit, CommitAnd
<1>3. up[r].op \in ListOps
  BY DEF WriteAccountGone, ListOps
<1>4. /\ db' = [db EXCEPT !.gone = TRUE, !.addresses = rows]
      /\ up' = [up EXCEPT ![r] = Idle]
      /\ blurred \ {"addresses"} \subseteq blurred'
      /\ overlapped \ {r} \subseteq overlapped'
  BY <1>1, <1>2, <1>3, CommitGhosts
<1>5. Fields \subseteq DOMAIN db' /\ db'.addresses = rows /\ db'.used = db.used
  BY <1>1, <1>4 DEF TablesOK, Fields
<1>6. Owned' = {}
  BY <1>5 DEF Owned
<1> QED
  BY <1>1, <1>4, <1>5, <1>6, RewriteStep DEF TablesOK

-----------------------------------------------------------------------------
(* The other requests, and the theorem.                                    *)

\* A request about a default, or to remove an address.
LEMMA OthersArrive ==
  ASSUME PlaceInv, NEW r \in Requests, NEW a \in AddressIds,
         \/ MakeDefault(r, a) \/ Decline(r, a) \/ HandOver(r, a) \/ RemoveAddress(r, a)
  PROVE  PlaceInv'
<1>1. CASE MakeDefault(r, a)
  <2>1. [op |-> "makeDefault", on |-> "addresses", id |-> a, off |-> Null] \in Jobs
    BY DEF Jobs
  <2> QED
    BY <1>1, <2>1, ArrivalIsQuiet DEF MakeDefault, IsJob
<1>2. CASE Decline(r, a)
  <2>1. [op |-> "decline", on |-> "addresses", id |-> a] \in Jobs
    BY DEF Jobs
  <2> QED
    BY <1>2, <2>1, ArrivalIsQuiet DEF Decline, IsJob
<1>3. CASE HandOver(r, a)
  <2> DEFINE heir == Newest(Owned \ {a})
             j == [op |-> "handOver", on |-> "addresses", id |-> a, heir |-> heir]
  <2>1. Arrive(r, j)
    BY <1>3 DEF HandOver
  <2> HIDE DEF heir
  <2>2. IsJob(j) /\ j.op # "move"
    BY DEF IsJob, HeirJob, Foreign, AddressOps, ListOps
  <2> QED
    BY <2>1, <2>2, ArrivalIsQuiet
<1>4. CASE RemoveAddress(r, a)
  <2> DEFINE was == db.addresses[a].isDefault
             j == [op |-> "removeAddress", on |-> "addresses", id |-> a, heir |-> {},
                   wasDefault |-> was, ready |-> FALSE]
  <2>1. Arrive(r, j)
    BY <1>4 DEF RemoveAddress
  <2> HIDE DEF was
  <2>2. IsJob(j) /\ j.op # "move"
    BY DEF IsJob, HeirJob, Foreign, AddressOps, ListOps
  <2> QED
    BY <2>1, <2>2, ArrivalIsQuiet
<1> QED
  BY <1>1, <1>2, <1>3, <1>4

\* The first statements of the transactions that change defaults.
LEMMA OthersGoOn ==
  ASSUME PlaceInv, NEW r \in Requests, ClearOthers(r) \/ DeleteAndChoose(r)
  PROVE  PlaceInv'
<1>1. IsJob(up[r])
  BY DEF PlaceInv, JobsOK
<1>2. CASE ClearOthers(r)
  <2> DEFINE j == [up[r] EXCEPT !.off = Defaults]
  <2>1. up[r] \in [op : {"makeDefault"}, on : {"addresses"}, id : AddressIds,
                   off : (SUBSET AddressIds) \union {Null}]
    BY <1>1, <1>2 DEF ClearOthers, IsJob, HeirJob, Foreign, AddressOps, ListOps, Jobs
  <2>2. Defaults \in SUBSET AddressIds
    BY DEF Defaults, Owned
  <2>3. j \in Jobs /\ j.op = "makeDefault"
    BY <2>1, <2>2 DEF Jobs
  <2>4. Proceed(r, j)
    BY <1>2 DEF ClearOthers
  <2> QED
    BY <2>3, <2>4, ProceedIsQuiet DEF IsJob
<1>3. CASE DeleteAndChoose(r)
  <2> DEFINE others == Owned \ {up[r].id}
             heir == IF up[r].wasDefault /\ others # {} THEN {Newest(others)} ELSE {}
             j == [up[r] EXCEPT !.ready = TRUE, !.heir = heir]
  <2>1. HeirJob(up[r])
    BY <1>1, <1>3 DEF DeleteAndChoose, IsJob, Jobs, Foreign, AddressOps, ListOps
  <2>2. Proceed(r, j)
    BY <1>3 DEF DeleteAndChoose
  <2> HIDE DEF heir
  <2>3. IsJob(j) /\ j.op # "move"
    BY <2>1 DEF HeirJob, Foreign, AddressOps, ListOps, IsJob
  <2> QED
    BY <2>2, <2>3, ProceedIsQuiet
<1> QED
  BY <1>2, <1>3

\* Their commits change defaults only.
LEMMA OthersCommit ==
  ASSUME PlaceInv, NEW r \in Requests, WriteDefault(r) \/ WriteDecline(r) \/ WriteHandOver(r)
  PROVE  PlaceInv'
<1>1. CASE WriteDefault(r)
  <2>1. CommitStep(r, [db EXCEPT !.addresses = WithDefaults(up[r].off, {up[r].id}),
                                 !.waived = FALSE], Idle, TRUE)
    BY <1>1 DEF WriteDefault, Commit, CommitAnd
  <2> QED
    BY <1>1, <2>1, DefaultsStep DEF WriteDefault, ListOps
<1>2. CASE WriteDecline(r)
  <2> DEFINE rows == WithDefaults({up[r].id}, {})
             waived == Waives(FALSE, rows)
  <2>1. CommitStep(r, [db EXCEPT !.addresses = rows, !.waived = waived], Idle, FALSE)
    BY <1>2 DEF WriteDecline, CommitPart
  <2> QED
    BY <1>2, <2>1, DefaultsStep DEF WriteDecline, ListOps
<1>3. CASE WriteHandOver(r)
  <2>1. CommitStep(r, [db EXCEPT !.addresses = WithDefaults({up[r].id}, {up[r].heir}),
                                 !.waived = FALSE], Idle, FALSE)
    BY <1>3 DEF WriteHandOver, CommitPart
  <2> QED
    BY <1>3, <2>1, DefaultsStep DEF WriteHandOver, ListOps
<1> QED
  BY <1>1, <1>2, <1>3

\* A request that fails leaves the tables alone.
LEMMA FailIsQuiet ==
  ASSUME PlaceInv, NEW r \in Requests, Fail(r)
  PROVE  PlaceInv'
<1>1. IsJob(Idle) /\ Idle.op # "move"
  BY IdleIsForeign
<1> QED
  BY <1>1, QuietStep DEF Fail

\* Every step of a request keeps the places.
LEMMA StepKeepsPlace ==
  ASSUME PlaceInv, NEW r \in Requests, AddressStep(r) \/ Fail(r)
  PROVE  PlaceInv'
<1>1. CASE AddressStep(r)
  <2>1. CASE \E a \in AddressIds :
               \E nb \in Neighborhoods, want \in BOOLEAN \union {Null} : CreateAddress(r, a, nb, want)
    BY <2>1, CreateKeeps
  <2>2. CASE \E a \in AddressIds :
               \E city \in Cities \union {Null}, nb \in Neighborhoods \union {Null} :
                 Move(r, a, city, nb)
    BY <2>2, MoveArrives
  <2>3. CASE \E a \in AddressIds :
               MakeDefault(r, a) \/ Decline(r, a) \/ HandOver(r, a) \/ RemoveAddress(r, a)
    BY <2>3, OthersArrive
  <2>4. CASE ClearAndCount(r) \/ WriteAddress(r)
    BY <2>4, CountKeeps, WriteKeeps
  <2>5. CASE WriteMove(r)
    BY <2>5, MoveCommits
  <2>6. CASE ClearOthers(r) \/ DeleteAndChoose(r)
    BY <2>6, OthersGoOn
  <2>7. CASE WriteDefault(r) \/ WriteDecline(r) \/ WriteHandOver(r)
    BY <2>7, OthersCommit
  <2>8. CASE WriteRemoval(r) \/ WriteAccountGone(r)
    BY <2>8, RemovalCommits, AccountGoes
  <2>9. CASE DeleteAccount(r)
    <3>1. [op |-> "deleteMyAccount", on |-> "addresses"] \in Jobs
      BY DEF Jobs
    <3> QED
      BY <2>9, <3>1, ArrivalIsQuiet DEF DeleteAccount, IsJob
  <2> QED
    BY <1>1, <2>1, <2>2, <2>3, <2>4, <2>5, <2>6, <2>7, <2>8, <2>9 DEF AddressStep
<1>2. CASE Fail(r)
  BY <1>2, FailIsQuiet
<1> QED
  BY <1>1, <1>2

-----------------------------------------------------------------------------
(* Deleting the account.                                                   *)

\* Once the account is gone, only moves are under way that it did not overlap.
GoneOK ==
  db.gone => /\ \A r \in Requests \ overlapped : up[r].op \notin ListOps
             /\ "addresses" \notin blurred => Owned = {}

\* One that goes on stays what it is.
LEMMA ProceedKeepsGone ==
  ASSUME PlaceInv, GoneOK, NEW r \in Requests,
         ClearAndCount(r) \/ ClearOthers(r) \/ DeleteAndChoose(r)
  PROVE  GoneOK'
<1>1. IsJob(up[r]) /\ DOMAIN up = Requests
  BY DEF PlaceInv, JobsOK
<1>2. "op" \in DOMAIN up[r]
  BY <1>1 DEF ClearAndCount, ClearOthers, DeleteAndChoose,
              IsJob, HeirJob, Foreign, AddressOps, ListOps, Jobs
<1>3. /\ \A s \in Requests : up'[s].op = up[s].op
      /\ db' = db /\ overlapped' = overlapped /\ blurred' = blurred
  BY <1>1, <1>2 DEF ClearAndCount, ClearOthers, DeleteAndChoose, Proceed
<1> QED
  BY <1>3 DEF GoneOK, Owned

\* A change of the list that commits after the account is gone was overlapped.
LEMMA CommitKeepsGone ==
  ASSUME PlaceInv, GoneOK, NEW r \in Requests, NEW tables, NEW whole \in BOOLEAN,
         up[r].op \in ListOps, CommitStep(r, tables, Idle, whole), db'.gone = db.gone
  PROVE  GoneOK'
<1>1. up[r].on = "addresses" /\ "addresses" # Null
  BY AddressesAssumption DEF PlaceInv, JobsOK, Jobs, IsJob, HeirJob, Foreign, AddressOps, ListOps
<1>2. Idle.op = "idle"
  BY DEF Idle
<1>3. SUFFICES ASSUME db.gone PROVE GoneOK'
  BY DEF GoneOK
<1>4. r \in overlapped
  BY <1>3 DEF GoneOK
<1>5. "addresses" \in blurred'
  BY <1>1, <1>4 DEF CommitStep
<1>6. ASSUME NEW s \in Requests \ overlapped' PROVE up'[s].op \notin ListOps
  BY <1>2, <1>3, <1>6 DEF PlaceInv, JobsOK, CommitStep, GoneOK, ListOps
<1> QED
  BY <1>5, <1>6 DEF GoneOK

\* Changes of the list other than the deletion leave the account as it is.
LEMMA ListKeepsGone ==
  ASSUME PlaceInv, GoneOK, NEW r \in Requests,
         \/ WriteAddress(r) \/ WriteDefault(r) \/ WriteDecline(r)
         \/ WriteHandOver(r) \/ WriteRemoval(r)
  PROVE  GoneOK'
<1>1. Fields \subseteq DOMAIN db
  BY DEF PlaceInv, TablesOK
<1>2. CASE WriteAddress(r)
  <2> DEFINE rows == [WithDefaults(up[r].off, {}) EXCEPT ![up[r].id] =
                        [nb |-> up[r].nb, city |-> CityOf[up[r].nb],
                         isDefault |-> Or(up[r].want, up[r].first), at |-> Cardinality(db.used)]]
             used == db.used \union {up[r].id}
             waived == Waives(up[r].want, rows)
             whole == up[r].want = TRUE
             tables == [db EXCEPT !.addresses = rows, !.used = used, !.waived = waived]
  <2>1. CommitStep(r, tables, Idle, whole) /\ up[r].op \in ListOps /\ whole \in BOOLEAN
    BY <1>2 DEF WriteAddress, ListOps
  <2> HIDE DEF rows, used, waived, whole
  <2>2. tables.gone = db.gone
    BY <1>1 DEF Fields
  <2>3. db' = tables
    BY <2>1 DEF CommitStep
  <2> QED
    BY <2>1, <2>2, <2>3, CommitKeepsGone
<1>3. ASSUME NEW rows, NEW waived, NEW whole \in BOOLEAN, up[r].op \in ListOps,
             CommitStep(r, [db EXCEPT !.addresses = rows, !.waived = waived], Idle, whole)
      PROVE  GoneOK'
  <2>1. db'.gone = db.gone
    BY <1>1, <1>3 DEF CommitStep, Fields
  <2> QED
    BY <1>3, <2>1, CommitKeepsGone
<1>4. CASE WriteDefault(r)
  BY <1>3, <1>4 DEF WriteDefault, Commit, CommitAnd, ListOps
<1>5. CASE WriteDecline(r)
  BY <1>3, <1>5 DEF WriteDecline, CommitPart, ListOps
<1>6. CASE WriteHandOver(r)
  BY <1>3, <1>6 DEF WriteHandOver, CommitPart, ListOps
<1>7. CASE WriteRemoval(r)
  BY <1>3, <1>7 DEF WriteRemoval, CommitPart, ListOps
<1> QED
  BY <1>2, <1>4, <1>5, <1>6, <1>7

\* A move that commits adds no address and says nothing of the list.
LEMMA MoveKeepsGone ==
  ASSUME PlaceInv, GoneOK, NEW r \in Requests, WriteMove(r)
  PROVE  GoneOK'
<1> DEFINE a == up[r].id
           row == db.addresses[a]
           new == [row EXCEPT !.nb = Or(up[r].nb, row.nb), !.city = Or(up[r].city, row.city)]
           whole == Null \notin {up[r].nb, up[r].city}
<1>1. /\ up[r].op = "move" /\ a \in Owned /\ a \in AddressIds
      /\ up[r].on = a /\ a # Null /\ a # "addresses"
  BY AddressesAssumption DEF WriteMove, PlaceInv, JobsOK, Owned
<1>2. CommitStep(r, [db EXCEPT !.addresses[a] = new], Idle, whole)
  BY DEF WriteMove
<1> HIDE DEF new, whole
<1>3. /\ db' = [db EXCEPT !.addresses[a] = new] /\ up' = [up EXCEPT ![r] = Idle]
      /\ overlapped \ {r} \subseteq overlapped'
      /\ "addresses" \in blurred => "addresses" \in blurred'
  BY <1>1, <1>2 DEF CommitStep
<1>4. db'.gone = db.gone
  BY <1>3 DEF PlaceInv, TablesOK, Fields
<1>5. Owned' \subseteq Owned
  BY <1>1, <1>3 DEF PlaceInv, TablesOK, Fields, Owned
<1>6. Idle.op = "idle"
  BY DEF Idle
<1>7. \A s \in Requests \ overlapped' : db.gone => up'[s].op \notin ListOps
  BY <1>3, <1>6 DEF PlaceInv, JobsOK, GoneOK, ListOps
<1> QED
  BY <1>3, <1>4, <1>5, <1>7 DEF GoneOK

\* The deletion takes every address, and every change of the list under way is overlapped.
LEMMA DeletionKeepsGone ==
  ASSUME PlaceInv, NEW r \in Requests, WriteAccountGone(r)
  PROVE  GoneOK'
<1> DEFINE rows == [a \in AddressIds |-> Null]
<1>1. /\ db' = [db EXCEPT !.gone = TRUE, !.addresses = rows]
      /\ up' = [up EXCEPT ![r] = Idle]
      /\ overlapped' = (overlapped \union Contenders(r)) \ {r}
  BY DEF WriteAccountGone, Commit, CommitAnd, CommitStep
<1>2. Owned' = {}
  BY <1>1 DEF PlaceInv, TablesOK, Fields, Owned
<1>3. up[r].on = "addresses" /\ "addresses" # Null
  BY AddressesAssumption DEF WriteAccountGone, PlaceInv, JobsOK, Jobs, IsJob, HeirJob, Foreign, AddressOps, ListOps
<1>4. ASSUME NEW s \in Requests \ overlapped' PROVE up'[s].op \notin ListOps
  <2>1. CASE s = r
    BY <1>1, <2>1 DEF Idle, PlaceInv, JobsOK, ListOps
  <2>2. CASE s # r
    <3>1. up'[s] = up[s] /\ s \notin Contenders(r)
      BY <1>1, <1>4, <2>2 DEF PlaceInv, JobsOK
    <3>2. IsJob(up[s]) /\ up[s].on # "addresses"
      BY <1>3, <3>1 DEF PlaceInv, JobsOK, Contenders
    <3> QED
      BY <3>1, <3>2 DEF Jobs, IsJob, HeirJob, Foreign, AddressOps, ListOps
  <2> QED
    BY <2>1, <2>2
<1> QED
  BY <1>2, <1>4 DEF GoneOK

\* Every step of a request keeps what is said of a deleted account.
LEMMA StepKeepsGone ==
  ASSUME PlaceInv, GoneOK, NEW r \in Requests, AddressStep(r) \/ Fail(r)
  PROVE  GoneOK'
<1>1. CASE db' = db /\ ~db.gone
  BY <1>1 DEF GoneOK
<1>2. CASE Fail(r)
  BY <1>2 DEF Fail, Idle, PlaceInv, JobsOK, GoneOK, Owned, ListOps
<1>3. CASE ClearAndCount(r) \/ ClearOthers(r) \/ DeleteAndChoose(r)
  BY <1>3, ProceedKeepsGone
<1>4. CASE WriteAddress(r) \/ WriteDefault(r) \/ WriteDecline(r) \/ WriteHandOver(r) \/ WriteRemoval(r)
  BY <1>4, ListKeepsGone
<1>5. CASE WriteMove(r)
  BY <1>5, MoveKeepsGone
<1>6. CASE WriteAccountGone(r)
  BY <1>6, DeletionKeepsGone
<1>7. CASE DeleteAccount(r) \/
           \E a \in AddressIds :
             \/ \E nb \in Neighborhoods, want \in BOOLEAN \union {Null} : CreateAddress(r, a, nb, want)
             \/ \E city \in Cities \union {Null}, nb \in Neighborhoods \union {Null} : Move(r, a, city, nb)
             \/ MakeDefault(r, a) \/ Decline(r, a) \/ HandOver(r, a) \/ RemoveAddress(r, a)
  BY <1>1, <1>7 DEF DeleteAccount, CreateAddress, Move, MakeDefault, Decline, HandOver, RemoveAddress, Arrive
<1> QED
  BY <1>2, <1>3, <1>4, <1>5, <1>6, <1>7 DEF AddressStep

-----------------------------------------------------------------------------
(* The default address.                                                    *)

AddressRows ==
  [nb : Neighborhoods, city : Cities, isDefault : BOOLEAN, at : 0..Cardinality(AddressIds)]

\* Rows are rows, and their keys were taken from those there are.
RowsOK == db.used \subseteq AddressIds /\ \A a \in Owned : db.addresses[a] \in AddressRows

\* The columns of a job that JobsOK leaves open.
HasRead(j) ==
  /\ j.op = "createAddress" /\ j.want # TRUE => j.off = {}
  /\ j.op = "handOver" => "heir" \in DOMAIN j
  /\ j.op = "removeAddress" => {"heir", "ready", "wasDefault"} \subseteq DOMAIN j

\* What a request has read of the list, and what it has decided from it, still holds.
StillTrue(j) ==
  /\ j.op = "createAddress" /\ j.first # Null =>
       (j.first <=> Owned = {}) /\ (j.want = TRUE => j.off = Defaults)
  /\ j.op = "makeDefault" /\ j.off # Null => j.off = Defaults
  /\ j.op = "handOver" => j.id \in Defaults
  /\ j.op = "removeAddress" =>
       /\ j.id \in Owned /\ (j.wasDefault <=> j.id \in Defaults)
       /\ j.ready => \/ j.wasDefault /\ \E h \in Owned \ {j.id} : j.heir = {h}
                     \/ j.heir = {} /\ (~j.wasDefault \/ Owned = {j.id})

\* One default, or the customer asked for none.
OneOrWaived == (\A a, b \in Defaults : a = b) /\ (Defaults = {} => db.waived)

DefaultInv ==
  /\ RowsOK
  /\ \A r \in Requests : HasRead(up[r]) /\ (r \notin overlapped => StillTrue(up[r]))
  /\ Owned # {} /\ "addresses" \notin blurred => OneOrWaived

\* Among some numbers that are bounded there is a largest.
LEMMA LargestOfSome ==
  ASSUME NEW ids, ids # {}, NEW N \in Nat, NEW f, \A a \in ids : f[a] \in 0..N
  PROVE  \E a \in ids : \A b \in ids : f[b] <= f[a]
<1> DEFINE Rooms == {N - f[a] : a \in ids}
           R == OpToRel(<, Nat)
<1>1. Rooms \subseteq Nat /\ Rooms # {}
  OBVIOUS
<1>2. IsWellFoundedOn(R, Nat)
  BY NatLessThanWellFounded
<1>3. \A m, n \in Nat : m < n => <<m, n>> \in R
  BY DEF OpToRel
<1> HIDE DEF R
<1>4. PICK least \in Rooms : \A n \in Rooms : <<n, least>> \notin R
  BY <1>1, <1>2, WFMin
<1>5. PICK a \in ids : least = N - f[a]
  BY <1>4
<1>6. ASSUME NEW b \in ids PROVE f[b] <= f[a]
  <2>1. N - f[b] \in Rooms
    OBVIOUS
  <2>2. ~(N - f[b] < N - f[a])
    BY <1>1, <1>3, <1>4, <1>5, <2>1
  <2> QED
    BY <2>2
<1> QED
  BY <1>6

\* The newest of some addresses is one of them.
LEMMA NewestIsOne ==
  ASSUME RowsOK, NEW ids, ids \subseteq Owned, ids # {}
  PROVE  Newest(ids) \in ids
<1> DEFINE f == [a \in ids |-> db.addresses[a].at]
<1>1. Cardinality(AddressIds) \in Nat
  BY AddressesAssumption, FS_CardinalityType
<1>2. \A a \in ids : f[a] \in 0..Cardinality(AddressIds)
  BY DEF RowsOK, AddressRows
<1>3. \E a \in ids : \A b \in ids : f[b] <= f[a]
  BY <1>1, <1>2, LargestOfSome
<1>4. \E a \in ids : \A b \in ids : db.addresses[b].at <= db.addresses[a].at
  BY <1>3
<1> QED
  BY <1>4 DEF Newest

\* No row is Null.
LEMMA RowsAreThere == Null \notin AddressRows
<1>1. Cardinality(AddressIds) \in Nat
  BY AddressesAssumption, FS_CardinalityType
<1> QED
  BY <1>1, AddressesAssumption DEF AddressRows

\* How many keys were taken is a time of creation.
LEMMA CountIsTime ==
  ASSUME RowsOK
  PROVE  Cardinality(db.used) \in 0..Cardinality(AddressIds)
<1>1. /\ Cardinality(AddressIds) \in Nat
      /\ IsFiniteSet(db.used) /\ Cardinality(db.used) <= Cardinality(AddressIds)
  BY AddressesAssumption, FS_CardinalityType, FS_Subset DEF RowsOK
<1>2. Cardinality(db.used) \in Nat
  BY <1>1, FS_CardinalityType
<1> QED
  BY <1>1, <1>2

\* What WithDefaults makes of the rows.
LEMMA DefaultsOfRows ==
  ASSUME PlaceInv, RowsOK, NEW off, NEW on
  PROVE  LET rows == WithDefaults(off, on)
         IN  /\ DOMAIN rows = AddressIds
             /\ \A a \in AddressIds \ Owned : rows[a] = Null
             /\ \A a \in Owned : /\ rows[a] \in AddressRows
                                 /\ rows[a].isDefault <=> (a \in Defaults /\ a \notin off) \/ a \in on
<1> DEFINE rows == WithDefaults(off, on)
<1>1. DOMAIN rows = AddressIds /\ \A a \in AddressIds \ Owned : rows[a] = Null
  BY DEF WithDefaults
<1>2. ASSUME NEW a \in Owned
      PROVE  /\ rows[a] \in AddressRows
             /\ rows[a].isDefault <=> (a \in Defaults /\ a \notin off) \/ a \in on
  <2> DEFINE row == db.addresses[a]
             new == (row.isDefault /\ a \notin off) \/ a \in on
  <2>1. row \in AddressRows /\ a \in AddressIds
    BY DEF RowsOK, Owned
  <2>2. rows[a] = [row EXCEPT !.isDefault = new]
    BY <2>1 DEF WithDefaults
  <2>3. new \in BOOLEAN
    OBVIOUS
  <2>4. a \in Defaults <=> row.isDefault
    BY DEF Defaults
  <2>5. new <=> (a \in Defaults /\ a \notin off) \/ a \in on
    BY <2>4
  <2> HIDE DEF row, new
  <2>6. rows[a] \in AddressRows /\ rows[a].isDefault = new
    BY <2>1, <2>2, <2>3 DEF AddressRows
  <2> QED
    BY <2>5, <2>6
<1> QED
  BY <1>1, <1>2

\* Nothing in the tables changes, and the request has read what is there.
LEMMA ReadsAreTrue ==
  ASSUME PlaceInv, DefaultInv, NEW r \in Requests, NEW j, HasRead(j),
         r \notin overlapped' => StillTrue(j),
         db' = db, blurred' = blurred, up' = [up EXCEPT ![r] = j],
         overlapped \ {r} \subseteq overlapped'
  PROVE  DefaultInv'
<1>1. Owned' = Owned /\ Defaults' = Defaults
  BY DEF Owned, Defaults
<1>2. RowsOK'
  BY <1>1 DEF DefaultInv, RowsOK
<1>3. ASSUME NEW s \in Requests
      PROVE  HasRead(up'[s]) /\ (s \notin overlapped' => StillTrue(up'[s]))
  <2>1. CASE s = r
    BY <2>1 DEF PlaceInv, JobsOK
  <2>2. CASE s # r
    BY <2>2 DEF PlaceInv, JobsOK, DefaultInv
  <2> QED
    BY <2>1, <2>2
<1>4. (\A s \in Requests : HasRead(up[s]) /\ (s \notin overlapped => StillTrue(up[s])))'
  BY <1>1, <1>3, ZenonT(60) DEF HasRead, StillTrue
<1>5. (Owned # {} /\ "addresses" \notin blurred => OneOrWaived)'
  BY <1>1 DEF DefaultInv, OneOrWaived
<1> QED
  BY <1>2, <1>4, <1>5 DEF DefaultInv
\* A change of the list that commits: all others under way are overlapped, so only
\* what the tables are left with matters.
LEMMA ListWritten ==
  ASSUME PlaceInv, DefaultInv, NEW r \in Requests, up[r].op \in ListOps,
         NEW tables, NEW whole \in BOOLEAN, CommitStep(r, tables, Idle, whole), RowsOK',
         Owned' # {} /\ r \notin overlapped /\ (whole \/ "addresses" \notin blurred) => OneOrWaived'
  PROVE  DefaultInv'
<1>1. DOMAIN up = Requests /\ \A s \in Requests : IsJob(up[s])
  BY DEF PlaceInv, JobsOK
<1>2. up[r].on = "addresses" /\ "addresses" # Null
  BY <1>1, AddressesAssumption DEF Jobs, IsJob, HeirJob, Foreign, AddressOps, ListOps
<1>3. /\ up' = [up EXCEPT ![r] = Idle]
      /\ overlapped' = (overlapped \union Contenders(r)) \ {r}
      /\ blurred' = IF r \in overlapped THEN blurred \union {"addresses"}
                    ELSE IF whole THEN blurred \ {"addresses"} ELSE blurred
  BY <1>2 DEF CommitStep
<1>4. ASSUME NEW s \in Requests
      PROVE  HasRead(up'[s]) /\ (s \notin overlapped' => up'[s].op \notin ListOps)
  <2>1. CASE s = r
    BY <1>1, <1>3, <2>1 DEF Idle, HasRead, ListOps
  <2>2. CASE s # r
    <3>1. up'[s] = up[s] /\ HasRead(up[s])
      BY <1>1, <1>3, <2>2 DEF DefaultInv
    <3>2. s \notin overlapped' => up[s].on # "addresses"
      BY <1>2, <1>3, <2>2 DEF Contenders
    <3>3. up[s].on # "addresses" => up[s].op \notin ListOps
      BY <1>1 DEF Jobs, IsJob, HeirJob, Foreign, AddressOps, ListOps
    <3> QED
      BY <3>1, <3>2, <3>3
  <2> QED
    BY <2>1, <2>2
<1>5. (\A s \in Requests : HasRead(up[s]) /\ (s \notin overlapped => StillTrue(up[s])))'
  BY <1>4 DEF HasRead, StillTrue, ListOps
<1>6. (Owned # {} /\ "addresses" \notin blurred => OneOrWaived)'
  BY <1>3
<1> QED
  BY <1>5, <1>6 DEF DefaultInv

\* What Waives says of the rows that are written.
LEMMA WaivesWhenNone ==
  ASSUME NEW want, NEW rows, db'.addresses = rows
  PROVE  Waives(want, rows) <=> Defaults' = {} /\ (db.waived \/ want = FALSE)
<1>1. (\E a \in AddressIds : rows[a] # Null /\ rows[a].isDefault) <=> Defaults' # {}
  BY DEF Defaults, Owned
<1> QED
  BY <1>1 DEF Waives

\* The defaults that are left when a transaction only rewrites them.
LEMMA DefaultsRewritten ==
  ASSUME PlaceInv, RowsOK, NEW off, NEW on,
         db'.addresses = WithDefaults(off, on), db'.used = db.used
  PROVE  /\ RowsOK' /\ Owned' = Owned
         /\ Defaults' = (Defaults \ off) \union (on \intersect Owned)
<1> DEFINE rows == WithDefaults(off, on)
<1>1. /\ \A a \in AddressIds \ Owned : rows[a] = Null
      /\ \A a \in Owned : /\ rows[a] \in AddressRows
                          /\ rows[a].isDefault <=> (a \in Defaults /\ a \notin off) \/ a \in on
  BY DefaultsOfRows
<1> HIDE DEF rows
<1>2. db'.addresses = rows
  BY DEF rows
<1>3. Owned' = Owned
  BY <1>1, <1>2, RowsAreThere DEF Owned
<1>4. RowsOK'
  <2>1. \A a \in Owned' : db'.addresses[a] \in AddressRows
    BY <1>1, <1>2, <1>3
  <2> QED
    BY <2>1 DEF RowsOK, AddressRows
<1>5. Defaults' = {a \in Owned : rows[a].isDefault}
  BY <1>2, <1>3 DEF Defaults
<1>6. Defaults \subseteq Owned
  BY DEF Defaults
<1>7. Defaults' = (Defaults \ off) \union (on \intersect Owned)
  BY <1>1, <1>5, <1>6
<1> QED
  BY <1>3, <1>4, <1>7

\* What a commit that rewrites the defaults leaves.
LEMMA RewriteCommits ==
  ASSUME PlaceInv, DefaultInv, NEW r \in Requests, up[r].op \in ListOps,
         NEW off, NEW on, NEW waived, NEW whole \in BOOLEAN,
         CommitStep(r, [db EXCEPT !.addresses = WithDefaults(off, on), !.waived = waived], Idle, whole)
  PROVE  /\ RowsOK' /\ Owned' = Owned
         /\ Defaults' = (Defaults \ off) \union (on \intersect Owned)
         /\ db'.addresses = WithDefaults(off, on) /\ db'.waived = waived
<1> DEFINE rows == WithDefaults(off, on)
<1> HIDE DEF rows
<1>1. db' = [db EXCEPT !.addresses = rows, !.waived = waived]
  BY DEF CommitStep, rows
<1>2. db'.addresses = rows /\ db'.waived = waived /\ db'.used = db.used
  BY <1>1 DEF PlaceInv, TablesOK, Fields
<1> QED
  BY <1>2, DefaultsRewritten DEF rows, DefaultInv

\* One address becomes the default and all others are cleared.
LEMMA DefaultStep ==
  ASSUME PlaceInv, DefaultInv, NEW r \in Requests, WriteDefault(r)
  PROVE  DefaultInv'
<1> DEFINE off == up[r].off
           on == {up[r].id}
           tables == [db EXCEPT !.addresses = WithDefaults(off, on), !.waived = FALSE]
<1>1. /\ up[r].op = "makeDefault" /\ off # Null /\ up[r].id \in Owned
      /\ up[r].op \in ListOps
      /\ CommitStep(r, tables, Idle, TRUE)
  BY DEF WriteDefault, Commit, CommitAnd, ListOps
<1>2. r \notin overlapped => off = Defaults
  BY <1>1 DEF DefaultInv, StillTrue
<1> HIDE DEF off, on
<1>3. RowsOK' /\ Defaults' = (Defaults \ off) \union (on \intersect Owned)
  BY <1>1, RewriteCommits
<1>4. r \notin overlapped => Defaults' = {up[r].id}
  BY <1>1, <1>2, <1>3 DEF on
<1>5. r \notin overlapped => OneOrWaived'
  BY <1>4 DEF OneOrWaived
<1> HIDE DEF tables
<1> QED
  BY <1>1, <1>3, <1>5, ListWritten

\* A default that is declined may leave the customer without one, by choice.
LEMMA DeclineStep ==
  ASSUME PlaceInv, DefaultInv, NEW r \in Requests, WriteDecline(r)
  PROVE  DefaultInv'
<1> DEFINE off == {up[r].id}
           on == {}
           rows == WithDefaults(off, on)
           waived == Waives(FALSE, rows)
           tables == [db EXCEPT !.addresses = rows, !.waived = waived]
<1>1. up[r].op \in ListOps /\ CommitStep(r, tables, Idle, FALSE)
  BY DEF WriteDecline, CommitPart, ListOps
<1> HIDE DEF off, on, waived
<1>2. /\ RowsOK' /\ Owned' = Owned /\ Defaults' = (Defaults \ off) \union (on \intersect Owned)
      /\ db'.addresses = rows /\ db'.waived = waived
  BY <1>1, RewriteCommits
<1>3. waived <=> Defaults' = {}
  BY <1>2, WaivesWhenNone DEF waived
<1> HIDE DEF tables, rows
<1>4. Defaults' \subseteq Defaults
  BY <1>2 DEF on
<1>5. Owned' # {} /\ "addresses" \notin blurred => OneOrWaived'
  BY <1>2, <1>3, <1>4 DEF DefaultInv, OneOrWaived
<1> QED
  BY <1>1, <1>2, <1>5, ListWritten

\* The one default is handed over.
LEMMA HandOverStep ==
  ASSUME PlaceInv, DefaultInv, NEW r \in Requests, WriteHandOver(r)
  PROVE  DefaultInv'
<1> DEFINE off == {up[r].id}
           on == {up[r].heir}
           tables == [db EXCEPT !.addresses = WithDefaults(off, on), !.waived = FALSE]
<1>1. /\ up[r].op = "handOver" /\ up[r].heir \in Owned
      /\ up[r].op \in ListOps
      /\ CommitStep(r, tables, Idle, FALSE)
  BY DEF WriteHandOver, CommitPart, ListOps
<1> HIDE DEF off, on
<1>2. /\ RowsOK' /\ Owned' = Owned
      /\ Defaults' = (Defaults \ off) \union (on \intersect Owned)
  BY <1>1, RewriteCommits
<1> HIDE DEF tables
<1>3. r \notin overlapped => up[r].id \in Defaults
  BY <1>1 DEF DefaultInv, StillTrue
<1>4. ASSUME r \notin overlapped, Owned # {}, "addresses" \notin blurred
      PROVE  OneOrWaived'
  <2>1. Defaults = off
    BY <1>3, <1>4 DEF DefaultInv, OneOrWaived, off
  <2>2. Defaults' = on
    BY <1>1, <1>2, <2>1 DEF on
  <2> QED
    BY <2>2 DEF OneOrWaived, on
<1> QED
  BY <1>1, <1>2, <1>4, ListWritten
\* A new address: the default if it is to be, or if it is the first and nothing is said.
LEMMA NewAddressStep ==
  ASSUME PlaceInv, DefaultInv, NEW r \in Requests, WriteAddress(r)
  PROVE  DefaultInv'
<1> DEFINE job == up[r]
           on == {}
           old == WithDefaults(job.off, on)
           flag == Or(job.want, job.first)
           at == Cardinality(db.used)
           new == [nb |-> job.nb, city |-> CityOf[job.nb], isDefault |-> flag, at |-> at]
           rows == [old EXCEPT ![job.id] = new]
           used == db.used \union {job.id}
           waived == Waives(job.want, rows)
           whole == job.want = TRUE
           tables == [db EXCEPT !.addresses = rows, !.used = used, !.waived = waived]
<1>1. /\ job.op = "createAddress" /\ job.op \in ListOps /\ job.first # Null
      /\ job.id \notin db.used /\ CommitStep(r, tables, Idle, whole)
  BY DEF WriteAddress, Fresh, ListOps
<1>2. job \in [op : {"createAddress"}, on : {"addresses"}, id : AddressIds, nb : Neighborhoods,
               want : BOOLEAN \union {Null}, off : SUBSET AddressIds, first : BOOLEAN \union {Null}]
  BY <1>1 DEF PlaceInv, JobsOK, Jobs, IsJob, HeirJob, Foreign, AddressOps, ListOps
<1>3. flag \in BOOLEAN
  BY <1>1, <1>2 DEF Or
<1>4. new \in AddressRows /\ new.isDefault = flag
  <2>1. at \in 0..Cardinality(AddressIds)
    BY CountIsTime DEF DefaultInv
  <2>2. job.nb \in Neighborhoods /\ CityOf[job.nb] \in Cities
    BY <1>2 DEF Cities
  <2> HIDE DEF flag, at, job
  <2> QED
    BY <1>3, <2>1, <2>2 DEF AddressRows
<1>5. /\ DOMAIN old = AddressIds
      /\ \A a \in AddressIds \ Owned : old[a] = Null
      /\ \A a \in Owned : /\ old[a] \in AddressRows
                          /\ old[a].isDefault <=> (a \in Defaults /\ a \notin job.off) \/ a \in on
  BY DefaultsOfRows DEF DefaultInv
<1> HIDE DEF old, new, flag
<1>6. DOMAIN rows = AddressIds /\ rows[job.id] = new /\ \A a \in AddressIds \ {job.id} : rows[a] = old[a]
  BY <1>2, <1>5
<1> HIDE DEF rows, waived, used
<1>7. db'.addresses = rows /\ db'.used = used /\ db'.waived = waived
  BY <1>1 DEF CommitStep, PlaceInv, TablesOK, Fields
<1>8. Owned \subseteq AddressIds /\ Owned \subseteq db.used /\ job.id \notin Owned
  BY <1>1 DEF PlaceInv, TablesOK, Owned
<1>9. Owned' = Owned \union {job.id}
  <2>1. Owned' = {a \in AddressIds : rows[a] # Null}
    BY <1>7 DEF Owned
  <2>2. rows[job.id] # Null /\ job.id \in AddressIds
    BY <1>2, <1>4, <1>6, RowsAreThere
  <2>3. \A a \in AddressIds \ {job.id} : rows[a] # Null <=> a \in Owned
    BY <1>5, <1>6, RowsAreThere
  <2> HIDE DEF job
  <2> QED
    BY <1>8, <2>1, <2>2, <2>3
<1>10. RowsOK'
  <2>1. \A a \in Owned' : db'.addresses[a] \in AddressRows
    BY <1>4, <1>5, <1>6, <1>7, <1>8, <1>9
  <2>2. db'.used \subseteq AddressIds
    BY <1>2, <1>7 DEF DefaultInv, RowsOK, used
  <2> QED
    BY <2>1, <2>2 DEF RowsOK, AddressRows
<1>11. Defaults' = (Defaults \ job.off) \union (IF flag THEN {job.id} ELSE {})
  <2>1. Defaults' = {a \in Owned \union {job.id} : rows[a].isDefault}
    BY <1>7, <1>9 DEF Defaults
  <2>2. rows[job.id].isDefault = flag
    BY <1>4, <1>6
  <2>3. \A a \in Owned : rows[a].isDefault <=> a \in Defaults /\ a \notin job.off
    BY <1>5, <1>6, <1>8
  <2>4. Defaults \subseteq Owned
    BY DEF Defaults
  <2> HIDE DEF job
  <2> QED
    BY <1>3, <1>8, <2>1, <2>2, <2>3, <2>4
<1>12. waived <=> Defaults' = {} /\ (db.waived \/ job.want = FALSE)
  BY <1>7, WaivesWhenNone DEF waived
<1>13. ASSUME r \notin overlapped, whole \/ "addresses" \notin blurred
       PROVE  OneOrWaived'
  <2>1. (job.first <=> Owned = {}) /\ (job.want = TRUE => job.off = Defaults)
        /\ (job.want # TRUE => job.off = {})
    BY <1>1, <1>13 DEF DefaultInv, StillTrue, HasRead
  <2>2. Defaults \subseteq Owned
    BY DEF Defaults
  <2>3. CASE job.want = TRUE
    <3>1. flag = TRUE
      BY <2>3, AddressesAssumption DEF flag, Or
    <3>2. Defaults' = {job.id}
      BY <1>11, <2>1, <2>3, <3>1
    <3> QED
      BY <3>2 DEF OneOrWaived
  <2>4. CASE job.want # TRUE /\ Owned = {}
    <3>1. Defaults' = IF flag THEN {job.id} ELSE {}
      BY <1>11, <2>1, <2>2, <2>4
    <3>2. CASE flag
      BY <3>1, <3>2 DEF OneOrWaived
    <3>3. CASE ~flag
      <4>1. job.want = FALSE
        BY <1>2, <2>1, <2>4, <3>3 DEF flag, Or
      <4> QED
        BY <1>7, <1>12, <3>1, <3>3, <4>1 DEF OneOrWaived
    <3> QED
      BY <3>2, <3>3
  <2>5. CASE job.want # TRUE /\ Owned # {}
    <3>1. ~flag
      BY <1>2, <2>1, <2>5 DEF flag, Or
    <3>2. Defaults' = Defaults
      BY <1>11, <2>1, <2>5, <3>1
    <3>3. OneOrWaived
      BY <1>13, <2>5 DEF DefaultInv
    <3> QED
      BY <1>7, <1>12, <3>2, <3>3 DEF OneOrWaived
  <2> QED
    BY <2>3, <2>4, <2>5
<1>14. whole \in BOOLEAN
  OBVIOUS
<1> HIDE DEF tables, whole, job
<1>15. up[r].op \in ListOps
  BY <1>1 DEF job
<1> QED
  BY <1>1, <1>10, <1>13, <1>14, <1>15, ListWritten

\* A default that is removed leaves its place to the newest of the others.
LEMMA RemovalStep ==
  ASSUME PlaceInv, DefaultInv, NEW r \in Requests, WriteRemoval(r)
  PROVE  DefaultInv'
<1> DEFINE job == up[r]
           off == {}
           old == WithDefaults(off, job.heir)
           rows == [old EXCEPT ![job.id] = Null]
           waived == Waives(Null, rows)
           tables == [db EXCEPT !.addresses = rows, !.waived = waived]
<1>1. /\ job.op = "removeAddress" /\ job.op \in ListOps /\ job.ready
      /\ job.id \in Owned /\ job.heir \subseteq Owned /\ CommitStep(r, tables, Idle, FALSE)
  BY DEF WriteRemoval, CommitPart, ListOps
<1>2. job.id \in AddressIds /\ Owned \subseteq AddressIds
  BY <1>1 DEF Owned
<1>3. /\ DOMAIN old = AddressIds
      /\ \A a \in AddressIds \ Owned : old[a] = Null
      /\ \A a \in Owned : /\ old[a] \in AddressRows
                          /\ old[a].isDefault <=> (a \in Defaults /\ a \notin off) \/ a \in job.heir
  BY DefaultsOfRows DEF DefaultInv
<1> HIDE DEF old
<1>4. DOMAIN rows = AddressIds /\ rows[job.id] = Null /\ \A a \in AddressIds \ {job.id} : rows[a] = old[a]
  BY <1>2, <1>3
<1> HIDE DEF rows, waived
<1>5. db'.addresses = rows /\ db'.used = db.used /\ db'.waived = waived
  BY <1>1 DEF CommitStep, PlaceInv, TablesOK, Fields
<1>6. Owned' = Owned \ {job.id}
  <2>1. Owned' = {a \in AddressIds : rows[a] # Null}
    BY <1>5 DEF Owned
  <2>2. \A a \in AddressIds \ {job.id} : rows[a] # Null <=> a \in Owned
    BY <1>3, <1>4, RowsAreThere
  <2> HIDE DEF job
  <2> QED
    BY <1>2, <1>4, <2>1, <2>2
<1>7. RowsOK'
  <2>1. \A a \in Owned' : db'.addresses[a] \in AddressRows
    BY <1>2, <1>3, <1>4, <1>5, <1>6
  <2> QED
    BY <1>5, <2>1 DEF DefaultInv, RowsOK, AddressRows
<1>8. Defaults' = (Defaults \union job.heir) \ {job.id}
  <2>1. Defaults' = {a \in Owned \ {job.id} : rows[a].isDefault}
    BY <1>5, <1>6 DEF Defaults
  <2>2. \A a \in Owned \ {job.id} : rows[a].isDefault <=> a \in Defaults \union job.heir
    BY <1>2, <1>3, <1>4
  <2>3. Defaults \subseteq Owned
    BY DEF Defaults
  <2> HIDE DEF job
  <2> QED
    BY <1>1, <2>1, <2>2, <2>3
<1>9. waived <=> Defaults' = {} /\ (db.waived \/ Null = FALSE)
  BY <1>5, WaivesWhenNone DEF waived
<1>10. ASSUME r \notin overlapped, "addresses" \notin blurred, Owned' # {}
       PROVE  OneOrWaived'
  <2>1. /\ job.wasDefault <=> job.id \in Defaults
        /\ \/ job.wasDefault /\ \E h \in Owned \ {job.id} : job.heir = {h}
           \/ job.heir = {} /\ (~job.wasDefault \/ Owned = {job.id})
    BY <1>1, <1>10 DEF DefaultInv, StillTrue
  <2>2. OneOrWaived
    BY <1>1, <1>10 DEF DefaultInv
  <2>3. CASE job.wasDefault
    <3>1. PICK h \in Owned \ {job.id} : job.heir = {h}
      BY <1>6, <1>10, <2>1, <2>3
    <3>2. Defaults = {job.id}
      BY <2>1, <2>2, <2>3 DEF OneOrWaived
    <3>3. Defaults' = {h}
      BY <1>8, <3>1, <3>2
    <3> QED
      BY <3>3 DEF OneOrWaived
  <2>4. CASE ~job.wasDefault
    <3>1. Defaults' = Defaults
      BY <1>8, <2>1, <2>4
    <3> QED
      BY <1>5, <1>9, <2>2, <3>1 DEF OneOrWaived
  <2> QED
    BY <2>3, <2>4
<1> HIDE DEF tables, job
<1>11. up[r].op \in ListOps
  BY <1>1 DEF job
<1> QED
  BY <1>1, <1>7, <1>10, <1>11, ListWritten

\* With the account every address goes.
LEMMA AccountStep ==
  ASSUME PlaceInv, DefaultInv, NEW r \in Requests, WriteAccountGone(r)
  PROVE  DefaultInv'
<1> DEFINE rows == [a \in AddressIds |-> Null]
           tables == [db EXCEPT !.gone = TRUE, !.addresses = rows]
<1>1. up[r].op \in ListOps /\ CommitStep(r, tables, Idle, TRUE)
  BY DEF WriteAccountGone, Commit, CommitAnd, ListOps
<1>2. db'.addresses = rows /\ db'.used = db.used
  BY <1>1 DEF CommitStep, PlaceInv, TablesOK, Fields
<1>3. Owned' = {}
  BY <1>2 DEF Owned
<1>4. RowsOK'
  BY <1>2, <1>3 DEF DefaultInv, RowsOK
<1> HIDE DEF tables
<1> QED
  BY <1>1, <1>3, <1>4, ListWritten

\* A move changes where an address is, and not which is the default.
LEMMA MoveStep ==
  ASSUME PlaceInv, DefaultInv, NEW r \in Requests, WriteMove(r)
  PROVE  DefaultInv'
<1> DEFINE job == up[r]
           row == db.addresses[job.id]
           moved == [row EXCEPT !.nb = Or(job.nb, row.nb), !.city = Or(job.city, row.city)]
           whole == Null \notin {job.nb, job.city}
<1>1. /\ job.op = "move" /\ job.id \in Owned
      /\ CommitStep(r, [db EXCEPT !.addresses[job.id] = moved], Idle, whole)
  BY DEF WriteMove
<1>2. /\ job.on = job.id /\ job.id \in AddressIds /\ job.id # Null /\ job.id # "addresses"
      /\ job.city \in Cities \union {Null} /\ job.nb \in Neighborhoods \union {Null}
  BY <1>1, AddressesAssumption DEF PlaceInv, JobsOK, Jobs, IsJob, HeirJob, Foreign, AddressOps, ListOps, Owned
<1>3. row \in AddressRows
  BY <1>1 DEF DefaultInv, RowsOK
<1>4. moved \in AddressRows /\ moved.isDefault = row.isDefault
  <2>1. Or(job.nb, row.nb) \in Neighborhoods /\ Or(job.city, row.city) \in Cities
    BY <1>2, <1>3 DEF Or, AddressRows
  <2> HIDE DEF job, row
  <2> QED
    BY <1>3, <2>1 DEF AddressRows
<1>5. /\ db' = [db EXCEPT !.addresses[job.id] = moved] /\ up' = [up EXCEPT ![r] = Idle]
      /\ overlapped \ {r} \subseteq overlapped'
      /\ "addresses" \in blurred <=> "addresses" \in blurred'
  BY <1>1, <1>2 DEF CommitStep
<1> HIDE DEF moved, whole
<1>6. /\ db'.used = db.used /\ db'.waived = db.waived /\ db'.addresses[job.id] = moved
      /\ \A a \in AddressIds \ {job.id} : db'.addresses[a] = db.addresses[a]
  BY <1>2, <1>5 DEF PlaceInv, TablesOK, Fields
<1>7. Owned' = Owned
  BY <1>1, <1>4, <1>6, RowsAreThere DEF Owned
<1>8. Defaults' = Defaults
  <2>1. \A a \in Owned : db'.addresses[a].isDefault = db.addresses[a].isDefault
    BY <1>4, <1>6 DEF Owned
  <2> QED
    BY <1>7, <2>1 DEF Defaults
<1>9. RowsOK'
  <2>1. \A a \in Owned' : db'.addresses[a] \in AddressRows
    BY <1>4, <1>6, <1>7 DEF DefaultInv, RowsOK, Owned
  <2> QED
    BY <1>6, <2>1 DEF DefaultInv, RowsOK, AddressRows
<1>10. ASSUME NEW s \in Requests
       PROVE  HasRead(up'[s]) /\ (s \notin overlapped' => StillTrue(up[s])')
  <2>1. CASE s = r
    BY <1>5, <2>1 DEF PlaceInv, JobsOK, Idle, HasRead, StillTrue
  <2>2. CASE s # r
    <3>1. up'[s] = up[s] /\ HasRead(up[s]) /\ (s \notin overlapped' => StillTrue(up[s]))
      BY <1>5, <2>2 DEF PlaceInv, JobsOK, DefaultInv
    <3> QED
      BY <1>7, <1>8, <3>1 DEF StillTrue
  <2> QED
    BY <2>1, <2>2
<1>11. (\A s \in Requests : HasRead(up[s]) /\ (s \notin overlapped => StillTrue(up[s])))'
  BY <1>10 DEF HasRead, StillTrue
<1>12. (Owned # {} /\ "addresses" \notin blurred => OneOrWaived)'
  BY <1>5, <1>6, <1>7, <1>8 DEF DefaultInv, OneOrWaived
<1> QED
  BY <1>9, <1>11, <1>12 DEF DefaultInv
\* A request that arrives has read the list as it is.
LEMMA ArrivalReads ==
  ASSUME PlaceInv, DefaultInv, NEW r \in Requests,
         DeleteAccount(r) \/
         \E a \in AddressIds :
           \/ \E nb \in Neighborhoods, want \in BOOLEAN \union {Null} : CreateAddress(r, a, nb, want)
           \/ \E city \in Cities \union {Null}, nb \in Neighborhoods \union {Null} : Move(r, a, city, nb)
           \/ MakeDefault(r, a) \/ Decline(r, a) \/ HandOver(r, a) \/ RemoveAddress(r, a)
  PROVE  DefaultInv'
<1>1. ASSUME NEW j, HasRead(j), StillTrue(j), Arrive(r, j)
      PROVE  DefaultInv'
  BY <1>1, ReadsAreTrue DEF Arrive
<1>2. CASE DeleteAccount(r)
  BY <1>1, <1>2 DEF DeleteAccount, HasRead, StillTrue
<1>3. ASSUME NEW a \in AddressIds, NEW nb, NEW want, CreateAddress(r, a, nb, want)
      PROVE  DefaultInv'
  BY <1>1, <1>3 DEF CreateAddress, HasRead, StillTrue
<1>4. ASSUME NEW a \in AddressIds, NEW city, NEW nb, Move(r, a, city, nb)
      PROVE  DefaultInv'
  BY <1>1, <1>4 DEF Move, HasRead, StillTrue
<1>5. ASSUME NEW a \in AddressIds, MakeDefault(r, a)
      PROVE  DefaultInv'
  BY <1>1, <1>5 DEF MakeDefault, HasRead, StillTrue
<1>6. ASSUME NEW a \in AddressIds, Decline(r, a)
      PROVE  DefaultInv'
  BY <1>1, <1>6 DEF Decline, HasRead, StillTrue
<1>7. ASSUME NEW a \in AddressIds, HandOver(r, a)
      PROVE  DefaultInv'
  <2> DEFINE heir == Newest(Owned \ {a})
             j == [op |-> "handOver", on |-> "addresses", id |-> a, heir |-> heir]
  <2>1. a \in Defaults /\ Arrive(r, j)
    BY <1>7 DEF HandOver
  <2> HIDE DEF heir
  <2>2. HasRead(j) /\ StillTrue(j)
    BY <2>1 DEF HasRead, StillTrue
  <2> QED
    BY <1>1, <2>1, <2>2
<1>8. ASSUME NEW a \in AddressIds, RemoveAddress(r, a)
      PROVE  DefaultInv'
  <2> DEFINE was == db.addresses[a].isDefault
             j == [op |-> "removeAddress", on |-> "addresses", id |-> a, heir |-> {},
                   wasDefault |-> was, ready |-> FALSE]
  <2>1. a \in Owned /\ (was <=> a \in Defaults) /\ Arrive(r, j)
    BY <1>8 DEF RemoveAddress, Defaults
  <2> HIDE DEF was
  <2>2. HasRead(j) /\ StillTrue(j)
    BY <2>1 DEF HasRead, StillTrue
  <2> QED
    BY <1>1, <2>1, <2>2
<1> QED
  BY <1>2, <1>3, <1>4, <1>5, <1>6, <1>7, <1>8

\* A request that goes on decides from the list as it is then.
LEMMA ProceedReads ==
  ASSUME PlaceInv, DefaultInv, NEW r \in Requests,
         ClearAndCount(r) \/ ClearOthers(r) \/ DeleteAndChoose(r)
  PROVE  DefaultInv'
<1>1. IsJob(up[r]) /\ HasRead(up[r]) /\ (r \notin overlapped => StillTrue(up[r]))
  BY DEF PlaceInv, JobsOK, DefaultInv
<1>2. ASSUME NEW j, HasRead(j), r \notin overlapped => StillTrue(j), Proceed(r, j)
      PROVE  DefaultInv'
  BY <1>2, ReadsAreTrue DEF Proceed
<1>3. CASE ClearAndCount(r)
  <2> DEFINE off == IF up[r].want = TRUE THEN Defaults ELSE {}
             first == Owned = {}
             j == [up[r] EXCEPT !.off = off, !.first = first]
  <2>1. up[r] \in [op : {"createAddress"}, on : {"addresses"}, id : AddressIds, nb : Neighborhoods,
                   want : BOOLEAN \union {Null}, off : SUBSET AddressIds, first : BOOLEAN \union {Null}]
    BY <1>1, <1>3 DEF ClearAndCount, Jobs, IsJob, HeirJob, Foreign, AddressOps, ListOps
  <2>2. Proceed(r, j)
    BY <1>3 DEF ClearAndCount
  <2>3. /\ up[r].want = TRUE => off = Defaults
        /\ up[r].want # TRUE => off = {}
        /\ first <=> Owned = {}
    OBVIOUS
  <2> HIDE DEF off, first
  <2>4. j.op = "createAddress" /\ j.want = up[r].want /\ j.off = off /\ j.first = first
    BY <2>1
  <2>5. HasRead(j) /\ StillTrue(j)
    BY <2>3, <2>4 DEF HasRead, StillTrue
  <2> QED
    BY <1>2, <2>2, <2>5
<1>4. CASE ClearOthers(r)
  <2> DEFINE j == [up[r] EXCEPT !.off = Defaults]
  <2>1. up[r] \in [op : {"makeDefault"}, on : {"addresses"}, id : AddressIds,
                   off : (SUBSET AddressIds) \union {Null}]
    BY <1>1, <1>4 DEF ClearOthers, IsJob, HeirJob, Foreign, AddressOps, ListOps, Jobs
  <2>2. Proceed(r, j)
    BY <1>4 DEF ClearOthers
  <2>3. j.op = "makeDefault" /\ j.off = Defaults
    BY <2>1
  <2>4. HasRead(j) /\ StillTrue(j)
    BY <2>3 DEF HasRead, StillTrue
  <2> QED
    BY <1>2, <2>2, <2>4
<1>5. CASE DeleteAndChoose(r)
  <2> DEFINE others == Owned \ {up[r].id}
             heir == IF up[r].wasDefault /\ others # {} THEN {Newest(others)} ELSE {}
             j == [up[r] EXCEPT !.ready = TRUE, !.heir = heir]
  <2>1. up[r].op = "removeAddress" /\ ~up[r].ready /\ Proceed(r, j)
    BY <1>5 DEF DeleteAndChoose
  <2>2. {"op", "id", "heir", "ready", "wasDefault"} \subseteq DOMAIN up[r]
    BY <1>1, <2>1 DEF IsJob, HeirJob, Foreign, AddressOps, ListOps, Jobs, HasRead
  <2>3. others # {} => Newest(others) \in others
    BY NewestIsOne DEF DefaultInv
  <2>4. \/ up[r].wasDefault /\ \E h \in others : heir = {h}
        \/ heir = {} /\ (~up[r].wasDefault \/ others = {})
    BY <2>3
  <2> HIDE DEF heir
  <2>5. /\ j.op = "removeAddress" /\ j.id = up[r].id /\ j.wasDefault = up[r].wasDefault
        /\ j.heir = heir /\ j.ready = TRUE /\ DOMAIN j = DOMAIN up[r]
    BY <2>1, <2>2
  <2> HIDE DEF j
  <2>6. HasRead(j)
    BY <2>2, <2>5 DEF HasRead
  <2>7. ASSUME r \notin overlapped PROVE StillTrue(j)
    <3>1. up[r].id \in Owned /\ (up[r].wasDefault <=> up[r].id \in Defaults)
      BY <1>1, <2>1, <2>7 DEF StillTrue
    <3>2. others = {} => Owned = {up[r].id}
      BY <3>1
    <3> QED
      BY <2>4, <2>5, <3>1, <3>2 DEF StillTrue
  <2> QED
    BY <1>2, <2>1, <2>6, <2>7
<1> QED
  BY <1>3, <1>4, <1>5

\* Every step of a request keeps what is said of the defaults.
LEMMA StepKeepsDefaults ==
  ASSUME PlaceInv, DefaultInv, NEW r \in Requests, AddressStep(r) \/ Fail(r)
  PROVE  DefaultInv'
<1>1. CASE Fail(r)
  <2>1. HasRead(Idle) /\ StillTrue(Idle)
    BY DEF Idle, HasRead, StillTrue
  <2> QED
    BY <1>1, <2>1, ReadsAreTrue DEF Fail
<1>2. CASE AddressStep(r)
  BY <1>2, ArrivalReads, ProceedReads, NewAddressStep, MoveStep, DefaultStep, DeclineStep,
     HandOverStep, RemovalStep, AccountStep DEF AddressStep
<1> QED
  BY <1>1, <1>2

-----------------------------------------------------------------------------
(* What is true of the addresses whatever else goes on.                    *)

AddressInv == PlaceInv /\ GoneOK /\ DefaultInv

\* The customer starts without an address and nothing is under way.
LEMMA AddressesStart == Init => AddressInv
<1>1. SUFFICES ASSUME NEW offer, DatabaseInit(CheckoutTables(offer)) PROVE AddressInv
  BY DEF Init
<1>2. /\ {"addresses", "used", "gone", "waived"} \subseteq DOMAIN db
      /\ db.addresses = [a \in AddressIds |-> Null] /\ db.used = {} /\ db.gone = FALSE
  BY <1>1 DEF DatabaseInit, CheckoutTables, Joined, AddressTables, DraftTables, BillingTables
<1>3. Owned = {}
  BY <1>2 DEF Owned
<1>4. /\ DOMAIN up = Requests /\ \A r \in Requests : up[r] = Idle
      /\ overlapped = {} /\ blurred = {}
  BY <1>1 DEF DatabaseInit
<1>5. PlaceInv
  BY <1>2, <1>3, <1>4, IdleIsForeign DEF PlaceInv, TablesOK, JobsOK, MovesFit, PlaceConsistent, Fields
<1>6. GoneOK
  BY <1>2 DEF GoneOK
<1>7. HasRead(Idle) /\ StillTrue(Idle)
  BY DEF Idle, HasRead, StillTrue
<1>8. DefaultInv
  BY <1>2, <1>3, <1>4, <1>7 DEF DefaultInv, RowsOK
<1> QED
  BY <1>5, <1>6, <1>8 DEF AddressInv

\* A request about addresses, or one that fails, keeps all of it.
LEMMA AddressStepKeeps ==
  ASSUME AddressInv, NEW r \in Requests, AddressStep(r) \/ Fail(r)
  PROVE  AddressInv'
BY StepKeepsPlace, StepKeepsGone, StepKeepsDefaults DEF AddressInv

\* So does a step that has nothing to do with them.
LEMMA ForeignStepKeeps ==
  ASSUME AddressInv, Fields \subseteq DOMAIN db', \A t \in Fields : db'[t] = db[t],
         DOMAIN up' = Requests,
         \A r \in Requests : (up'[r] = up[r] /\ (r \in overlapped => r \in overlapped')) \/ Foreign(up'[r]),
         \A t \in AddressIds \union {"addresses"} : t \in blurred' <=> t \in blurred
  PROVE  AddressInv'
<1>1. PlaceInv /\ GoneOK /\ DefaultInv
  BY DEF AddressInv
<1>2. db'.addresses = db.addresses /\ db'.used = db.used /\ db'.gone = db.gone /\ db'.waived = db.waived
  BY DEF Fields
<1>3. Owned' = Owned /\ Defaults' = Defaults
  BY <1>2 DEF Owned, Defaults
<1>4. \A r \in Requests : Foreign(up'[r]) =>
        /\ IsJob(up'[r]) /\ up'[r].op \notin ListOps /\ up'[r].op # "move"
        /\ HasRead(up'[r])
  BY DEF Foreign, IsJob, AddressOps, ListOps, HasRead
<1>5. TablesOK'
  BY <1>1, <1>2, <1>3 DEF PlaceInv, TablesOK
<1>6. JobsOK'
  BY <1>1, <1>2, <1>4 DEF PlaceInv, JobsOK
<1>7. MovesFit'
  <2>1. ASSUME NEW r \in Requests, r \notin overlapped', up'[r].op = "move", up'[r].id \in Owned'
        PROVE  Fits(up'[r], db'.addresses[up'[r].id])
    <3>1. up'[r] = up[r] /\ r \notin overlapped
      BY <1>4, <2>1
    <3>2. Fits(up[r], db.addresses[up[r].id])
      BY <1>1, <1>3, <2>1, <3>1 DEF PlaceInv, MovesFit
    <3> QED
      BY <1>2, <3>1, <3>2 DEF Fits
  <2> QED
    BY <2>1 DEF MovesFit
<1>8. PlaceConsistent'
  BY <1>1, <1>2, <1>3 DEF PlaceInv, PlaceConsistent, Owned
<1>9. GoneOK'
  BY <1>1, <1>2, <1>3, <1>4 DEF GoneOK
<1>10. ASSUME NEW r \in Requests
       PROVE  HasRead(up'[r]) /\ (r \notin overlapped' => StillTrue(up[r])' \/ Foreign(up'[r]))
  <2>1. CASE up'[r] = up[r] /\ (r \in overlapped => r \in overlapped')
    <3>1. HasRead(up[r]) /\ (r \notin overlapped' => StillTrue(up[r]))
      BY <1>1, <2>1 DEF DefaultInv
    <3> QED
      BY <1>3, <2>1, <3>1 DEF StillTrue
  <2>2. CASE Foreign(up'[r])
    BY <1>4, <2>2
  <2> QED
    BY <2>1, <2>2
<1>11. \A r \in Requests : Foreign(up'[r]) => StillTrue(up[r])'
  BY DEF Foreign, AddressOps, ListOps, StillTrue
<1>12. (\A r \in Requests : HasRead(up[r]) /\ (r \notin overlapped => StillTrue(up[r])))'
  BY <1>10, <1>11 DEF HasRead
<1>13. RowsOK'
  BY <1>1, <1>2, <1>3 DEF DefaultInv, RowsOK, AddressRows
<1>14. (Owned # {} /\ "addresses" \notin blurred => OneOrWaived)'
  BY <1>1, <1>2, <1>3 DEF DefaultInv, OneOrWaived
<1>15. DefaultInv'
  BY <1>12, <1>13, <1>14 DEF DefaultInv
<1> QED
  BY <1>5, <1>6, <1>7, <1>8, <1>9, <1>15 DEF PlaceInv, AddressInv
-----------------------------------------------------------------------------
(* What a step leaves alone.                                               *)

\* Only the request in slot r goes on, with a job that satisfies what is said of
\* ops, and only these tables change.
Alone(r, fields, ops) ==
  /\ DOMAIN db' = DOMAIN db /\ \A t \in DOMAIN db \ fields : db'[t] = db[t]
  /\ \E j : up' = [up EXCEPT ![r] = j] /\ j.op \in ops
  /\ overlapped \ {r} \subseteq overlapped'

\* Requests arrive, go on and commit, each with its own tables.
LEMMA CommitAlone ==
  ASSUME NEW r, NEW tables, NEW j, NEW whole, CommitStep(r, tables, j, whole),
         NEW fields, NEW ops, j.op \in ops,
         DOMAIN tables = DOMAIN db, \A t \in DOMAIN db \ fields : tables[t] = db[t]
  PROVE  Alone(r, fields, ops)
BY DEF CommitStep, Alone

\* A request that only goes on touches no table.
LEMMA QuietAlone ==
  ASSUME NEW r, NEW j, Arrive(r, j) \/ Proceed(r, j), NEW fields, NEW ops, j.op \in ops
  PROVE  Alone(r, fields, ops)
BY DEF Arrive, Proceed, Alone

\* A request about addresses stays one, and changes only their tables.
LEMMA AddressesAlone ==
  ASSUME AddressInv, NEW r \in Requests, AddressStep(r)
  PROVE  Alone(r, Fields, AddressOps \union {"idle"})
<1> DEFINE ops == AddressOps \union {"idle"}
<1>1. ASSUME NEW a \in AddressIds, NEW nb \in Neighborhoods, NEW want \in BOOLEAN \union {Null},
             CreateAddress(r, a, nb, want)
      PROVE  Alone(r, Fields, ops)
  BY <1>1, QuietAlone DEF CreateAddress, AddressOps, ListOps
<1>2. ASSUME NEW a \in AddressIds, NEW city, NEW nb, Move(r, a, city, nb)
      PROVE  Alone(r, Fields, ops)
  BY <1>2, QuietAlone DEF Move, AddressOps
<1>3. ASSUME NEW a \in AddressIds, MakeDefault(r, a) \/ Decline(r, a)
      PROVE  Alone(r, Fields, ops)
  BY <1>3, QuietAlone DEF MakeDefault, Decline, AddressOps, ListOps
<1>4. ASSUME NEW a \in AddressIds, HandOver(r, a)
      PROVE  Alone(r, Fields, ops)
  <2> DEFINE heir == Newest(Owned \ {a})
             j == [op |-> "handOver", on |-> "addresses", id |-> a, heir |-> heir]
  <2>1. Arrive(r, j)
    BY <1>4 DEF HandOver
  <2> HIDE DEF heir
  <2>2. j.op \in ops
    BY DEF AddressOps, ListOps
  <2> QED
    BY <2>1, <2>2, QuietAlone
<1>5. ASSUME NEW a \in AddressIds, RemoveAddress(r, a)
      PROVE  Alone(r, Fields, ops)
  <2> DEFINE was == db.addresses[a].isDefault
             j == [op |-> "removeAddress", on |-> "addresses", id |-> a, heir |-> {},
                   wasDefault |-> was, ready |-> FALSE]
  <2>1. Arrive(r, j)
    BY <1>5 DEF RemoveAddress
  <2> HIDE DEF was
  <2>2. j.op \in ops
    BY DEF AddressOps, ListOps
  <2> QED
    BY <2>1, <2>2, QuietAlone
<1>6. CASE DeleteAccount(r)
  BY <1>6, QuietAlone DEF DeleteAccount, AddressOps, ListOps
<1>7. CASE ClearAndCount(r) \/ ClearOthers(r) \/ DeleteAndChoose(r)
  <2>1. IsJob(up[r]) /\ up[r].op \in AddressOps
    BY <1>7 DEF ClearAndCount, ClearOthers, DeleteAndChoose, AddressInv, PlaceInv, JobsOK, AddressOps, ListOps
  <2>2. "op" \in DOMAIN up[r]
    BY <2>1 DEF IsJob, Jobs, HeirJob, Foreign
  <2>3. CASE ClearAndCount(r)
    <3> DEFINE off == IF up[r].want = TRUE THEN Defaults ELSE {}
               first == Owned = {}
               j == [up[r] EXCEPT !.off = off, !.first = first]
    <3>1. Proceed(r, j)
      BY <2>3 DEF ClearAndCount
    <3> HIDE DEF off, first
    <3>2. j.op \in ops
      BY <2>1, <2>2
    <3> QED
      BY <3>1, <3>2, QuietAlone
  <2>4. CASE ClearOthers(r)
    <3> DEFINE j == [up[r] EXCEPT !.off = Defaults]
    <3>1. Proceed(r, j)
      BY <2>4 DEF ClearOthers
    <3>2. j.op \in ops
      BY <2>1, <2>2
    <3> QED
      BY <3>1, <3>2, QuietAlone
  <2>5. CASE DeleteAndChoose(r)
    <3> DEFINE others == Owned \ {up[r].id}
               heir == IF up[r].wasDefault /\ others # {} THEN {Newest(others)} ELSE {}
               j == [up[r] EXCEPT !.ready = TRUE, !.heir = heir]
    <3>1. Proceed(r, j)
      BY <2>5 DEF DeleteAndChoose
    <3> HIDE DEF heir
    <3>2. j.op \in ops
      BY <2>1, <2>2
    <3> QED
      BY <3>1, <3>2, QuietAlone
  <2> QED
    BY <1>7, <2>3, <2>4, <2>5
<1>8. Idle.op \in ops
  BY DEF Idle
<1>9. ASSUME NEW tables, NEW whole, CommitStep(r, tables, Idle, whole), DOMAIN tables = DOMAIN db,
             \A t \in DOMAIN db \ Fields : tables[t] = db[t]
      PROVE  Alone(r, Fields, ops)
  BY <1>8, <1>9, CommitAlone
<1>11. CASE WriteAddress(r)
  <2> DEFINE rows == [WithDefaults(up[r].off, {}) EXCEPT ![up[r].id] =
                        [nb |-> up[r].nb, city |-> CityOf[up[r].nb],
                         isDefault |-> Or(up[r].want, up[r].first), at |-> Cardinality(db.used)]]
             used == db.used \union {up[r].id}
             waived == Waives(up[r].want, rows)
             whole == up[r].want = TRUE
             tables == [db EXCEPT !.addresses = rows, !.used = used, !.waived = waived]
  <2>1. CommitStep(r, tables, Idle, whole)
    BY <1>11 DEF WriteAddress
  <2> HIDE DEF rows, used, waived, whole
  <2>2. DOMAIN tables = DOMAIN db /\ \A t \in DOMAIN db \ Fields : tables[t] = db[t]
    BY DEF Fields
  <2> HIDE DEF tables
  <2> QED
    BY <1>9, <2>1, <2>2
<1>12. ASSUME NEW rows, NEW waived, NEW whole,
              CommitStep(r, [db EXCEPT !.addresses = rows, !.waived = waived], Idle, whole)
       PROVE  Alone(r, Fields, ops)
  <2>1. LET tables == [db EXCEPT !.addresses = rows, !.waived = waived]
        IN  DOMAIN tables = DOMAIN db /\ \A t \in DOMAIN db \ Fields : tables[t] = db[t]
    BY DEF Fields
  <2> QED
    BY <1>9, <1>12, <2>1
<1>13. CASE WriteDefault(r)
  BY <1>12, <1>13 DEF WriteDefault, Commit, CommitAnd
<1>14. CASE WriteDecline(r)
  BY <1>12, <1>14 DEF WriteDecline, CommitPart
<1>15. CASE WriteHandOver(r)
  BY <1>12, <1>15 DEF WriteHandOver, CommitPart
<1>16. CASE WriteRemoval(r)
  BY <1>12, <1>16 DEF WriteRemoval, CommitPart
<1>17. CASE WriteMove(r)
  <2> DEFINE row == db.addresses[up[r].id]
             moved == [row EXCEPT !.nb = Or(up[r].nb, row.nb), !.city = Or(up[r].city, row.city)]
             whole == Null \notin {up[r].nb, up[r].city}
             tables == [db EXCEPT !.addresses[up[r].id] = moved]
  <2>1. CommitStep(r, tables, Idle, whole)
    BY <1>17 DEF WriteMove
  <2> HIDE DEF moved, whole
  <2>2. DOMAIN tables = DOMAIN db /\ \A t \in DOMAIN db \ Fields : tables[t] = db[t]
    BY DEF Fields
  <2> HIDE DEF tables
  <2> QED
    BY <1>9, <2>1, <2>2
<1>18. CASE WriteAccountGone(r)
  <2> DEFINE tables == [db EXCEPT !.gone = TRUE, !.addresses = [a \in AddressIds |-> Null]]
  <2>1. CommitStep(r, tables, Idle, TRUE)
    BY <1>18 DEF WriteAccountGone, Commit, CommitAnd
  <2>2. DOMAIN tables = DOMAIN db /\ \A t \in DOMAIN db \ Fields : tables[t] = db[t]
    BY DEF Fields
  <2> HIDE DEF tables
  <2> QED
    BY <1>9, <2>1, <2>2
<1> HIDE DEF ops
<1> QED
  BY <1>1, <1>2, <1>3, <1>4, <1>5, <1>6, <1>7, <1>11, <1>13, <1>14, <1>15, <1>16, <1>17, <1>18
     DEF AddressStep, ops

-----------------------------------------------------------------------------
(* Sums over finite sets, as the folds compute them.                       *)

\* What holds of the empty set, and of a set whenever it holds of the set less any of
\* its elements, holds of every part of a finite set.
LEMMA SubsetInduction ==
  ASSUME NEW S, IsFiniteSet(S), NEW Good,
         \A T \in SUBSET S : (\A x \in T : T \ {x} \in Good) => T \in Good
  PROVE  SUBSET S \subseteq Good
<1> DEFINE Bad == (SUBSET S) \ Good
           Sizes == {Cardinality(T) : T \in Bad}
           R == OpToRel(<, Nat)
<1>1. SUFFICES ASSUME Bad # {} PROVE FALSE
  OBVIOUS
<1>2. \A T \in SUBSET S : IsFiniteSet(T) /\ Cardinality(T) \in Nat
  BY FS_Subset, FS_CardinalityType
<1>3. Sizes \subseteq Nat /\ Sizes # {}
  BY <1>1, <1>2
<1>4. IsWellFoundedOn(R, Nat)
  BY NatLessThanWellFounded
<1>5. \A m, n \in Nat : m < n => <<m, n>> \in R
  BY DEF OpToRel
<1> HIDE DEF R
<1>6. PICK least \in Sizes : \A n \in Sizes : <<n, least>> \notin R
  BY <1>3, <1>4, WFMin
<1>7. PICK T \in Bad : least = Cardinality(T)
  BY <1>6
<1>8. ASSUME NEW x \in T PROVE T \ {x} \in Good
  <2>1. T \in SUBSET S /\ T \ {x} \in SUBSET S
    BY <1>7
  <2>2. Cardinality(T \ {x}) = Cardinality(T) - 1
    BY <1>2, <1>8, <2>1, FS_RemoveElement
  <2>3. Cardinality(T \ {x}) \in Nat /\ Cardinality(T) \in Nat
    BY <1>2, <2>1
  <2>4. <<Cardinality(T \ {x}), Cardinality(T)>> \in R
    BY <1>5, <2>2, <2>3
  <2>5. Cardinality(T \ {x}) \notin Sizes
    BY <1>6, <1>7, <2>4
  <2> QED
    BY <2>1, <2>5
<1> QED
  BY <1>7, <1>8

\* The function by which a fold adds up f, over every part of S.
Tally(iter, f, S) ==
  iter = [s \in SUBSET S |-> IF s = {} THEN 0
                             ELSE f[CHOOSE x \in s : TRUE] + iter[s \ {CHOOSE x \in s : TRUE}]]

SumOf(f, S) == (CHOOSE iter : Tally(iter, f, S))[S]

\* There is only one way to add up.
LEMMA TalliesAgree ==
  ASSUME NEW S, IsFiniteSet(S), NEW f, NEW h, Tally(h, f, S), NEW k, Tally(k, f, S)
  PROVE  h[S] = k[S]
<1> DEFINE Good == {s \in SUBSET S : h[s] = k[s]}
<1>1. ASSUME NEW s \in SUBSET S, \A x \in s : s \ {x} \in Good PROVE s \in Good
  <2>1. /\ h[s] = IF s = {} THEN 0 ELSE f[CHOOSE x \in s : TRUE] + h[s \ {CHOOSE x \in s : TRUE}]
        /\ k[s] = IF s = {} THEN 0 ELSE f[CHOOSE x \in s : TRUE] + k[s \ {CHOOSE x \in s : TRUE}]
    BY DEF Tally
  <2>2. CASE s = {}
    BY <2>1, <2>2
  <2>3. CASE s # {}
    <3> DEFINE x == CHOOSE x \in s : TRUE
    <3>1. x \in s
      BY <2>3
    <3>2. h[s \ {x}] = k[s \ {x}]
      BY <1>1, <3>1
    <3> QED
      BY <2>1, <2>3, <3>2
  <2> QED
    BY <2>2, <2>3
<1> HIDE DEF Good
<1>2. SUBSET S \subseteq Good
  BY <1>1, SubsetInduction
<1> QED
  BY <1>2 DEF Good

\* The element that is chosen first, and the sum that starts with it.
First(s) == CHOOSE x \in s : TRUE
Unfolded(f, s) == IF s = {} THEN 0 ELSE f[First(s)] + SumOf(f, s \ {First(s)})

\* The sum of a set starts with the element that is chosen first.
LEMMA SumUnfolds ==
  ASSUME NEW S, IsFiniteSet(S), NEW f
  PROVE  SumOf(f, S) = Unfolded(f, S)
<1> DEFINE Good == {T \in SUBSET S : \A s \in SUBSET T : SumOf(f, s) = Unfolded(f, s)}
<1>1. ASSUME NEW T \in SUBSET S, \A x \in T : T \ {x} \in Good PROVE T \in Good
  <2> DEFINE iter == [s \in SUBSET T |-> Unfolded(f, s)]
             k == CHOOSE h : Tally(h, f, T)
  <2>1. ASSUME NEW s \in SUBSET T, s # T PROVE SumOf(f, s) = Unfolded(f, s)
    <3>1. PICK x \in T : x \notin s
      BY <2>1
    <3>2. s \in SUBSET (T \ {x})
      BY <2>1, <3>1
    <3> QED
      BY <1>1, <3>1, <3>2
  <2>2. ASSUME NEW s \in SUBSET T, s # {}
        PROVE  Unfolded(f, s) = f[First(s)] + iter[s \ {First(s)}]
    <3>1. First(s) \in s
      BY <2>2 DEF First
    <3>2. s \ {First(s)} \in SUBSET T /\ s \ {First(s)} # T
      BY <2>2, <3>1
    <3>3. SumOf(f, s \ {First(s)}) = iter[s \ {First(s)}]
      BY <2>1, <3>2
    <3> QED
      BY <2>2, <3>3 DEF Unfolded
  <2>3. Unfolded(f, {}) = 0
    BY DEF Unfolded
  <2> DEFINE Sums == [s \in SUBSET T |-> IF s = {} THEN 0 ELSE f[First(s)] + iter[s \ {First(s)}]]
  <2>4. iter = Sums
    BY <2>2, <2>3
  <2>5. Tally(iter, f, T)
    BY <2>4 DEF Tally, First
  <2>6. Tally(k, f, T)
    BY <2>5
  <2>7. IsFiniteSet(T)
    BY FS_Subset
  <2> HIDE DEF iter, k
  <2>8. k[T] = iter[T]
    BY <2>5, <2>6, <2>7, TalliesAgree
  <2>9. SumOf(f, T) = Unfolded(f, T)
    BY <2>8 DEF SumOf, k, iter
  <2> QED
    BY <2>1, <2>9
<1> HIDE DEF Good
<1>2. SUBSET S \subseteq Good
  BY <1>1, SubsetInduction
<1> QED
  BY <1>2 DEF Good

\* Nothing adds up to nothing.
LEMMA SumOfNone == \A f : SumOf(f, {}) = 0
BY SumUnfolds, FS_EmptySet DEF Unfolded

\* Sums are of numbers.
LEMMA SumIsInt ==
  ASSUME NEW S, IsFiniteSet(S), NEW f, \A x \in S : f[x] \in Int
  PROVE  SumOf(f, S) \in Int
<1> DEFINE Good == {T \in SUBSET S : SumOf(f, T) \in Int}
<1>1. ASSUME NEW T \in SUBSET S, \A x \in T : T \ {x} \in Good PROVE T \in Good
  <2>1. SumOf(f, T) = Unfolded(f, T)
    BY FS_Subset, SumUnfolds
  <2>2. CASE T = {}
    BY <2>1, <2>2 DEF Unfolded
  <2>3. CASE T # {}
    <3>1. First(T) \in T
      BY <2>3 DEF First
    <3>2. SumOf(f, T \ {First(T)}) \in Int /\ f[First(T)] \in Int
      BY <1>1, <3>1
    <3> QED
      BY <2>1, <2>3, <3>2 DEF Unfolded
  <2> QED
    BY <2>2, <2>3
<1> HIDE DEF Good
<1>2. SUBSET S \subseteq Good
  BY <1>1, SubsetInduction
<1> QED
  BY <1>2 DEF Good

\* Any element may be taken out of a sum first.
LEMMA SumTakesOut ==
  ASSUME NEW S, IsFiniteSet(S), NEW f, \A x \in S : f[x] \in Int, NEW y \in S
  PROVE  SumOf(f, S) = f[y] + SumOf(f, S \ {y})
<1> DEFINE Good == {T \in SUBSET S : \A x \in T : SumOf(f, T) = f[x] + SumOf(f, T \ {x})}
<1>1. ASSUME NEW T \in SUBSET S, \A x \in T : T \ {x} \in Good, NEW z \in T
      PROVE  SumOf(f, T) = f[z] + SumOf(f, T \ {z})
  <2> DEFINE x == First(T)
  <2>1. x \in T
    BY DEF First
  <2>2. SumOf(f, T) = f[x] + SumOf(f, T \ {x})
    BY FS_Subset, SumUnfolds DEF Unfolded
  <2> HIDE DEF x
  <2>3. CASE x = z
    BY <2>2, <2>3
  <2>4. CASE x # z
    <3> DEFINE rest == (T \ {x}) \ {z}
    <3>1. SumOf(f, T \ {x}) = f[z] + SumOf(f, rest)
      BY <1>1, <2>1, <2>4
    <3>2. rest = (T \ {z}) \ {x}
      OBVIOUS
    <3>3. SumOf(f, T \ {z}) = f[x] + SumOf(f, rest)
      BY <1>1, <2>1, <2>4, <3>2
    <3>4. IsFiniteSet(rest) /\ rest \subseteq S
      BY FS_Subset
    <3>5. SumOf(f, rest) \in Int
      BY <3>4, SumIsInt
    <3>6. f[x] \in Int /\ f[z] \in Int
      BY <2>1
    <3> HIDE DEF rest
    <3> QED
      BY <2>2, <3>1, <3>3, <3>5, <3>6
  <2> QED
    BY <2>3, <2>4
<1>2. \A T \in SUBSET S : (\A x \in T : T \ {x} \in Good) => T \in Good
  BY <1>1
<1> HIDE DEF Good
<1>3. SUBSET S \subseteq Good
  BY <1>2, SubsetInduction
<1> QED
  BY <1>3 DEF Good

\* SumFunction is such a sum.
LEMMA SumOfFunction == \A f : SumFunction(f) = SumOf(f, DOMAIN f)
BY DEF SumFunction, SumFunctionOnSet, FoldFunctionOnSet, MapThenFoldSet, SumOf, Tally

\* Sums of no negative numbers are not negative.
LEMMA SumIsNat ==
  ASSUME NEW S, IsFiniteSet(S), NEW f, \A x \in S : f[x] \in Nat
  PROVE  SumOf(f, S) \in Nat
<1> DEFINE Good == {T \in SUBSET S : SumOf(f, T) \in Nat}
<1>1. ASSUME NEW T \in SUBSET S, \A x \in T : T \ {x} \in Good PROVE T \in Good
  <2>1. CASE T = {}
    BY <2>1, SumOfNone
  <2>2. CASE T # {}
    <3>1. PICK x \in T : TRUE
      BY <2>2
    <3>2. SumOf(f, T) = f[x] + SumOf(f, T \ {x})
      BY FS_Subset, SumTakesOut
    <3>3. SumOf(f, T \ {x}) \in Nat /\ f[x] \in Nat
      BY <1>1
    <3> QED
      BY <3>2, <3>3
  <2> QED
    BY <2>1, <2>2
<1> HIDE DEF Good
<1>2. SUBSET S \subseteq Good
  BY <1>1, SubsetInduction
<1> QED
  BY <1>2 DEF Good

\* Two sums of the same numbers, wherever they are found, are the same.
LEMMA SumIsMoved ==
  ASSUME NEW S, IsFiniteSet(S), NEW f, \A x \in S : f[x] \in Int,
         NEW h, \A x, y \in S : h[x] = h[y] => x = y, NEW g, \A x \in S : g[h[x]] = f[x]
  PROVE  SumOf(g, {h[x] : x \in S}) = SumOf(f, S)
<1> DEFINE Image(T) == {h[x] : x \in T}
           Good == {T \in SUBSET S : IsFiniteSet(Image(T)) /\ SumOf(g, Image(T)) = SumOf(f, T)}
<1>1. ASSUME NEW T \in SUBSET S, \A x \in T : T \ {x} \in Good PROVE T \in Good
  <2>1. CASE T = {}
    <3>1. Image(T) = {}
      BY <2>1
    <3> QED
      BY <2>1, <3>1, SumOfNone, FS_EmptySet
  <2>2. CASE T # {}
    <3>1. PICK x \in T : TRUE
      BY <2>2
    <3>2. SumOf(f, T) = f[x] + SumOf(f, T \ {x})
      BY FS_Subset, SumTakesOut
    <3>3. Image(T) \ {h[x]} = Image(T \ {x}) /\ h[x] \in Image(T)
      OBVIOUS
    <3>4. IsFiniteSet(Image(T \ {x})) /\ SumOf(g, Image(T \ {x})) = SumOf(f, T \ {x})
      BY <1>1
    <3> DEFINE rest == Image(T \ {x})
    <3>5. Image(T) = rest \cup {h[x]}
      BY <3>3
    <3>6. IsFiniteSet(Image(T))
      <4>1. IsFiniteSet(rest)
        BY <3>4
      <4> HIDE DEF rest
      <4>2. IsFiniteSet(rest \cup {h[x]})
        BY <4>1, FS_AddElement
      <4> HIDE DEF Image
      <4> QED
        BY <3>5, <4>2
    <3>7. \A z \in Image(T) : g[z] \in Int
      OBVIOUS
    <3>8. g[h[x]] = f[x] /\ h[x] \in Image(T)
      OBVIOUS
    <3> HIDE DEF Image
    <3>9. SumOf(g, Image(T)) = g[h[x]] + SumOf(g, Image(T) \ {h[x]})
      BY <3>6, <3>7, <3>8, SumTakesOut
    <3> QED
      BY <3>2, <3>3, <3>4, <3>6, <3>8, <3>9
  <2> QED
    BY <2>1, <2>2
<1> HIDE DEF Good
<1>2. SUBSET S \subseteq Good
  BY <1>1, SubsetInduction
<1> QED
  BY <1>2 DEF Good

\* Equal terms have equal sums.
LEMMA SumsAgree ==
  ASSUME NEW S, IsFiniteSet(S), NEW f, \A x \in S : f[x] \in Int,
         NEW g, \A x \in S : g[x] = f[x]
  PROVE  SumOf(g, S) = SumOf(f, S)
<1> DEFINE h == [x \in S |-> x]
<1>1. /\ \A x, y \in S : h[x] = h[y] => x = y
      /\ \A x \in S : g[h[x]] = f[x]
      /\ S = {h[x] : x \in S}
  OBVIOUS
<1> HIDE DEF h
<1>2. SumOf(g, {h[x] : x \in S}) = SumOf(f, S)
  BY <1>1, SumIsMoved
<1> QED
  BY <1>1, <1>2

\* When all but one of the numbers are zero, that one is the sum.
LEMMA SumOfZeros ==
  ASSUME NEW S, IsFiniteSet(S), NEW f, \A x \in S : f[x] = 0
  PROVE  SumOf(f, S) = 0
<1> DEFINE Good == {T \in SUBSET S : SumOf(f, T) = 0}
<1>1. ASSUME NEW T \in SUBSET S, \A x \in T : T \ {x} \in Good PROVE T \in Good
  <2>1. CASE T = {}
    BY <2>1, SumOfNone
  <2>2. CASE T # {}
    <3>1. PICK x \in T : TRUE
      BY <2>2
    <3>2. SumOf(f, T) = f[x] + SumOf(f, T \ {x})
      BY FS_Subset, SumTakesOut
    <3> QED
      BY <1>1, <3>2
  <2> QED
    BY <2>1, <2>2
<1> HIDE DEF Good
<1>2. SUBSET S \subseteq Good
  BY <1>1, SubsetInduction
<1> QED
  BY <1>2 DEF Good

\* A sum with one term that is not zero is that term.
LEMMA SumOfOne ==
  ASSUME NEW S, IsFiniteSet(S), NEW f, \A x \in S : f[x] \in Int,
         NEW y \in S, \A x \in S : x # y => f[x] = 0
  PROVE  SumOf(f, S) = f[y]
<1>1. SumOf(f, S) = f[y] + SumOf(f, S \ {y})
  BY SumTakesOut
<1>2. IsFiniteSet(S \ {y})
  BY FS_Subset
<1>3. SumOf(f, S \ {y}) = 0
  BY <1>2, SumOfZeros
<1> QED
  BY <1>1, <1>3


\* A factor may be taken out of a sum.
LEMMA SumOfMultiples ==
  ASSUME NEW S, IsFiniteSet(S), NEW f, \A x \in S : f[x] \in Int,
         NEW k \in Int, NEW g, \A x \in S : g[x] = f[x] * k
  PROVE  SumOf(g, S) = SumOf(f, S) * k
<1> DEFINE Good == {T \in SUBSET S : SumOf(g, T) = SumOf(f, T) * k}
<1>1. ASSUME NEW T \in SUBSET S, \A x \in T : T \ {x} \in Good PROVE T \in Good
  <2>1. CASE T = {}
    BY <2>1, SumOfNone
  <2>2. CASE T # {}
    <3>1. PICK x \in T : TRUE
      BY <2>2
    <3>2. \A y \in S : g[y] \in Int
      OBVIOUS
    <3>3. /\ SumOf(f, T) = f[x] + SumOf(f, T \ {x})
          /\ SumOf(g, T) = g[x] + SumOf(g, T \ {x})
      BY <3>2, FS_Subset, SumTakesOut
    <3>4. SumOf(f, T \ {x}) \in Int
      BY FS_Subset, SumIsInt
    <3>5. /\ f[x] \in Int /\ g[x] = f[x] * k
          /\ SumOf(g, T \ {x}) = SumOf(f, T \ {x}) * k
      BY <1>1
    <3>6. \A m, n \in Int : m * k + n * k = (m + n) * k
      OBVIOUS
    <3> QED
      BY <3>3, <3>4, <3>5, <3>6
  <2> QED
    BY <2>1, <2>2
<1> HIDE DEF Good
<1>2. SUBSET S \subseteq Good
  BY <1>1, SubsetInduction
<1> QED
  BY <1>2 DEF Good

\* The sum of numbers that were rounded one by one is off by no more than half a unit
\* for each of those that had to be.
LEMMA SumOfRounded ==
  ASSUME NEW S, IsFiniteSet(S), NEW N, N \subseteq S,
         NEW exact, \A x \in S : exact[x] \in Int,
         NEW rounded, \A x \in S : rounded[x] \in Int,
         \A x \in N : -50 <= 100 * rounded[x] - exact[x] /\ 100 * rounded[x] - exact[x] <= 50,
         \A x \in S \ N : rounded[x] = 0 /\ exact[x] = 0
  PROVE  LET off == 100 * SumOf(rounded, S) - SumOf(exact, S)
         IN  -50 * Cardinality(N) <= off /\ off <= 50 * Cardinality(N)
<1> DEFINE Off(T) == 100 * SumOf(rounded, T) - SumOf(exact, T)
           Count(T) == Cardinality(N \intersect T)
           Good == {T \in SUBSET S : -50 * Count(T) <= Off(T) /\ Off(T) <= 50 * Count(T)}
<1>1. ASSUME NEW T \in SUBSET S, \A x \in T : T \ {x} \in Good PROVE T \in Good
  <2>1. CASE T = {}
    <3>1. N \intersect T = {}
      BY <2>1
    <3>2. Count(T) = 0
      BY <3>1, FS_EmptySet
    <3>3. SumOf(rounded, T) = 0 /\ SumOf(exact, T) = 0
      BY <2>1, SumOfNone
    <3> QED
      BY <3>2, <3>3
  <2>2. CASE T # {}
    <3>1. PICK x \in T : TRUE
      BY <2>2
    <3> DEFINE rest == T \ {x}
    <3>2. /\ SumOf(rounded, T) = rounded[x] + SumOf(rounded, rest)
          /\ SumOf(exact, T) = exact[x] + SumOf(exact, rest)
      BY FS_Subset, SumTakesOut
    <3>3. SumOf(rounded, rest) \in Int /\ SumOf(exact, rest) \in Int
      BY FS_Subset, SumIsInt
    <3>4. -50 * Count(rest) <= Off(rest) /\ Off(rest) <= 50 * Count(rest)
      BY <1>1
    <3>5. /\ N \intersect rest = (N \intersect T) \ {x}
          /\ IsFiniteSet(N \intersect T)
      BY FS_Subset
    <3>6. Count(T) \in Nat /\ Count(rest) = IF x \in N THEN Count(T) - 1 ELSE Count(T)
      <4> DEFINE here == N \intersect T
      <4>1. IsFiniteSet(here) /\ N \intersect rest = here \ {x} /\ (x \in here <=> x \in N)
        BY <3>1, <3>5
      <4> HIDE DEF here, rest
      <4>2. Cardinality(here) \in Nat
        BY <4>1, FS_CardinalityType
      <4>3. Cardinality(here \ {x}) = IF x \in here THEN Cardinality(here) - 1 ELSE Cardinality(here)
        BY <4>1, FS_RemoveElement
      <4> QED
        BY <4>1, <4>2, <4>3 DEF here
    <3>7. rounded[x] \in Int /\ exact[x] \in Int
      OBVIOUS
    <3> HIDE DEF Count, rest
    <3>8. CASE x \in N
      BY <3>2, <3>3, <3>4, <3>6, <3>7, <3>8
    <3>9. CASE x \notin N
      BY <3>2, <3>3, <3>4, <3>6, <3>7, <3>9
    <3> QED
      BY <3>8, <3>9
  <2> QED
    BY <2>1, <2>2
<1> HIDE DEF Good
<1>2. SUBSET S \subseteq Good
  BY <1>1, SubsetInduction
<1>3. S \in Good /\ N \intersect S = N
  BY <1>2
<1> QED
  BY <1>3 DEF Good

-----------------------------------------------------------------------------
(* The billing cycle.                                                      *)

BillFields == {"bills", "version", "cycle"}

\* Changes are counted, and the cycle was reported after one of them or none.
CycleOK ==
  /\ BillFields \subseteq DOMAIN db
  /\ db.version \in Nat
  /\ db.cycle # Null => db.cycle.asOf \in Nat /\ db.cycle.asOf <= db.version

\* A save holds a report that was made after some change.
SavesOK ==
  /\ DOMAIN up = Requests
  /\ \A r \in Requests :
       up[r].op = "save" => /\ up[r].on = "cycle"
                            /\ up[r].asOf \in Nat /\ up[r].asOf <= db.version

\* The cycle is no newer than the report of a save, unless another overlapped it.
SavesAreCurrent ==
  \A r \in Requests \ overlapped :
    up[r].op = "save" /\ db.cycle # Null => db.cycle.asOf <= up[r].asOf

NewerInv == CycleOK /\ SavesOK /\ SavesAreCurrent

\* What a single step owes to NewerReportStays.
Advances == db.cycle # Null => db'.cycle.asOf >= db.cycle.asOf \/ "cycle" \in blurred'

\* Nothing is billed yet.
LEMMA BillingStart == Init => NewerInv
<1>1. SUFFICES ASSUME NEW offer, DatabaseInit(CheckoutTables(offer)) PROVE NewerInv
  BY DEF Init
<1>2. BillFields \subseteq DOMAIN db /\ db.version = 0 /\ db.cycle = Null
  BY <1>1 DEF BillFields, DatabaseInit, CheckoutTables, Joined, AddressTables, DraftTables, BillingTables
<1>3. DOMAIN up = Requests /\ \A r \in Requests : up[r].op = "idle"
  BY <1>1 DEF DatabaseInit, Idle
<1> QED
  BY <1>2, <1>3 DEF NewerInv, CycleOK, SavesOK, SavesAreCurrent

\* Orders come and are canceled without touching the cycle.
LEMMA ChangesKeep ==
  ASSUME NewerInv, NEW bills, BillChanged(bills)
  PROVE  NewerInv' /\ Advances
<1>1. CycleOK /\ SavesOK /\ SavesAreCurrent
  BY DEF NewerInv
<1>2. /\ db' = [db EXCEPT !.bills = bills, !.version = @ + 1]
      /\ up' = up /\ overlapped' = overlapped
  BY DEF BillChanged
<1>3. /\ DOMAIN db' = DOMAIN db
      /\ db'.version = db.version + 1 /\ db'.cycle = db.cycle
  BY <1>1, <1>2 DEF CycleOK, BillFields
<1>4. CycleOK'
  BY <1>1, <1>3 DEF CycleOK
<1>5. SavesOK'
  BY <1>1, <1>2, <1>3 DEF SavesOK, CycleOK
<1>6. SavesAreCurrent'
  BY <1>1, <1>2, <1>3 DEF SavesAreCurrent
<1>7. Advances
  BY <1>1, <1>3 DEF CycleOK, Advances
<1> QED
  BY <1>4, <1>5, <1>6, <1>7 DEF NewerInv

\* A report is as new as the orders are, so no cycle is newer.
LEMMA ReportKeeps ==
  ASSUME NewerInv, NEW r \in Requests, NEW halfUp \in BOOLEAN, getReport(r, halfUp)
  PROVE  NewerInv' /\ Advances
<1> DEFINE report == buildReport(db.bills, halfUp)
           j == [op |-> "save", on |-> "cycle", report |-> report, asOf |-> db.version]
<1>1. CycleOK /\ SavesOK /\ SavesAreCurrent
  BY DEF NewerInv
<1>2. up' = [up EXCEPT ![r] = j] /\ db' = db /\ overlapped' = overlapped
  BY DEF getReport, Arrive
<1> HIDE DEF report
<1>3. j.op = "save" /\ j.on = "cycle" /\ j.asOf = db.version
  OBVIOUS
<1> HIDE DEF j
<1>4. CycleOK'
  BY <1>1, <1>2 DEF CycleOK
<1>5. SavesOK'
  BY <1>1, <1>2, <1>3 DEF SavesOK, CycleOK
<1>6. SavesAreCurrent'
  BY <1>1, <1>2, <1>3 DEF SavesAreCurrent, SavesOK, CycleOK
<1>7. Advances
  BY <1>1, <1>2 DEF CycleOK, Advances
<1> QED
  BY <1>4, <1>5, <1>6, <1>7 DEF NewerInv

\* A save that commits overlaps every other, and marks the cycle if it was overlapped.
LEMMA SaveKeeps ==
  ASSUME NewerInv, NEW r \in Requests, saveCycle(r)
  PROVE  NewerInv' /\ Advances
<1> DEFINE cycle == Cycle(up[r], up[r].report.items)
<1>1. CycleOK /\ SavesOK /\ SavesAreCurrent
  BY DEF NewerInv
<1>2. /\ up[r].op = "save" /\ up[r].on = "cycle"
      /\ up[r].asOf \in Nat /\ up[r].asOf <= db.version
  BY <1>1 DEF saveCycle, SavesOK
<1>3. /\ db' = [db EXCEPT !.cycle = cycle] /\ up' = [up EXCEPT ![r] = Idle]
      /\ overlapped' = (overlapped \union Contenders(r)) \ {r}
      /\ r \in overlapped => "cycle" \in blurred'
  BY <1>2, BillingAssumption DEF saveCycle, Commit, CommitAnd, CommitStep
<1>4. cycle.asOf = up[r].asOf
  BY DEF Cycle
<1>5. /\ DOMAIN db' = DOMAIN db
      /\ db'.version = db.version /\ db'.cycle.asOf = up[r].asOf
  BY <1>1, <1>3, <1>4 DEF CycleOK, BillFields
<1>6. Idle.op = "idle"
  BY DEF Idle
<1>7. CycleOK'
  BY <1>1, <1>2, <1>5 DEF CycleOK
<1>8. SavesOK'
  BY <1>1, <1>3, <1>5, <1>6 DEF SavesOK
<1>9. ASSUME NEW s \in Requests \ overlapped', up'[s].op = "save" PROVE FALSE
  <2>1. s # r /\ up'[s] = up[s]
    BY <1>1, <1>3, <1>6, <1>9 DEF SavesOK
  <2>2. s \in Contenders(r)
    BY <1>1, <1>2, <1>9, <2>1, BillingAssumption DEF SavesOK, Contenders
  <2> QED
    BY <1>3, <1>9, <2>1, <2>2
<1>10. SavesAreCurrent'
  BY <1>9 DEF SavesAreCurrent
<1>11. Advances
  BY <1>1, <1>2, <1>3, <1>5 DEF SavesAreCurrent, CycleOK, Advances
<1> QED
  BY <1>7, <1>8, <1>10, <1>11 DEF NewerInv

\* A step that leaves the cycle alone, and no request that was not there before is a save.
LEMMA NoSaveKeeps ==
  ASSUME NewerInv, BillFields \subseteq DOMAIN db', DOMAIN up' = Requests,
         db'.version = db.version, db'.cycle = db.cycle,
         \A r \in Requests : \/ up'[r] = up[r] /\ (r \in overlapped => r \in overlapped')
                             \/ up'[r].op # "save"
  PROVE  NewerInv' /\ Advances
<1>1. CycleOK /\ SavesOK /\ SavesAreCurrent
  BY DEF NewerInv
<1>2. CycleOK'
  BY <1>1 DEF CycleOK
<1>3. SavesOK'
  BY <1>1 DEF SavesOK
<1>4. SavesAreCurrent'
  BY <1>1 DEF SavesAreCurrent
<1>5. Advances
  BY <1>1 DEF CycleOK, Advances
<1> QED
  BY <1>2, <1>3, <1>4, <1>5 DEF NewerInv

\* So the requests of the others keep it.
LEMMA OthersKeepCycle ==
  ASSUME NewerInv, NEW r \in Requests, NEW fields, NEW ops, Alone(r, fields, ops),
         BillFields \intersect fields = {}, "save" \notin ops
  PROVE  NewerInv' /\ Advances
<1>1. CycleOK /\ SavesOK
  BY DEF NewerInv
<1>2. BillFields \subseteq DOMAIN db' /\ db'.version = db.version /\ db'.cycle = db.cycle
  BY <1>1 DEF Alone, CycleOK, BillFields
<1>3. DOMAIN up' = Requests /\ \A s \in Requests : \/ up'[s] = up[s] /\ (s \in overlapped => s \in overlapped')
                                                   \/ up'[s].op # "save"
  BY <1>1 DEF Alone, SavesOK
<1> QED
  BY <1>2, <1>3, NoSaveKeeps

\* A request that fails is no save.
LEMMA FailIsAlone ==
  ASSUME NEW r \in Requests, Fail(r)
  PROVE  Alone(r, {}, {"idle"})
<1>1. up' = [up EXCEPT ![r] = Idle] /\ Idle.op \in {"idle"}
  BY DEF Fail, Idle
<1> QED
  BY <1>1 DEF Fail, Alone

\* A report or a save touches none of the other tables.
LEMMA BillingAlone ==
  ASSUME NewerInv, NEW r \in Requests, BillingStep(r)
  PROVE  /\ Alone(r, {"cycle"}, {"save", "idle"})
         /\ blurred' \union {"cycle"} = blurred \union {"cycle"} /\ up'[r].on \in {"cycle", Null}
<1>1. ASSUME NEW halfUp \in BOOLEAN, getReport(r, halfUp)
      PROVE  /\ Alone(r, {"cycle"}, {"save", "idle"})
             /\ blurred' \union {"cycle"} = blurred \union {"cycle"} /\ up'[r].on \in {"cycle", Null}
  <2> DEFINE report == buildReport(db.bills, halfUp)
             j == [op |-> "save", on |-> "cycle", report |-> report, asOf |-> db.version]
  <2>1. Arrive(r, j) /\ blurred' = blurred /\ up'[r] = j
    BY <1>1 DEF getReport, Arrive, NewerInv, SavesOK
  <2> HIDE DEF report
  <2>2. j.op \in {"save", "idle"} /\ j.on = "cycle"
    OBVIOUS
  <2> HIDE DEF j
  <2> QED
    BY <2>1, <2>2, QuietAlone
<1>2. CASE saveCycle(r)
  <2> DEFINE cycle == Cycle(up[r], up[r].report.items)
             tables == [db EXCEPT !.cycle = cycle]
  <2>1. CommitStep(r, tables, Idle, TRUE)
    BY <1>2 DEF saveCycle, Commit, CommitAnd
  <2> HIDE DEF cycle
  <2>2. DOMAIN tables = DOMAIN db /\ \A t \in DOMAIN db \ {"cycle"} : tables[t] = db[t]
    OBVIOUS
  <2> HIDE DEF tables
  <2>3. Idle.op \in {"save", "idle"} /\ Idle.on = Null
    BY DEF Idle
  <2>4. up[r].on = "cycle"
    BY <1>2 DEF saveCycle, NewerInv, SavesOK
  <2>5. blurred' \union {"cycle"} = blurred \union {"cycle"} /\ up'[r] = Idle
    BY <2>1, <2>4 DEF CommitStep, NewerInv, SavesOK
  <2> QED
    BY <2>1, <2>2, <2>3, <2>5, CommitAlone
<1> QED
  BY <1>1, <1>2 DEF BillingStep

-----------------------------------------------------------------------------
(* What a report adds up to.                                               *)

Bill == [total : Nat, canceled : BOOLEAN]
BillsOK(bills) == bills \in [Bills -> Bill \union {Null}]

\* A report is the sum of its items, one for each order.
AddsUp(report) ==
  LET charged == SumFunction([i \in report.items |-> i.commission])
  IN  /\ \A i, j \in report.items : i.order = j.order => i = j
      /\ report.gross = SumFunction([i \in report.items |-> IF i.canceled THEN 0 ELSE i.total])
      /\ report.canceled = SumFunction([i \in report.items |-> IF i.canceled THEN i.total ELSE 0])
      /\ 2 * (report.commission - charged) <= report.billed + 1
      /\ 2 * (charged - report.commission) <= report.billed + 1
      /\ report.net + report.commission = report.gross

\* Rounding moves an amount by half a cent at most.
LEMMA RoundsByHalf ==
  ASSUME NEW h \in Nat, NEW halfUp \in BOOLEAN
  PROVE  LET cents == roundCurrency(h, halfUp)
         IN  /\ cents \in Nat /\ (h = 0 => cents = 0)
             /\ -50 <= 100 * cents - h /\ 100 * cents - h <= 50
<1>1. CASE halfUp = TRUE
  BY <1>1 DEF roundCurrency
<1>2. CASE halfUp = FALSE
  BY <1>2 DEF roundCurrency
<1> QED
  BY <1>1, <1>2

\* Whatever was ordered and canceled, a report adds up: it takes its sums over the
\* orders, its items are what they are sums of, and the commission of the whole is
\* off by half a cent for itself and for each order that is charged.
LEMMA ReportAddsUp ==
  ASSUME NEW bills, BillsOK(bills), NEW halfUp \in BOOLEAN
  PROVE  AddsUp(buildReport(bills, halfUp))
<1> DEFINE all == Placed(bills)
           charges(o) == roundCurrency(CommissionBase(bills[o]) * Percent, halfUp)
           item == [o \in all |-> [order |-> o, total |-> bills[o].total, canceled |-> bills[o].canceled,
                                   commission |-> charges(o)]]
           items == {item[o] : o \in all}
           base == [o \in all |-> IF bills[o].canceled THEN 0 ELSE bills[o].total]
           lost == [o \in all |-> IF bills[o].canceled THEN bills[o].total ELSE 0]
           exact == [o \in all |-> base[o] * Percent]
           cents == [o \in all |-> charges(o)]
           N == {o \in all : ~bills[o].canceled}
           gross == SumOf(base, all)
           commission == roundCurrency(gross * Percent, halfUp)
           report == buildReport(bills, halfUp)
           itemBase == [i \in items |-> IF i.canceled THEN 0 ELSE i.total]
           itemLost == [i \in items |-> IF i.canceled THEN i.total ELSE 0]
           itemCents == [i \in items |-> i.commission]
<1>1. IsFiniteSet(all)
  BY BillingAssumption, FS_Subset DEF Placed
<1>2. \A o \in all : bills[o].total \in Nat /\ bills[o].canceled \in BOOLEAN
  BY DEF Placed, BillsOK, Bill
<1>3. \A o \in all : base[o] \in Nat /\ lost[o] \in Nat /\ base[o] = CommissionBase(bills[o])
  BY <1>2 DEF CommissionBase
<1>4. Percent \in Nat
  BY BillingAssumption
<1>5. \A o \in all : exact[o] \in Nat /\ exact[o] = CommissionBase(bills[o]) * Percent
  <2>1. \A m \in Nat : m * Percent \in Nat
    BY <1>4
  <2> QED
    BY <1>3, <2>1
<1>6. gross \in Nat
  BY <1>1, <1>3, SumIsNat
<1>7. SumOf(exact, all) = gross * Percent
  <2>1. \A o \in all : exact[o] = base[o] * Percent /\ base[o] \in Int
    BY <1>3
  <2> HIDE DEF exact, base, all
  <2> QED
    BY <1>1, <1>4, <2>1, SumOfMultiples
<1>8. \A o \in all : /\ cents[o] \in Nat /\ (exact[o] = 0 => cents[o] = 0)
                     /\ -50 <= 100 * cents[o] - exact[o] /\ 100 * cents[o] - exact[o] <= 50
  <2> HIDE DEF exact
  <2> QED
    BY ZenonT(60), <1>5, RoundsByHalf
<1>9. /\ report.gross = gross /\ report.canceled = SumOf(lost, all) /\ report.commission = commission
      /\ report.net = gross - commission /\ report.billed = Cardinality(N)
  BY SumOfFunction DEF buildReport
<1>10. report.items = items
  BY DEF buildReport
<1>11. \A o, p \in all : item[o] = item[p] => o = p
  OBVIOUS
<1>12. \A i, j \in items : i.order = j.order => i = j
  OBVIOUS
<1>13. /\ SumFunction(itemBase) = SumOf(itemBase, items)
       /\ SumFunction(itemLost) = SumOf(itemLost, items)
       /\ SumFunction(itemCents) = SumOf(itemCents, items)
  BY SumOfFunction
<1>14. \A o \in all : /\ itemBase[item[o]] = base[o] /\ itemLost[item[o]] = lost[o]
                      /\ itemCents[item[o]] = cents[o]
  OBVIOUS
<1>15. N \subseteq all /\ \A o \in all \ N : exact[o] = 0
  BY <1>2, <1>4
<1>16. commission \in Nat /\ -50 <= 100 * commission - gross * Percent
       /\ 100 * commission - gross * Percent <= 50
  <2>1. gross * Percent \in Nat
    BY <1>4, <1>6
  <2> HIDE DEF gross
  <2> QED
    BY <2>1, RoundsByHalf
<1>17. Cardinality(N) \in Nat
  BY <1>1, <1>15, FS_Subset, FS_CardinalityType
<1> HIDE DEF all, item, base, lost, exact, cents, N, itemBase, itemLost, itemCents
<1>18. SumOf(itemBase, items) = gross /\ SumOf(itemLost, items) = SumOf(lost, all)
       /\ SumOf(itemCents, items) = SumOf(cents, all)
  <2>1. SumOf(itemBase, {item[o] : o \in all}) = SumOf(base, all)
    BY <1>1, <1>3, <1>11, <1>14, SumIsMoved
  <2>2. SumOf(itemLost, {item[o] : o \in all}) = SumOf(lost, all)
    BY <1>1, <1>3, <1>11, <1>14, SumIsMoved
  <2>3. SumOf(itemCents, {item[o] : o \in all}) = SumOf(cents, all)
    BY <1>1, <1>8, <1>11, <1>14, SumIsMoved
  <2> QED
    BY <2>1, <2>2, <2>3
<1> DEFINE charged == SumOf(cents, all)
           due == SumOf(exact, all)
           n == Cardinality(N)
<1>19. -50 * n <= 100 * charged - due /\ 100 * charged - due <= 50 * n
  <2>1. \A o \in N : -50 <= 100 * cents[o] - exact[o] /\ 100 * cents[o] - exact[o] <= 50
    BY <1>8, <1>15
  <2>2. \A o \in all \ N : cents[o] = 0 /\ exact[o] = 0
    BY <1>8, <1>15
  <2>3. \A o \in all : exact[o] \in Int /\ cents[o] \in Int
    BY <1>5, <1>8
  <2> QED
    BY <1>1, <1>15, <2>1, <2>2, <2>3, SumOfRounded
<1>20. charged \in Nat
  BY <1>1, <1>8, SumIsNat
<1>21. due \in Nat
  BY <1>1, <1>5, SumIsNat
<1> HIDE DEF gross, commission, charged, due, n
<1>22. n \in Nat /\ due = gross * Percent
  BY <1>7, <1>17 DEF n, due
<1>23. -50 <= 100 * commission - due /\ 100 * commission - due <= 50
  BY <1>16, <1>22
<1>24. 2 * (commission - charged) <= n + 1 /\ 2 * (charged - commission) <= n + 1
  BY <1>16, <1>19, <1>20, <1>21, <1>22, <1>23
<1>25. report.net + report.commission = report.gross
  BY <1>6, <1>9, <1>16 DEF gross
<1>26. /\ SumFunction([i \in report.items |-> IF i.canceled THEN 0 ELSE i.total]) = gross
       /\ SumFunction([i \in report.items |-> IF i.canceled THEN i.total ELSE 0]) = SumOf(lost, all)
       /\ SumFunction([i \in report.items |-> i.commission]) = charged
  BY <1>10, <1>13, <1>18 DEF itemBase, itemLost, itemCents, charged
<1> HIDE DEF items, report
<1>27. /\ \A i, j \in report.items : i.order = j.order => i = j
       /\ report.gross = gross /\ report.canceled = SumOf(lost, all)
       /\ report.commission = commission /\ report.billed = n
  BY <1>9, <1>10, <1>12 DEF n
<1> DEFINE taken == SumFunction([i \in report.items |-> i.commission])
<1>28. taken = charged
  BY <1>26
<1> HIDE DEF taken
<1>29. /\ 2 * (report.commission - taken) <= report.billed + 1
       /\ 2 * (taken - report.commission) <= report.billed + 1
  BY <1>24, <1>27, <1>28
<1> USE DEF taken
<1>30. /\ report.gross = SumFunction([i \in report.items |-> IF i.canceled THEN 0 ELSE i.total])
       /\ report.canceled = SumFunction([i \in report.items |-> IF i.canceled THEN i.total ELSE 0])
  BY <1>26, <1>27
<1>31. AddsUp(report)
  BY <1>25, <1>27, <1>29, <1>30, Zenon DEF AddsUp
<1> QED
  BY <1>31 DEF report

-----------------------------------------------------------------------------
(* Reports that are saved add up.                                          *)

SumsInv ==
  /\ BillFields \subseteq DOMAIN db /\ BillsOK(db.bills)
  /\ DOMAIN up = Requests
  /\ \A r \in Requests : up[r].op = "save" => AddsUp(up[r].report)
  /\ db.cycle # Null => AddsUp(db.cycle) /\ db.cycle.due = db.cycle.commission

BillingInv == NewerInv /\ SumsInv

\* Nothing is billed at first.
LEMMA SumsStart == Init => SumsInv
<1>1. SUFFICES ASSUME NEW offer, DatabaseInit(CheckoutTables(offer)) PROVE SumsInv
  BY DEF Init
<1>2. /\ BillFields \subseteq DOMAIN db /\ db.cycle = Null
      /\ db.bills = [o \in Bills |-> Null]
  BY <1>1 DEF BillFields, DatabaseInit, CheckoutTables, Joined, AddressTables, DraftTables, BillingTables
<1>3. DOMAIN up = Requests /\ \A r \in Requests : up[r].op = "idle"
  BY <1>1 DEF DatabaseInit, Idle
<1> QED
  BY <1>2, <1>3 DEF SumsInv, BillsOK

\* Bills stay bills, and what was reported of them before is not changed.
LEMMA ChangesKeepSums ==
  ASSUME SumsInv, BillChange
  PROVE  SumsInv'
<1>1. \E bills : BillChanged(bills) /\ BillsOK(bills)
  <2>1. ASSUME NEW o \in Bills, CancelBill(o) PROVE \E bills : BillChanged(bills) /\ BillsOK(bills)
    <3> DEFINE bills == [db.bills EXCEPT ![o].canceled = TRUE]
    <3>1. db.bills[o] \in Bill
      BY <2>1 DEF CancelBill, SumsInv, BillsOK
    <3>2. [db.bills[o] EXCEPT !.canceled = TRUE] \in Bill
      BY <3>1 DEF Bill
    <3>3. BillsOK(bills)
      BY <3>2 DEF SumsInv, BillsOK
    <3> QED
      BY <2>1, <3>3 DEF CancelBill
  <2>2. ASSUME NEW o \in Bills, NEW total \in Totals, PlaceBill(o, total)
        PROVE  \E bills : BillChanged(bills) /\ BillsOK(bills)
    <3> DEFINE bills == [db.bills EXCEPT ![o] = [total |-> total, canceled |-> FALSE]]
    <3>1. [total |-> total, canceled |-> FALSE] \in Bill
      BY BillingAssumption DEF Bill
    <3>2. BillsOK(bills)
      BY <3>1 DEF SumsInv, BillsOK
    <3> QED
      BY <2>2, <3>2 DEF PlaceBill
  <2> QED
    BY <2>1, <2>2 DEF BillChange
<1>2. PICK bills : BillChanged(bills) /\ BillsOK(bills)
  BY <1>1
<1>3. /\ db' = [db EXCEPT !.bills = bills, !.version = @ + 1] /\ up' = up
  BY <1>2 DEF BillChanged
<1>4. DOMAIN db' = DOMAIN db /\ db'.bills = bills /\ db'.cycle = db.cycle
  BY <1>3 DEF SumsInv, BillFields
<1> QED
  BY <1>2, <1>3, <1>4 DEF SumsInv

\* What is reported adds up.
LEMMA ReportKeepsSums ==
  ASSUME SumsInv, NEW r \in Requests, NEW halfUp \in BOOLEAN, getReport(r, halfUp)
  PROVE  SumsInv'
<1> DEFINE report == buildReport(db.bills, halfUp)
           j == [op |-> "save", on |-> "cycle", report |-> report, asOf |-> db.version]
<1>1. up' = [up EXCEPT ![r] = j] /\ db' = db
  BY DEF getReport, Arrive
<1>2. AddsUp(report)
  BY ReportAddsUp DEF SumsInv
<1> HIDE DEF report
<1>3. j.report = report
  OBVIOUS
<1> HIDE DEF j
<1> QED
  BY <1>1, <1>2, <1>3 DEF SumsInv

\* The cycle has the amounts and the items of the report it is made from.
LEMMA CycleAddsUp ==
  ASSUME NEW job, AddsUp(job.report)
  PROVE  AddsUp(Cycle(job, job.report.items))
<1> DEFINE c == Cycle(job, job.report.items)
<1>1. /\ c.items = job.report.items /\ c.gross = job.report.gross /\ c.canceled = job.report.canceled
      /\ c.commission = job.report.commission /\ c.net = job.report.net /\ c.billed = job.report.billed
  BY DEF Cycle
<1> HIDE DEF c
<1>2. AddsUp(c)
  BY <1>1 DEF AddsUp
<1> QED
  BY <1>2 DEF c

\* A save keeps the sums right.
LEMMA SaveKeepsSums ==
  ASSUME SumsInv, NEW r \in Requests, saveCycle(r)
  PROVE  SumsInv'
<1> DEFINE cycle == Cycle(up[r], up[r].report.items)
<1>1. AddsUp(cycle)
  BY CycleAddsUp DEF saveCycle, SumsInv
<1>2. db' = [db EXCEPT !.cycle = cycle] /\ up' = [up EXCEPT ![r] = Idle]
  BY DEF saveCycle, Commit, CommitAnd, CommitStep
<1>3. cycle.due = cycle.commission
  BY DEF Cycle
<1> HIDE DEF cycle
<1>4. DOMAIN db' = DOMAIN db /\ db'.bills = db.bills /\ db'.cycle = cycle
  BY <1>2 DEF SumsInv, BillFields
<1>5. Idle.op # "save"
  BY DEF Idle
<1> QED
  BY <1>1, <1>2, <1>3, <1>4, <1>5 DEF SumsInv

\* The requests of the others change neither bills nor reports.
LEMMA OthersKeepSums ==
  ASSUME SumsInv, NEW r \in Requests, NEW fields, NEW ops, Alone(r, fields, ops),
         BillFields \intersect fields = {}, "save" \notin ops
  PROVE  SumsInv'
<1>1. BillFields \subseteq DOMAIN db' /\ db'.bills = db.bills /\ db'.cycle = db.cycle
  BY DEF Alone, SumsInv, BillFields
<1>2. DOMAIN up' = Requests /\ \A s \in Requests : up'[s] = up[s] \/ up'[s].op # "save"
  BY DEF Alone, SumsInv
<1> QED
  BY <1>1, <1>2 DEF SumsInv

\* A saved cycle is the sum of its items.
LEMMA BillingSafe == BillingInv => CycleIsSumOfItems
<1>1. SUFFICES ASSUME SumsInv, db.cycle # Null PROVE CycleIsSumOfItems
  BY DEF BillingInv, CycleIsSumOfItems
<1>2. AddsUp(db.cycle) /\ db.cycle.due = db.cycle.commission
  BY <1>1 DEF SumsInv
<1> QED
  BY <1>2, Zenon DEF AddsUp, CycleIsSumOfItems

-----------------------------------------------------------------------------
(* What a draft knows of the offers it has seen.                           *)

DraftFields == {"offer", "edits", "order"}

\* An offer with which every cart can be compared.
OfferOK(offer) ==
  IsOffer(offer) /\ \A cart \in Carts : \A line \in ToSet(cart.lines) : line.item \in DOMAIN offer.items

SawRestaurant(seen, city, minOrder) ==
  \E s \in seen : s.active /\ s.city = city /\ s.minOrder = minOrder
SawZone(seen, nb, fee) == \E s \in seen : s.zones[nb] = [active |-> TRUE, fee |-> fee]
SawItems(seen, lines, subtotal) ==
  \E s \in seen : /\ \A n \in DOMAIN lines : LineFits(lines[n], s.items[lines[n].item])
                  /\ subtotal = Subtotal(lines, s.items)
SawMethod(seen, method) == \E s \in seen : MethodActive(s, method)
SawAccepted(seen, method) == \E s \in seen : MethodAccepted(s, method)

AfterAccepted == {"place"}
AfterMethod == {"accepted"} \union AfterAccepted
AfterItems == {"method"} \union AfterMethod
AfterZone == {"items"} \union AfterItems
AfterAddress == {"zone"} \union AfterZone
AfterRestaurant == {"address"} \union AfterAddress

\* What was read of each part is what some offer said that the draft has seen.
KnowsCart(j, offer) ==
  /\ {"op", "on", "step", "cart", "seen"} \subseteq DOMAIN j
  /\ j.on = Null /\ j.cart \in Carts
  /\ offer \in j.seen /\ \A s \in j.seen : OfferOK(s)
KnowsRestaurant(j) ==
  /\ {"city", "minOrder"} \subseteq DOMAIN j
  /\ SawRestaurant(j.seen, j.city, j.minOrder)
KnowsAddress(j) ==
  /\ {"place", "clean"} \subseteq DOMAIN j
  /\ j.place.nb \in Neighborhoods /\ j.city \in {Null, j.place.city}
  /\ j.clean => CityOf[j.place.nb] = j.place.city
KnowsZone(j) ==
  /\ "fee" \in DOMAIN j /\ j.fee \in Nat
  /\ SawZone(j.seen, j.place.nb, j.fee)
KnowsItems(j) ==
  /\ "subtotal" \in DOMAIN j /\ j.subtotal \in Nat
  /\ SawItems(j.seen, j.cart.lines, j.subtotal)
KnowsMethod(j) ==
  /\ SawMethod(j.seen, j.cart.method)
  /\ j.minOrder # Null => j.minOrder <= j.subtotal
KnowsTotal(j) ==
  /\ {"discount", "total"} \subseteq DOMAIN j
  /\ SawAccepted(j.seen, j.cart.method)
  /\ j.discount = computeDiscount(j.cart.coupon, j.subtotal)
  /\ j.total = Cent * (j.subtotal + j.fee) - j.discount

DraftJob(j, offer) ==
  /\ KnowsCart(j, offer)
  /\ j.step \in AfterRestaurant => KnowsRestaurant(j)
  /\ j.step \in AfterAddress => KnowsAddress(j)
  /\ j.step \in AfterZone => KnowsZone(j)
  /\ j.step \in AfterItems => KnowsItems(j)
  /\ j.step \in AfterMethod => KnowsMethod(j)
  /\ j.step \in AfterAccepted => KnowsTotal(j)

\* An order is made of what its draft knew.
OrderOK(o) ==
  /\ o.cart \in Carts /\ (\A s \in o.seen : OfferOK(s)) /\ o.place.nb \in Neighborhoods
  /\ \E s \in o.seen : /\ s.active /\ s.city \in {Null, o.place.city}
                       /\ s.minOrder # Null => o.subtotal >= s.minOrder
  /\ o.clean => CityOf[o.place.nb] = o.place.city
  /\ o.fee \in Nat /\ SawZone(o.seen, o.place.nb, o.fee)
  /\ o.subtotal \in Nat /\ SawItems(o.seen, o.cart.lines, o.subtotal)
  /\ SawMethod(o.seen, o.cart.method) /\ SawAccepted(o.seen, o.cart.method)
  /\ o.exact = computeDiscount(o.cart.coupon, o.subtotal) /\ o.discount = Stored(o.exact)
  /\ o.total = Stored(Cent * (o.subtotal + o.fee) - o.exact)

DraftInv ==
  /\ DraftFields \subseteq DOMAIN db /\ OfferOK(db.offer)
  /\ DOMAIN up = Requests
  /\ \A r \in Requests : up[r].op = "draft" => DraftJob(up[r], db.offer)
  /\ db.order # Null => OrderOK(db.order)

\* Nothing was ordered before.
LEMMA DraftStart == Init => DraftInv
<1>1. SUFFICES ASSUME NEW offer \in Offers, DatabaseInit(CheckoutTables(offer)) PROVE DraftInv
  BY DEF Init
<1>2. DraftFields \subseteq DOMAIN db /\ db.offer = offer /\ db.order = Null
  BY <1>1 DEF DraftFields, DatabaseInit, CheckoutTables, Joined, AddressTables, DraftTables, BillingTables
<1>3. DOMAIN up = Requests /\ \A r \in Requests : up[r].op = "idle"
  BY <1>1 DEF DatabaseInit, Idle
<1>4. OfferOK(offer)
  BY OrderDraftAssumption DEF OfferOK, IsCart, IsLine
<1> QED
  BY <1>2, <1>3, <1>4 DEF DraftInv

\* A job that goes on keeps what it knows and adds what it reads.
Extended(k, j, name, read) ==
  /\ DOMAIN k = DOMAIN read \union DOMAIN j /\ k.step = name
  /\ \A f \in DOMAIN read : k[f] = read[f]
  /\ \A f \in DOMAIN j \ (DOMAIN read \union {"step"}) : k[f] = j[f]

\* A step of a draft that goes on extends what it knew.
LEMMA GoesOn ==
  ASSUME NEW r \in Requests, NEW name, NEW read, GoOn(r, name, read),
         "step" \in DOMAIN up[r], "step" \notin DOMAIN read
  PROVE  \E k : up' = [up EXCEPT ![r] = k] /\ db' = db /\ Extended(k, up[r], name, read)
<1> DEFINE k == Joined(read, [up[r] EXCEPT !.step = name])
<1>1. up' = [up EXCEPT ![r] = k] /\ db' = db
  BY DEF GoOn, Proceed
<1>2. Extended(k, up[r], name, read)
  BY DEF Joined, Extended
<1> HIDE DEF k
<1> QED
  BY <1>1, <1>2

\* When one draft goes on or ends, the others know what they knew.
LEMMA OneDraftStep ==
  ASSUME DraftInv, NEW r \in Requests, NEW k, up' = [up EXCEPT ![r] = k],
         DOMAIN db' = DOMAIN db, db'.offer = db.offer,
         k.op = "draft" => DraftJob(k, db.offer),
         db'.order = db.order \/ OrderOK(db'.order)
  PROVE  DraftInv'
<1>1. \A s \in Requests : up'[s].op = "draft" => DraftJob(up'[s], db'.offer)
  <2>1. ASSUME NEW s \in Requests, up'[s].op = "draft" PROVE DraftJob(up'[s], db.offer)
    <3>1. CASE s = r
      BY <2>1, <3>1 DEF DraftInv
    <3>2. CASE s # r
      <4>1. up'[s] = up[s]
        BY <3>2 DEF DraftInv
      <4>2. DraftJob(up[s], db.offer)
        BY <2>1, <4>1 DEF DraftInv
      <4> QED
        BY <4>1, <4>2
    <3> QED
      BY <3>1, <3>2
  <2> QED
    BY <2>1
<1>2. DraftFields \subseteq DOMAIN db' /\ OfferOK(db'.offer) /\ DOMAIN up' = Requests
  BY DEF DraftInv
<1>3. db'.order # Null => OrderOK(db'.order)
  <2>1. CASE db'.order = db.order
    BY <2>1 DEF DraftInv
  <2> QED
    BY <2>1
<1>4. (\A s \in Requests : up[s].op = "draft" => DraftJob(up[s], db.offer))'
  BY <1>1 DEF DraftJob, KnowsCart, KnowsRestaurant, KnowsAddress, KnowsZone, KnowsItems,
              KnowsMethod, KnowsTotal
<1> QED
  BY <1>2, <1>3, <1>4 DEF DraftInv, OrderOK

\* A customer with a verified phone begins, knowing the cart.
LEMMA DraftBegins ==
  ASSUME DraftInv, NEW r \in Requests, NEW cart \in Carts, StartDraft(r, cart)
  PROVE  DraftInv'
<1> DEFINE j == [op |-> "draft", on |-> Null, step |-> "restaurant", cart |-> cart, seen |-> {db.offer}]
<1>1. up' = [up EXCEPT ![r] = j] /\ db' = db
  BY DEF StartDraft, Arrive
<1>2. /\ {"op", "on", "step", "cart", "seen"} \subseteq DOMAIN j /\ j.step = "restaurant"
      /\ j.on = Null /\ j.cart = cart /\ j.seen = {db.offer}
  OBVIOUS
<1> HIDE DEF j
<1>3. KnowsCart(j, db.offer)
  BY <1>2 DEF KnowsCart, DraftInv
<1>4. DraftJob(j, db.offer)
  BY <1>2, <1>3 DEF DraftJob, AfterRestaurant, AfterAddress, AfterZone, AfterItems, AfterMethod, AfterAccepted
<1> QED
  BY <1>1, <1>4, OneDraftStep

\* The city and the minimum are those of the restaurant while it is open.
LEMMA RestaurantRead ==
  ASSUME DraftInv, NEW r \in Requests, ReadRestaurant(r)
  PROVE  DraftInv'
<1> DEFINE read == [city |-> db.offer.city, minOrder |-> db.offer.minOrder]
<1>1. up[r].step = "restaurant" /\ DraftJob(up[r], db.offer) /\ db.offer.active
  BY DEF ReadRestaurant, Step, DraftInv
<1>2. KnowsCart(up[r], db.offer)
  BY <1>1 DEF DraftJob
<1>3. PICK k : up' = [up EXCEPT ![r] = k] /\ db' = db /\ Extended(k, up[r], "address", read)
  <2>1. GoOn(r, "address", read) /\ "step" \notin DOMAIN read /\ "step" \in DOMAIN up[r]
    BY <1>2 DEF ReadRestaurant, KnowsCart
  <2> HIDE DEF read
  <2> QED
    BY <2>1, GoesOn
<1>4. /\ DOMAIN up[r] \subseteq DOMAIN k /\ k.step = "address" /\ {"city", "minOrder"} \subseteq DOMAIN k
      /\ k.cart = up[r].cart /\ k.seen = up[r].seen /\ k.on = up[r].on
      /\ k.city = db.offer.city /\ k.minOrder = db.offer.minOrder
  BY <1>2, <1>3 DEF KnowsCart, Extended
<1>5. KnowsCart(k, db.offer)
  BY <1>2, <1>4 DEF KnowsCart
<1>6. KnowsRestaurant(k)
  BY <1>1, <1>4, <1>5 DEF KnowsCart, KnowsRestaurant, SawRestaurant
<1>7. DraftJob(k, db.offer)
  BY <1>4, <1>5, <1>6 DEF DraftJob, AfterAddress, AfterZone, AfterItems, AfterMethod, AfterAccepted
<1> QED
  BY <1>3, <1>7, OneDraftStep

\* The address is one of the customer's own and lies in the city of the restaurant.
LEMMA AddressRead ==
  ASSUME AddressInv, DraftInv, NEW r \in Requests, ReadAddress(r)
  PROVE  DraftInv'
<1> DEFINE a == up[r].cart.address
           read == [place |-> db.addresses[a], clean |-> a \notin blurred]
<1>1. /\ up[r].step = "address" /\ DraftJob(up[r], db.offer)
      /\ a \in Owned /\ up[r].city \in {Null, db.addresses[a].city}
  BY DEF ReadAddress, Step, DraftInv
<1>2. KnowsCart(up[r], db.offer) /\ KnowsRestaurant(up[r])
  BY <1>1 DEF DraftJob, AfterRestaurant
<1>3. /\ db.addresses[a].nb \in Neighborhoods
      /\ a \notin blurred => CityOf[db.addresses[a].nb] = db.addresses[a].city
  BY <1>1 DEF AddressInv, DefaultInv, RowsOK, AddressRows, PlaceInv, PlaceConsistent
<1> HIDE DEF a
<1>4. PICK k : up' = [up EXCEPT ![r] = k] /\ db' = db /\ Extended(k, up[r], "zone", read)
  <2>1. GoOn(r, "zone", read) /\ "step" \notin DOMAIN read /\ "step" \in DOMAIN up[r]
    BY <1>2 DEF ReadAddress, KnowsCart, a
  <2> HIDE DEF read
  <2> QED
    BY <2>1, GoesOn
<1>5. /\ DOMAIN up[r] \subseteq DOMAIN k /\ k.step = "zone" /\ {"place", "clean"} \subseteq DOMAIN k
      /\ k.cart = up[r].cart /\ k.seen = up[r].seen /\ k.on = up[r].on
      /\ k.city = up[r].city /\ k.minOrder = up[r].minOrder
      /\ k.place = db.addresses[a] /\ (k.clean <=> a \notin blurred)
  BY <1>2, <1>4 DEF KnowsCart, KnowsRestaurant, Extended
<1>6. KnowsCart(k, db.offer) /\ KnowsRestaurant(k)
  BY <1>2, <1>5 DEF KnowsCart, KnowsRestaurant
<1>7. KnowsAddress(k)
  BY <1>1, <1>3, <1>5 DEF KnowsAddress
<1>8. DraftJob(k, db.offer)
  BY <1>5, <1>6, <1>7 DEF DraftJob, AfterZone, AfterItems, AfterMethod, AfterAccepted
<1> QED
  BY <1>4, <1>8, OneDraftStep

\* The fee is that of an active zone.
LEMMA ZoneRead ==
  ASSUME DraftInv, NEW r \in Requests, ReadZone(r)
  PROVE  DraftInv'
<1> DEFINE nb == up[r].place.nb
           read == [fee |-> db.offer.zones[nb].fee]
<1>1. up[r].step = "zone" /\ DraftJob(up[r], db.offer) /\ ServesZone(db.offer, nb)
  BY DEF ReadZone, Step, DraftInv
<1>2. KnowsCart(up[r], db.offer) /\ KnowsRestaurant(up[r]) /\ KnowsAddress(up[r])
  BY <1>1 DEF DraftJob, AfterRestaurant, AfterAddress
<1>3. nb \in Neighborhoods
  BY <1>2 DEF KnowsAddress
<1>4. db.offer.zones \in [Neighborhoods -> [active : BOOLEAN, fee : Nat] \union {Null}]
  BY SMTT(30) DEF DraftInv, OfferOK, IsOffer
<1>5. db.offer.zones[nb] = [active |-> TRUE, fee |-> db.offer.zones[nb].fee]
      /\ db.offer.zones[nb].fee \in Nat
  BY <1>1, <1>3, <1>4 DEF ServesZone
<1> HIDE DEF nb
<1>6. PICK k : up' = [up EXCEPT ![r] = k] /\ db' = db /\ Extended(k, up[r], "items", read)
  <2>1. GoOn(r, "items", read) /\ "step" \notin DOMAIN read /\ "step" \in DOMAIN up[r]
    BY <1>2 DEF ReadZone, KnowsCart, nb
  <2> HIDE DEF read
  <2> QED
    BY <2>1, GoesOn
<1>7. /\ DOMAIN up[r] \subseteq DOMAIN k /\ k.step = "items" /\ "fee" \in DOMAIN k
      /\ k.cart = up[r].cart /\ k.seen = up[r].seen /\ k.on = up[r].on
      /\ k.city = up[r].city /\ k.minOrder = up[r].minOrder
      /\ k.place = up[r].place /\ k.clean = up[r].clean
      /\ k.fee = db.offer.zones[nb].fee
  BY <1>2, <1>6 DEF KnowsCart, KnowsRestaurant, KnowsAddress, Extended
<1>8. KnowsCart(k, db.offer) /\ KnowsRestaurant(k) /\ KnowsAddress(k)
  BY <1>2, <1>7, ZenonT(60) DEF KnowsCart, KnowsRestaurant, KnowsAddress
<1>9. KnowsZone(k)
  BY <1>5, <1>7, <1>8 DEF KnowsCart, KnowsZone, SawZone, nb
<1>10. DraftJob(k, db.offer)
  BY <1>7, <1>8, <1>9 DEF DraftJob, AfterItems, AfterMethod, AfterAccepted
<1> QED
  BY <1>6, <1>10, OneDraftStep

\* The lines of a cart, and what was picked for each, are finitely many.
LEMMA LinesAreFinite ==
  ASSUME NEW cart \in Carts
  PROVE  /\ IsFiniteSet(DOMAIN cart.lines)
         /\ \A n \in DOMAIN cart.lines :
              LET line == cart.lines[n]
              IN  /\ line \in ToSet(cart.lines) /\ IsLine(line)
                  /\ IsFiniteSet(DOMAIN line.picks)
                  /\ DOMAIN line.picks = 1..Len(line.picks) /\ Len(line.picks) \in Nat
<1>1. /\ cart.lines \in Seq(ToSet(cart.lines))
      /\ \A line \in ToSet(cart.lines) : IsLine(line)
  BY OrderDraftAssumption DEF IsCart
<1>2. \A S : \A seq \in Seq(S) : DOMAIN seq = 1..Len(seq) /\ Len(seq) \in Nat
  OBVIOUS
<1>3. \A S : \A seq \in Seq(S) : IsFiniteSet(DOMAIN seq)
  BY <1>2, FS_Interval
<1>4. \A n \in DOMAIN cart.lines : cart.lines[n] \in ToSet(cart.lines)
  BY DEF ToSet
<1>5. ASSUME NEW n \in DOMAIN cart.lines
      PROVE  LET line == cart.lines[n]
             IN  /\ IsFiniteSet(DOMAIN line.picks)
                 /\ DOMAIN line.picks = 1..Len(line.picks) /\ Len(line.picks) \in Nat
  BY <1>1, <1>2, <1>3, <1>4 DEF IsLine
<1> QED
  BY <1>1, <1>3, <1>4, <1>5

\* What fits an item is one of its active choices.
LEMMA PicksAreChoices ==
  ASSUME NEW item, IsItem(item), NEW line, LineFits(line, item), NEW p \in ToSet(line.picks)
  PROVE  /\ p.group \in ActiveGroups(item) /\ p.group \in DOMAIN item.groups
         /\ p.choice \in ActiveChoices(item.groups[p.group])
         /\ p.choice \in DOMAIN item.groups[p.group].choices
         /\ item.groups[p.group].choices[p.choice].price \in Nat
<1>1. PicksFit(ToSet(line.picks), item)
  BY DEF LineFits
<1>2. p.group \in ActiveGroups(item)
  BY <1>1 DEF PicksFit
<1> DEFINE group == item.groups[p.group]
<1>3. {q.choice : q \in {q \in ToSet(line.picks) : q.group = p.group}} \subseteq ActiveChoices(group)
  BY <1>1, <1>2 DEF PicksFit
<1>4. p.choice \in ActiveChoices(group)
  BY <1>3
<1>5. p.group \in DOMAIN item.groups /\ p.choice \in DOMAIN group.choices
  BY <1>2, <1>4 DEF ActiveGroups, ActiveChoices
<1>6. group.choices \in [DOMAIN group.choices -> [active : BOOLEAN, price : Nat]]
  BY <1>5 DEF IsItem, AreGroups, IsGroup
<1> QED
  BY <1>2, <1>4, <1>5, <1>6

\* A cart that fits costs something or nothing.
LEMMA SubtotalIsNat ==
  ASSUME NEW cart \in Carts, NEW offer, OfferOK(offer),
         \A n \in DOMAIN cart.lines : LineFits(cart.lines[n], offer.items[cart.lines[n].item])
  PROVE  Subtotal(cart.lines, offer.items) \in Nat
<1> DEFINE cost == [n \in DOMAIN cart.lines |-> LinePrice(cart.lines[n], offer.items[cart.lines[n].item])]
<1>1. ASSUME NEW n \in DOMAIN cart.lines PROVE cost[n] \in Nat
  <2> DEFINE line == cart.lines[n]
             item == offer.items[line.item]
             prices == [k \in DOMAIN line.picks |->
                          item.groups[line.picks[k].group].choices[line.picks[k].choice].price]
  <2>1. line \in ToSet(cart.lines) /\ IsLine(line) /\ IsFiniteSet(DOMAIN line.picks)
    BY LinesAreFinite
  <2>2. LineFits(line, item) /\ item # Null
    BY DEF LineFits
  <2>3. IsItem(item)
    BY <2>1, <2>2 DEF OfferOK, IsOffer
  <2>4. \A k \in DOMAIN line.picks : line.picks[k] \in ToSet(line.picks)
    BY ZenonT(60) DEF ToSet
  <2>5. \A k \in DOMAIN line.picks : prices[k] \in Nat
    <3> HIDE DEF line, item
    <3> QED
      BY ZenonT(60), <2>2, <2>3, <2>4, PicksAreChoices
  <2>6. SumFunction(prices) = SumOf(prices, DOMAIN line.picks)
    BY SumOfFunction
  <2>7. SumOf(prices, DOMAIN line.picks) \in Nat
    <3> HIDE DEF prices, line
    <3> QED
      BY ZenonT(60), <2>1, <2>5, SumIsNat
  <2>8. line.qty \in Nat /\ item.price \in Nat
    BY <2>1, <2>3, SMTT(30) DEF IsLine, IsItem
  <2>9. cost[n] = line.qty * (item.price + SumFunction(prices))
    BY DEF LinePrice
  <2>10. \A p, q, s \in Nat : q * (p + s) \in Nat
    OBVIOUS
  <2> HIDE DEF cost, line, item, prices
  <2> QED
    BY <2>6, <2>7, <2>8, <2>9, <2>10
<1>2. Subtotal(cart.lines, offer.items) = SumOf(cost, DOMAIN cart.lines)
  BY SumOfFunction DEF Subtotal
<1>3. IsFiniteSet(DOMAIN cart.lines)
  BY LinesAreFinite
<1> HIDE DEF cost
<1> QED
  BY <1>1, <1>2, <1>3, SumIsNat

\* The items were all there, as the cart wants them, and cost what is charged.
LEMMA ItemsRead ==
  ASSUME DraftInv, NEW r \in Requests, ReadItems(r)
  PROVE  DraftInv'
<1> DEFINE lines == up[r].cart.lines
           subtotal == Subtotal(lines, db.offer.items)
           read == [subtotal |-> subtotal]
<1>1. /\ up[r].step = "items" /\ DraftJob(up[r], db.offer)
      /\ \A n \in DOMAIN lines : LineFits(lines[n], db.offer.items[lines[n].item])
  BY DEF ReadItems, Step, DraftInv
<1>2. KnowsCart(up[r], db.offer) /\ KnowsRestaurant(up[r]) /\ KnowsAddress(up[r]) /\ KnowsZone(up[r])
  BY <1>1 DEF DraftJob, AfterRestaurant, AfterAddress, AfterZone
<1>3. subtotal \in Nat
  BY <1>1, <1>2, SubtotalIsNat DEF KnowsCart
<1>4. SawItems({db.offer}, lines, subtotal)
  BY <1>1 DEF SawItems
<1>5. GoOn(r, "method", read)
  BY DEF ReadItems
<1> HIDE DEF subtotal
<1>6. PICK k : up' = [up EXCEPT ![r] = k] /\ db' = db /\ Extended(k, up[r], "method", read)
  <2>1. "step" \notin DOMAIN read /\ "step" \in DOMAIN up[r]
    BY <1>2 DEF KnowsCart
  <2> HIDE DEF read
  <2> QED
    BY <1>5, <2>1, GoesOn
<1>7. /\ DOMAIN up[r] \subseteq DOMAIN k /\ k.step = "method" /\ "subtotal" \in DOMAIN k
      /\ k.cart = up[r].cart /\ k.seen = up[r].seen /\ k.on = up[r].on
      /\ k.city = up[r].city /\ k.minOrder = up[r].minOrder
      /\ k.place = up[r].place /\ k.clean = up[r].clean /\ k.fee = up[r].fee
      /\ k.subtotal = subtotal
  BY <1>2, <1>6 DEF KnowsCart, KnowsRestaurant, KnowsAddress, KnowsZone, Extended
<1>8. KnowsCart(k, db.offer) /\ KnowsRestaurant(k) /\ KnowsAddress(k) /\ KnowsZone(k)
  BY <1>2, <1>7 DEF KnowsCart, KnowsRestaurant, KnowsAddress, KnowsZone
<1>9. KnowsItems(k)
  <2>1. SawItems(k.seen, k.cart.lines, k.subtotal)
    BY <1>4, <1>7, <1>8 DEF KnowsCart, SawItems
  <2> QED
    BY <1>1, <1>3, <1>7, <2>1 DEF KnowsItems
<1>10. DraftJob(k, db.offer)
  BY <1>7, <1>8, <1>9 DEF DraftJob, AfterMethod, AfterAccepted
<1> QED
  BY <1>6, <1>10, OneDraftStep

\* The method was on.
LEMMA MethodRead ==
  ASSUME DraftInv, NEW r \in Requests, ReadMethod(r)
  PROVE  DraftInv'
<1>1. /\ up[r].step = "method" /\ DraftJob(up[r], db.offer)
      /\ MethodActive(db.offer, up[r].cart.method)
      /\ up[r].minOrder # Null => up[r].minOrder <= up[r].subtotal
  BY DEF ReadMethod, Step, DraftInv
<1>2. /\ KnowsCart(up[r], db.offer) /\ KnowsRestaurant(up[r]) /\ KnowsAddress(up[r])
      /\ KnowsZone(up[r]) /\ KnowsItems(up[r])
  BY <1>1 DEF DraftJob, AfterRestaurant, AfterAddress, AfterZone, AfterItems
<1>3. PICK k : up' = [up EXCEPT ![r] = k] /\ db' = db /\ Extended(k, up[r], "accepted", <<>>)
  <2>1. GoOn(r, "accepted", <<>>) /\ "step" \notin DOMAIN <<>> /\ "step" \in DOMAIN up[r]
    BY <1>2 DEF ReadMethod, KnowsCart
  <2> QED
    BY <2>1, GoesOn
<1>4. DOMAIN <<>> = {}
  OBVIOUS
<1>5. /\ DOMAIN up[r] \subseteq DOMAIN k /\ k.step = "accepted"
      /\ k.cart = up[r].cart /\ k.seen = up[r].seen /\ k.on = up[r].on
      /\ k.city = up[r].city /\ k.minOrder = up[r].minOrder
      /\ k.place = up[r].place /\ k.clean = up[r].clean /\ k.fee = up[r].fee
      /\ k.subtotal = up[r].subtotal
  BY <1>2, <1>3, <1>4 DEF KnowsCart, KnowsRestaurant, KnowsAddress, KnowsZone, KnowsItems, Extended
<1>6. /\ KnowsCart(k, db.offer) /\ KnowsRestaurant(k) /\ KnowsAddress(k) /\ KnowsZone(k)
      /\ KnowsItems(k)
  BY <1>2, <1>5 DEF KnowsCart, KnowsRestaurant, KnowsAddress, KnowsZone, KnowsItems
<1>7. KnowsMethod(k)
  BY <1>1, <1>5, <1>6 DEF KnowsCart, KnowsMethod, SawMethod
<1>8. DraftJob(k, db.offer)
  BY <1>5, <1>6, <1>7 DEF DraftJob, AfterAccepted
<1> QED
  BY <1>3, <1>8, OneDraftStep

\* The restaurant took the method, and the amounts are what the rest comes to.
LEMMA AcceptedRead ==
  ASSUME DraftInv, NEW r \in Requests, ReadAccepted(r)
  PROVE  DraftInv'
<1> DEFINE discount == computeDiscount(up[r].cart.coupon, up[r].subtotal)
           total == Cent * (up[r].subtotal + up[r].fee) - discount
           read == [discount |-> discount, total |-> total]
<1>1. /\ up[r].step = "accepted" /\ DraftJob(up[r], db.offer)
      /\ MethodAccepted(db.offer, up[r].cart.method) /\ GoOn(r, "place", read)
  BY DEF ReadAccepted, Step, DraftInv
<1>2. /\ KnowsCart(up[r], db.offer) /\ KnowsRestaurant(up[r]) /\ KnowsAddress(up[r])
      /\ KnowsZone(up[r]) /\ KnowsItems(up[r]) /\ KnowsMethod(up[r])
  BY <1>1 DEF DraftJob, AfterRestaurant, AfterAddress, AfterZone, AfterItems, AfterMethod
<1> HIDE DEF discount
<1>3. PICK k : up' = [up EXCEPT ![r] = k] /\ db' = db /\ Extended(k, up[r], "place", read)
  <2>1. "step" \notin DOMAIN read /\ "step" \in DOMAIN up[r]
    BY <1>2 DEF KnowsCart
  <2> HIDE DEF read
  <2> QED
    BY <1>1, <2>1, GoesOn
<1> HIDE DEF total
<1>4. /\ DOMAIN up[r] \subseteq DOMAIN k /\ k.step = "place" /\ {"discount", "total"} \subseteq DOMAIN k
      /\ k.cart = up[r].cart /\ k.seen = up[r].seen /\ k.on = up[r].on
      /\ k.city = up[r].city /\ k.minOrder = up[r].minOrder
      /\ k.place = up[r].place /\ k.clean = up[r].clean /\ k.fee = up[r].fee
      /\ k.subtotal = up[r].subtotal /\ k.discount = discount /\ k.total = total
  BY <1>2, <1>3 DEF KnowsCart, KnowsRestaurant, KnowsAddress, KnowsZone, KnowsItems, Extended
<1>5. /\ KnowsCart(k, db.offer) /\ KnowsRestaurant(k) /\ KnowsAddress(k) /\ KnowsZone(k)
      /\ KnowsItems(k) /\ KnowsMethod(k)
  BY <1>2, <1>4 DEF KnowsCart, KnowsRestaurant, KnowsAddress, KnowsZone, KnowsItems, KnowsMethod
<1>6. KnowsTotal(k)
  <2>1. SawAccepted(k.seen, k.cart.method)
    BY <1>1, <1>4, <1>5 DEF KnowsCart, SawAccepted
  <2> QED
    BY <1>4, <2>1 DEF KnowsTotal, discount, total
<1>7. DraftJob(k, db.offer)
  BY <1>4, <1>5, <1>6 DEF DraftJob
<1> QED
  BY <1>3, <1>7, OneDraftStep

\* The order is what the draft knew.
LEMMA OrderPlaced ==
  ASSUME DraftInv, NEW r \in Requests, PlaceOrder(r)
  PROVE  DraftInv'
<1> DEFINE job == up[r]
           o == [cart |-> job.cart, place |-> job.place, clean |-> job.clean, seen |-> job.seen,
                 fee |-> job.fee, subtotal |-> job.subtotal, exact |-> job.discount,
                 discount |-> Stored(job.discount), total |-> Stored(job.total)]
<1>1. /\ job.step = "place" /\ DraftJob(job, db.offer)
      /\ up' = [up EXCEPT ![r] = Idle] /\ db' = [db EXCEPT !.order = o]
  BY DEF PlaceOrder, Step, DraftInv, Commit, CommitAnd, CommitStep
<1>2. /\ KnowsCart(job, db.offer) /\ KnowsRestaurant(job) /\ KnowsAddress(job)
      /\ KnowsZone(job) /\ KnowsItems(job) /\ KnowsMethod(job) /\ KnowsTotal(job)
  BY <1>1 DEF DraftJob, AfterRestaurant, AfterAddress, AfterZone, AfterItems, AfterMethod, AfterAccepted
<1>3. /\ o.cart = job.cart /\ o.place = job.place /\ o.clean = job.clean /\ o.seen = job.seen
      /\ o.fee = job.fee /\ o.subtotal = job.subtotal /\ o.exact = job.discount
      /\ o.discount = Stored(job.discount) /\ o.total = Stored(job.total)
  OBVIOUS
<1> HIDE DEF o, job
<1>4. \E s \in o.seen : /\ s.active /\ s.city \in {Null, o.place.city}
                        /\ s.minOrder # Null => o.subtotal >= s.minOrder
  <2>1. PICK s \in job.seen : s.active /\ s.city = job.city /\ s.minOrder = job.minOrder
    BY <1>2 DEF KnowsRestaurant, SawRestaurant
  <2>2. OfferOK(s)
    BY <1>2 DEF KnowsCart
  <2>3. s.minOrder \in Nat \union {Null}
    BY <2>2 DEF OfferOK, IsOffer
  <2>4. s.minOrder # Null => o.subtotal >= s.minOrder
    BY <1>2, <1>3, <2>1, <2>3 DEF KnowsItems, KnowsMethod
  <2> QED
    BY <1>2, <1>3, <2>1, <2>4 DEF KnowsAddress
<1>5. OrderOK(o)
  BY <1>2, <1>3, <1>4 DEF OrderOK, KnowsCart, KnowsAddress, KnowsZone, KnowsItems, KnowsMethod, KnowsTotal
<1>6. Idle.op # "draft"
  BY DEF Idle
<1>7. DOMAIN db' = DOMAIN db /\ db'.offer = db.offer /\ db'.order = o
  BY <1>1 DEF DraftInv, DraftFields
<1> QED
  BY <1>1, <1>5, <1>6, <1>7, OneDraftStep

\* A draft stays one until it ends, and changes nothing but the order.
LEMMA DraftAlone ==
  ASSUME DraftInv, NEW r \in Requests, DraftStep(r)
  PROVE  Alone(r, {"order"}, {"draft", "idle"}) /\ blurred' = blurred /\ up'[r].on = Null
<1>1. ASSUME NEW cart, StartDraft(r, cart) PROVE Alone(r, {"order"}, {"draft", "idle"}) /\ blurred' = blurred /\ up'[r].on = Null
  <2> DEFINE j == [op |-> "draft", on |-> Null, step |-> "restaurant", cart |-> cart, seen |-> {db.offer}]
  <2>1. Arrive(r, j) /\ blurred' = blurred /\ up'[r] = j
    BY <1>1 DEF StartDraft, Arrive, DraftInv
  <2>2. j.op \in {"draft", "idle"} /\ j.on = Null
    OBVIOUS
  <2> HIDE DEF j
  <2> QED
    BY <2>1, <2>2, QuietAlone
<1>2. ASSUME NEW name, NEW read, GoOn(r, name, read), {"op", "on"} \intersect DOMAIN read = {}, up[r].op = "draft"
      PROVE  Alone(r, {"order"}, {"draft", "idle"}) /\ blurred' = blurred /\ up'[r].on = Null
  <2> DEFINE j == Joined(read, [up[r] EXCEPT !.step = name])
  <2>1. Proceed(r, j) /\ blurred' = blurred /\ up'[r] = j
    BY <1>2 DEF GoOn, Proceed, DraftInv
  <2>2. KnowsCart(up[r], db.offer)
    BY <1>2 DEF DraftInv, DraftJob
  <2>3. j.op \in {"draft", "idle"} /\ j.on = Null
    BY <1>2, <2>2 DEF KnowsCart, Joined
  <2> HIDE DEF j
  <2> QED
    BY <2>1, <2>3, QuietAlone
<1>3. CASE ReadRestaurant(r)
  <2> DEFINE read == [city |-> db.offer.city, minOrder |-> db.offer.minOrder]
  <2>1. GoOn(r, "address", read) /\ {"op", "on"} \intersect DOMAIN read = {} /\ up[r].op = "draft"
    BY <1>3 DEF ReadRestaurant, Step
  <2> HIDE DEF read
  <2> QED
    BY <1>2, <2>1
<1>4. CASE ReadAddress(r)
  <2> DEFINE read == [place |-> db.addresses[up[r].cart.address], clean |-> up[r].cart.address \notin blurred]
  <2>1. GoOn(r, "zone", read) /\ {"op", "on"} \intersect DOMAIN read = {} /\ up[r].op = "draft"
    BY <1>4 DEF ReadAddress, Step
  <2> HIDE DEF read
  <2> QED
    BY <1>2, <2>1
<1>5. CASE ReadZone(r)
  <2> DEFINE read == [fee |-> db.offer.zones[up[r].place.nb].fee]
  <2>1. GoOn(r, "items", read) /\ {"op", "on"} \intersect DOMAIN read = {} /\ up[r].op = "draft"
    BY <1>5 DEF ReadZone, Step
  <2> HIDE DEF read
  <2> QED
    BY <1>2, <2>1
<1>6. CASE ReadItems(r)
  <2> DEFINE read == [subtotal |-> Subtotal(up[r].cart.lines, db.offer.items)]
  <2>1. GoOn(r, "method", read) /\ {"op", "on"} \intersect DOMAIN read = {} /\ up[r].op = "draft"
    BY <1>6 DEF ReadItems, Step
  <2> HIDE DEF read
  <2> QED
    BY <1>2, <2>1
<1>7. CASE ReadMethod(r)
  <2>1. GoOn(r, "accepted", <<>>) /\ {"op", "on"} \intersect DOMAIN <<>> = {} /\ up[r].op = "draft"
    BY <1>7 DEF ReadMethod, Step
  <2> QED
    BY <1>2, <2>1
<1>8. CASE ReadAccepted(r)
  <2> DEFINE discount == computeDiscount(up[r].cart.coupon, up[r].subtotal)
             read == [discount |-> discount, total |-> Cent * (up[r].subtotal + up[r].fee) - discount]
  <2>1. GoOn(r, "place", read) /\ {"op", "on"} \intersect DOMAIN read = {} /\ up[r].op = "draft"
    BY <1>8 DEF ReadAccepted, Step
  <2> HIDE DEF read
  <2> QED
    BY <1>2, <2>1
<1>9. CASE PlaceOrder(r)
  <2> DEFINE job == up[r]
             o == [cart |-> job.cart, place |-> job.place, clean |-> job.clean, seen |-> job.seen,
                   fee |-> job.fee, subtotal |-> job.subtotal, exact |-> job.discount,
                   discount |-> Stored(job.discount), total |-> Stored(job.total)]
             tables == [db EXCEPT !.order = o]
  <2>1. CommitStep(r, tables, Idle, TRUE) /\ up[r].op = "draft"
    BY <1>9 DEF PlaceOrder, Step, Commit, CommitAnd
  <2>2. up[r].on = Null
    BY <2>1 DEF DraftInv, DraftJob, KnowsCart
  <2>3. blurred' = blurred /\ up'[r] = Idle
    BY <2>1, <2>2 DEF CommitStep, DraftInv
  <2> HIDE DEF o
  <2>4. DOMAIN tables = DOMAIN db /\ \A t \in DOMAIN db \ {"order"} : tables[t] = db[t]
    OBVIOUS
  <2>5. Idle.op \in {"draft", "idle"} /\ Idle.on = Null
    BY DEF Idle
  <2> HIDE DEF tables, job
  <2>6. Idle.op \in {"draft", "idle"} /\ CommitStep(r, tables, Idle, TRUE)
    BY <2>1, <2>5
  <2>7. Alone(r, {"order"}, {"draft", "idle"})
    BY <2>4, <2>6, CommitAlone
  <2> QED
    BY <2>3, <2>5, <2>7
<1> QED
  BY <1>1, <1>3, <1>4, <1>5, <1>6, <1>7, <1>8, <1>9 DEF DraftStep

\* Requests that are no drafts leave drafts, offer and order alone.
LEMMA OthersKeepDrafts ==
  ASSUME DraftInv, NEW r \in Requests, NEW fields, NEW ops, Alone(r, fields, ops),
         DraftFields \intersect fields = {}, "draft" \notin ops
  PROVE  DraftInv'
<1>1. DOMAIN db' = DOMAIN db /\ db'.offer = db.offer /\ db'.order = db.order
  BY DEF Alone, DraftInv, DraftFields
<1>2. PICK k : up' = [up EXCEPT ![r] = k] /\ k.op \in ops
  BY DEF Alone
<1> QED
  BY <1>1, <1>2, OneDraftStep

\* A request of a draft keeps what all of them know.
LEMMA DraftStepKeeps ==
  ASSUME AddressInv, DraftInv, NEW r \in Requests, DraftStep(r)
  PROVE  DraftInv'
BY DraftBegins, RestaurantRead, AddressRead, ZoneRead, ItemsRead, MethodRead, AcceptedRead, OrderPlaced
   DEF DraftStep

-----------------------------------------------------------------------------
(* Edits of the offer.                                                     *)

\* An item that is edited is still one of the menu, with options that were validated.
LEMMA ItemEdited ==
  ASSUME OfferOK(db.offer), NEW i \in DOMAIN db.offer.items, NEW item, IsItem(item),
         NEW offer, offer = [db.offer EXCEPT !.items[i] = item]
  PROVE  OfferOK(offer)
<1> DEFINE items == [db.offer.items EXCEPT ![i] = item]
<1>1. offer = [db.offer EXCEPT !.items = items]
  OBVIOUS
<1>2. DOMAIN items = DOMAIN db.offer.items /\ \A k \in DOMAIN items : items[k] = Null \/ IsItem(items[k])
  BY DEF OfferOK, IsOffer
<1> HIDE DEF items
<1>3. IsOffer(offer) /\ offer.items = items
  BY <1>1, <1>2 DEF OfferOK, IsOffer
<1> QED
  BY <1>2, <1>3 DEF OfferOK

\* An edit of one item leaves an offer to which carts can be compared.
LEMMA ItemsEdited ==
  ASSUME OfferOK(db.offer), NEW i \in DOMAIN db.offer.items, db.offer.items[i] # Null
  PROVE  /\ \A active \in BOOLEAN : OfferOK([db.offer EXCEPT !.items[i].available = active])
         /\ \A price \in Prices : OfferOK([db.offer EXCEPT !.items[i].price = price])
         /\ \A groups \in Settings :
              validateOptions(groups) => OfferOK([db.offer EXCEPT !.items[i].groups = groups])
<1> DEFINE item == db.offer.items[i]
<1>1. IsItem(item)
  BY DEF OfferOK, IsOffer
<1>2. ASSUME NEW active \in BOOLEAN PROVE OfferOK([db.offer EXCEPT !.items[i].available = active])
  <2> DEFINE new == [item EXCEPT !.available = active]
  <2>1. IsItem(new)
    BY <1>1 DEF IsItem
  <2>2. [db.offer EXCEPT !.items[i].available = active] = [db.offer EXCEPT !.items[i] = new]
    OBVIOUS
  <2> HIDE DEF new
  <2> QED
    BY <2>1, <2>2, ItemEdited
<1>3. ASSUME NEW price \in Prices PROVE OfferOK([db.offer EXCEPT !.items[i].price = price])
  <2> DEFINE new == [item EXCEPT !.price = price]
  <2>1. IsItem(new)
    BY <1>1, OrderDraftAssumption DEF IsItem
  <2>2. [db.offer EXCEPT !.items[i].price = price] = [db.offer EXCEPT !.items[i] = new]
    OBVIOUS
  <2> HIDE DEF new
  <2> QED
    BY <2>1, <2>2, ItemEdited
<1>4. ASSUME NEW groups \in Settings, validateOptions(groups)
      PROVE  OfferOK([db.offer EXCEPT !.items[i].groups = groups])
  <2> DEFINE new == [item EXCEPT !.groups = groups]
  <2>1. IsItem(new)
    BY <1>1, <1>4, OrderDraftAssumption DEF IsItem
  <2>2. [db.offer EXCEPT !.items[i].groups = groups] = [db.offer EXCEPT !.items[i] = new]
    OBVIOUS
  <2> HIDE DEF new
  <2> QED
    BY <2>1, <2>2, ItemEdited
<1> QED
  BY <1>2, <1>3, <1>4

\* So is a zone.
LEMMA ZoneEdited ==
  ASSUME OfferOK(db.offer), NEW nb \in Neighborhoods, db.offer.zones[nb] # Null
  PROVE  /\ \A active \in BOOLEAN : OfferOK([db.offer EXCEPT !.zones[nb].active = active])
         /\ \A fee \in Fees : OfferOK([db.offer EXCEPT !.zones[nb].fee = fee])
<1> DEFINE Zone == [active : BOOLEAN, fee : Nat]
<1>1. db.offer.zones \in [Neighborhoods -> Zone \union {Null}] /\ db.offer.zones[nb] \in Zone
  BY DEF OfferOK, IsOffer
<1>3. ASSUME NEW zone \in Zone PROVE OfferOK([db.offer EXCEPT !.zones[nb] = zone])
  <2> DEFINE zones == [db.offer.zones EXCEPT ![nb] = zone]
             offer == [db.offer EXCEPT !.zones = zones]
  <2>1. zones \in [Neighborhoods -> Zone \union {Null}]
    BY <1>1
  <2>2. offer = [db.offer EXCEPT !.zones[nb] = zone]
    OBVIOUS
  <2> HIDE DEF zones
  <2>3. IsOffer(offer) /\ offer.items = db.offer.items
    BY <2>1 DEF OfferOK, IsOffer
  <2> HIDE DEF offer
  <2>4. OfferOK(offer)
    BY <2>3 DEF OfferOK
  <2> QED
    BY <2>2, <2>4
<1>4. ASSUME NEW active \in BOOLEAN PROVE OfferOK([db.offer EXCEPT !.zones[nb].active = active])
  <2> DEFINE zone == [db.offer.zones[nb] EXCEPT !.active = active]
  <2>1. zone \in Zone
    BY <1>1
  <2>2. [db.offer EXCEPT !.zones[nb].active = active] = [db.offer EXCEPT !.zones[nb] = zone]
    OBVIOUS
  <2> QED
    BY <1>3, <2>1, <2>2
<1>5. ASSUME NEW fee \in Fees PROVE OfferOK([db.offer EXCEPT !.zones[nb].fee = fee])
  <2> DEFINE zone == [db.offer.zones[nb] EXCEPT !.fee = fee]
  <2>1. zone \in Zone
    BY <1>1, OrderDraftAssumption
  <2>2. [db.offer EXCEPT !.zones[nb].fee = fee] = [db.offer EXCEPT !.zones[nb] = zone]
    OBVIOUS
  <2> QED
    BY <1>3, <2>1, <2>2
<1> QED
  BY <1>4, <1>5

\* So are the restaurant and its methods.
LEMMA MethodEdited ==
  ASSUME OfferOK(db.offer), NEW active \in BOOLEAN, NEW method \in DOMAIN db.offer.methods
  PROVE  OfferOK([db.offer EXCEPT !.methods[method] = active])
<1> DEFINE on == [db.offer.methods EXCEPT ![method] = active]
           o == [db.offer EXCEPT !.methods = on]
<1>1. on \in [DOMAIN on -> BOOLEAN]
  BY DEF OfferOK, IsOffer
<1>2. o = [db.offer EXCEPT !.methods[method] = active]
  OBVIOUS
<1> HIDE DEF on
<1>3. IsOffer(o) /\ o.items = db.offer.items
  BY <1>1 DEF OfferOK, IsOffer
<1> HIDE DEF o
<1>4. OfferOK(o)
  BY <1>3 DEF OfferOK
<1> QED
  BY <1>2, <1>4

\* So does a new choice of accepted methods.
LEMMA AcceptedEdited ==
  ASSUME OfferOK(db.offer), NEW methods
  PROVE  OfferOK([db.offer EXCEPT !.accepted = methods])
<1> DEFINE o == [db.offer EXCEPT !.accepted = methods]
<1>1. IsOffer(o) /\ o.items = db.offer.items
  BY DEF OfferOK, IsOffer
<1> HIDE DEF o
<1>2. OfferOK(o)
  BY <1>1 DEF OfferOK
<1> QED
  BY <1>2 DEF o

\* So does opening or closing the restaurant.
LEMMA StatusEdited ==
  ASSUME OfferOK(db.offer), NEW active \in BOOLEAN
  PROVE  OfferOK([db.offer EXCEPT !.active = active])
<1> DEFINE o == [db.offer EXCEPT !.active = active]
<1>1. IsOffer(o) /\ o.items = db.offer.items
  BY DEF OfferOK, IsOffer
<1> HIDE DEF o
<1>2. OfferOK(o)
  BY <1>1 DEF OfferOK
<1> QED
  BY <1>2 DEF o

\* Whatever is edited, what is on offer makes sense.
LEMMA EditsMakeSense ==
  ASSUME OfferOK(db.offer), OfferChange
  PROVE  \E offer : Edit(offer) /\ OfferOK(offer)
<1> DEFINE Goal == \E offer : Edit(offer) /\ OfferOK(offer)
<1>1. ASSUME NEW active \in BOOLEAN, SetRestaurantStatus(active) PROVE Goal
  BY <1>1, StatusEdited DEF SetRestaurantStatus
<1>2. ASSUME NEW active \in BOOLEAN, NEW nb \in Neighborhoods, SetZoneStatus(nb, active) PROVE Goal
  BY <1>2, ZoneEdited DEF SetZoneStatus
<1>3. ASSUME NEW active \in BOOLEAN, NEW i \in DOMAIN db.offer.items, SetItemStatus(i, active) PROVE Goal
  BY <1>3, ItemsEdited DEF SetItemStatus
<1>4. ASSUME NEW active \in BOOLEAN, NEW method \in DOMAIN db.offer.methods, SetMethodOnOff(method, active)
      PROVE  Goal
  BY <1>4, MethodEdited DEF SetMethodOnOff
<1>5. ASSUME NEW i \in DOMAIN db.offer.items, NEW price \in Prices, SetPrice(i, price) PROVE Goal
  BY <1>5, ItemsEdited DEF SetPrice
<1>6. ASSUME NEW i \in DOMAIN db.offer.items, NEW groups \in Settings, SaveOptions(i, groups) PROVE Goal
  BY <1>6, ItemsEdited DEF SaveOptions
<1>7. ASSUME NEW nb \in Neighborhoods, NEW fee \in Fees, SetFee(nb, fee) PROVE Goal
  BY <1>7, ZoneEdited DEF SetFee
<1>8. ASSUME NEW methods \in SUBSET DOMAIN db.offer.methods, SetAccepted(methods) PROVE Goal
  BY <1>8, AcceptedEdited DEF SetAccepted
<1> QED
  BY <1>1, <1>2, <1>3, <1>4, <1>5, <1>6, <1>7, <1>8 DEF OfferChange

\* A draft that has seen one more offer knows what it knew.
LEMMA SeenGrows ==
  ASSUME NEW j, NEW old, DraftJob(j, old), NEW offer, OfferOK(offer),
         NEW k, k = [j EXCEPT !.seen = @ \union {offer}]
  PROVE  DraftJob(k, offer) /\ k.op = j.op /\ k.on = j.on
<1>1. KnowsCart(j, old)
  BY DEF DraftJob
<1>2. /\ DOMAIN k = DOMAIN j /\ k.seen = j.seen \union {offer}
      /\ \A f \in DOMAIN j \ {"seen"} : k[f] = j[f]
  BY <1>1 DEF KnowsCart
<1>3. k.cart = j.cart /\ k.step = j.step /\ k.op = j.op /\ k.on = j.on
  BY <1>1, <1>2 DEF KnowsCart
<1>4. KnowsCart(k, offer)
  BY <1>1, <1>2, <1>3 DEF KnowsCart
<1>5. KnowsRestaurant(j) => KnowsRestaurant(k) /\ k.city = j.city /\ k.minOrder = j.minOrder
  BY <1>2 DEF KnowsRestaurant, SawRestaurant
<1>6. KnowsAddress(j) => k.place = j.place /\ k.clean = j.clean
  BY <1>2 DEF KnowsAddress
<1>7. KnowsRestaurant(j) /\ KnowsAddress(j) => KnowsAddress(k)
  BY <1>2, <1>5, <1>6 DEF KnowsAddress
<1>8. KnowsAddress(j) /\ KnowsZone(j) => KnowsZone(k) /\ k.fee = j.fee
  BY <1>2, <1>6 DEF KnowsZone, SawZone
<1>9. KnowsRestaurant(j) /\ KnowsItems(j) => KnowsItems(k) /\ k.subtotal = j.subtotal
  BY <1>2, <1>3, <1>5 DEF KnowsItems, SawItems
<1>10. KnowsMethod(j) => KnowsMethod(k)
  BY <1>2, <1>3 DEF KnowsMethod, SawMethod
<1>11. KnowsRestaurant(j) /\ KnowsAddress(j) /\ KnowsZone(j) /\ KnowsItems(j) /\ KnowsTotal(j) => KnowsTotal(k)
  BY <1>2, <1>3, <1>8, <1>9 DEF KnowsTotal, SawAccepted
<1>12. /\ j.step \in AfterRestaurant => KnowsRestaurant(j)
       /\ j.step \in AfterAddress => KnowsRestaurant(j) /\ KnowsAddress(j)
       /\ j.step \in AfterZone => KnowsAddress(j) /\ KnowsZone(j)
       /\ j.step \in AfterItems => KnowsRestaurant(j) /\ KnowsItems(j)
       /\ j.step \in AfterMethod => KnowsMethod(j)
       /\ j.step \in AfterAccepted =>
            KnowsRestaurant(j) /\ KnowsAddress(j) /\ KnowsZone(j) /\ KnowsItems(j) /\ KnowsTotal(j)
  BY DEF DraftJob, AfterRestaurant, AfterAddress, AfterZone, AfterItems, AfterMethod, AfterAccepted
<1>13. DraftJob(k, offer)
  BY <1>3, <1>4, <1>5, <1>7, <1>8, <1>9, <1>10, <1>11, <1>12 DEF DraftJob
<1> QED
  BY <1>3, <1>13

\* An edit changes the offer, and the drafts that are under way have seen it.
LEMMA OfferChanges ==
  ASSUME DraftInv, OfferChange
  PROVE  /\ DraftInv'
         /\ DOMAIN db' = DOMAIN db /\ \A t \in DOMAIN db \ DraftFields : db'[t] = db[t]
         /\ DOMAIN up' = Requests
         /\ \A r \in Requests : up'[r] = up[r] \/ (up'[r].op = "draft" /\ up'[r].on = Null)
         /\ overlapped' = overlapped /\ blurred' = blurred
<1>1. PICK offer : Edit(offer) /\ OfferOK(offer)
  BY EditsMakeSense DEF DraftInv
<1>2. /\ db' = [db EXCEPT !.offer = offer, !.edits = @ + 1]
      /\ up' = [r \in Requests |-> IF up[r].op = "draft" THEN [up[r] EXCEPT !.seen = @ \union {offer}]
                                   ELSE up[r]]
      /\ overlapped' = overlapped /\ blurred' = blurred
  BY <1>1 DEF Edit
<1>3. /\ DOMAIN db' = DOMAIN db /\ \A t \in DOMAIN db \ DraftFields : db'[t] = db[t]
      /\ db'.offer = offer /\ db'.order = db.order
  BY <1>2 DEF DraftInv, DraftFields
<1>4. DOMAIN up' = Requests
  BY <1>2
<1>5. ASSUME NEW r \in Requests
      PROVE  \/ up'[r] = up[r] /\ up[r].op # "draft"
             \/ up'[r].op = "draft" /\ up'[r].on = Null /\ DraftJob(up'[r], offer)
  <2>1. CASE up[r].op = "draft"
    <3>1. DraftJob(up[r], db.offer) /\ up'[r] = [up[r] EXCEPT !.seen = @ \union {offer}]
      BY <1>2, <2>1 DEF DraftInv
    <3>2. DraftJob(up'[r], offer) /\ up'[r].op = up[r].op /\ up'[r].on = up[r].on
      BY <1>1, <3>1, SeenGrows
    <3> QED
      BY <2>1, <3>1, <3>2 DEF DraftJob, KnowsCart
  <2>2. CASE up[r].op # "draft"
    BY <1>2, <2>2
  <2> QED
    BY <2>1, <2>2
<1>6. (\A r \in Requests : up[r].op = "draft" => DraftJob(up[r], db.offer))'
  <2>1. \A r \in Requests : up'[r].op = "draft" => DraftJob(up'[r], db'.offer)
    BY <1>3, <1>5
  <2> QED
    BY <2>1 DEF DraftJob, KnowsCart, KnowsRestaurant, KnowsAddress, KnowsZone, KnowsItems,
                KnowsMethod, KnowsTotal
<1>7. (db.order # Null => OrderOK(db.order))'
  BY <1>3 DEF DraftInv
<1>8. DraftInv'
  BY <1>1, <1>3, <1>4, <1>6, <1>7 DEF DraftInv
<1> QED
  BY <1>2, <1>3, <1>4, <1>5, <1>8

-----------------------------------------------------------------------------
(* All of it together.                                                     *)

Inv == AddressInv /\ DraftInv /\ BillingInv

\* The tables of addresses, drafts and bills have nothing in common.
LEMMA FieldsApart ==
  /\ Fields \intersect DraftFields = {} /\ Fields \intersect BillFields = {}
  /\ DraftFields \intersect BillFields = {}
BY DEF Fields, DraftFields, BillFields

\* A request that has nothing to do with addresses keeps what is said of them.
LEMMA StrangersKeepAddresses ==
  ASSUME AddressInv, NEW r \in Requests, NEW fields, NEW ops, Alone(r, fields, ops),
         Fields \intersect fields = {}, Foreign(up'[r]),
         \A t \in AddressIds \union {"addresses"} : t \in blurred' <=> t \in blurred
  PROVE  AddressInv'
<1>1. Fields \subseteq DOMAIN db /\ DOMAIN up = Requests
  BY DEF AddressInv, PlaceInv, TablesOK, JobsOK
<1>2. Fields \subseteq DOMAIN db' /\ \A t \in Fields : db'[t] = db[t]
  BY <1>1 DEF Alone
<1>3. DOMAIN up' = Requests
      /\ \A s \in Requests : (up'[s] = up[s] /\ (s \in overlapped => s \in overlapped')) \/ Foreign(up'[s])
  BY <1>1 DEF Alone
<1> QED
  BY <1>2, <1>3, ForeignStepKeeps

\* What there is at first is as it should be.
LEMMA AllStarts == Init => Inv
BY AddressesStart, DraftStart, BillingStart, SumsStart DEF Inv, BillingInv

\* Every step of a request, of the offer and of the bills keeps it so.
LEMMA AllStepsKeep ==
  ASSUME Inv, [Next]_dbVars
  PROVE  Inv' /\ Advances
<1>1. AddressInv /\ DraftInv /\ NewerInv /\ SumsInv
  BY DEF Inv, BillingInv
<1>2. DOMAIN up = Requests
  BY <1>1 DEF DraftInv
<1>3. ASSUME NEW r \in Requests, AddressStep(r) PROVE Inv' /\ Advances
  <2>1. Alone(r, Fields, AddressOps \union {"idle"})
    BY <1>1, <1>3, AddressesAlone
  <2>2. {"save", "draft"} \intersect (AddressOps \union {"idle"}) = {}
    BY DEF AddressOps, ListOps
  <2>3. AddressInv'
    BY <1>1, <1>3, AddressStepKeeps
  <2>4. DraftInv'
    BY <1>1, <2>1, <2>2, FieldsApart, OthersKeepDrafts
  <2>5. NewerInv' /\ Advances
    BY <1>1, <2>1, <2>2, FieldsApart, OthersKeepCycle
  <2>6. SumsInv'
    BY <1>1, <2>1, <2>2, FieldsApart, OthersKeepSums
  <2> QED
    BY <2>3, <2>4, <2>5, <2>6 DEF Inv, BillingInv
<1>4. ASSUME NEW r \in Requests, Fail(r) PROVE Inv' /\ Advances
  <2>1. Alone(r, {}, {"idle"})
    BY <1>4, FailIsAlone
  <2>2. AddressInv'
    BY <1>1, <1>4, AddressStepKeeps
  <2>3. DraftInv'
    BY <1>1, <2>1, OthersKeepDrafts
  <2>4. NewerInv' /\ Advances
    BY <1>1, <2>1, OthersKeepCycle
  <2>5. SumsInv'
    BY <1>1, <2>1, OthersKeepSums
  <2> QED
    BY <2>2, <2>3, <2>4, <2>5 DEF Inv, BillingInv
<1>5. ASSUME NEW r \in Requests, DraftStep(r) PROVE Inv' /\ Advances
  <2>1. Alone(r, {"order"}, {"draft", "idle"}) /\ blurred' = blurred /\ up'[r].on = Null
    BY <1>1, <1>5, DraftAlone
  <2>2. /\ Fields \intersect {"order"} = {} /\ BillFields \intersect {"order"} = {}
        /\ "save" \notin {"draft", "idle"}
    BY DEF Fields, BillFields
  <2>3. up'[r].op \in {"draft", "idle"}
    BY <1>2, <2>1 DEF Alone
  <2>4. Foreign(up'[r])
    BY <2>1, <2>3, AddressesAssumption DEF Foreign, AddressOps, ListOps
  <2>5. AddressInv'
    BY <1>1, <2>1, <2>2, <2>4, StrangersKeepAddresses
  <2>6. DraftInv'
    BY <1>1, <1>5, DraftStepKeeps
  <2>7. NewerInv' /\ Advances
    BY <1>1, <2>1, <2>2, OthersKeepCycle
  <2>8. SumsInv'
    BY <1>1, <2>1, <2>2, OthersKeepSums
  <2> QED
    BY <2>5, <2>6, <2>7, <2>8 DEF Inv, BillingInv
<1>6. ASSUME NEW r \in Requests, BillingStep(r) PROVE Inv' /\ Advances
  <2>1. /\ Alone(r, {"cycle"}, {"save", "idle"})
        /\ blurred' \union {"cycle"} = blurred \union {"cycle"} /\ up'[r].on \in {"cycle", Null}
    BY <1>1, <1>6, BillingAlone
  <2>2. /\ Fields \intersect {"cycle"} = {} /\ DraftFields \intersect {"cycle"} = {}
        /\ "draft" \notin {"save", "idle"}
    BY DEF Fields, DraftFields
  <2>3. up'[r].op \in {"save", "idle"}
    BY <1>2, <2>1 DEF Alone
  <2>4. "cycle" \notin AddressIds \union {"addresses"}
    BY CheckoutAssumption
  <2>5. Foreign(up'[r])
    BY <2>1, <2>3, <2>4, AddressesAssumption DEF Foreign, AddressOps, ListOps
  <2>6. \A t \in AddressIds \union {"addresses"} : t \in blurred' <=> t \in blurred
    BY <2>1, <2>4
  <2>7. AddressInv'
    BY <1>1, <2>1, <2>2, <2>5, <2>6, StrangersKeepAddresses
  <2>8. DraftInv'
    BY <1>1, <2>1, <2>2, OthersKeepDrafts
  <2>9. NewerInv' /\ Advances
    BY <1>1, <1>6, ReportKeeps, SaveKeeps DEF BillingStep
  <2>10. SumsInv'
    BY <1>1, <1>6, ReportKeepsSums, SaveKeepsSums DEF BillingStep
  <2> QED
    BY <2>7, <2>8, <2>9, <2>10 DEF Inv, BillingInv
<1>7. CASE OfferChange
  <2>1. /\ DraftInv'
        /\ DOMAIN db' = DOMAIN db /\ \A t \in DOMAIN db \ DraftFields : db'[t] = db[t]
        /\ DOMAIN up' = Requests
        /\ \A r \in Requests : up'[r] = up[r] \/ (up'[r].op = "draft" /\ up'[r].on = Null)
        /\ overlapped' = overlapped /\ blurred' = blurred
    BY <1>1, <1>7, OfferChanges
  <2>2. /\ Fields \subseteq DOMAIN db' /\ \A t \in Fields : db'[t] = db[t]
        /\ BillFields \subseteq DOMAIN db' /\ \A t \in BillFields : db'[t] = db[t]
    BY <1>1, <2>1, FieldsApart DEF AddressInv, PlaceInv, TablesOK, SumsInv
  <2>3. \A r \in Requests : (up'[r] = up[r] /\ (r \in overlapped => r \in overlapped')) \/ Foreign(up'[r])
    BY <2>1, AddressesAssumption DEF Foreign, AddressOps, ListOps
  <2>4. AddressInv'
    BY <1>1, <2>1, <2>2, <2>3, ForeignStepKeeps
  <2>5. db'.bills = db.bills /\ db'.version = db.version /\ db'.cycle = db.cycle
    BY <2>2 DEF BillFields
  <2>6. \A r \in Requests : \/ up'[r] = up[r] /\ (r \in overlapped => r \in overlapped')
                            \/ up'[r].op # "save"
    BY <2>1
  <2>7. NewerInv' /\ Advances
    BY <1>1, <2>1, <2>2, <2>5, <2>6, NoSaveKeeps
  <2>8. SumsInv'
    BY <1>1, <2>1, <2>2, <2>5, <2>6 DEF SumsInv
  <2> QED
    BY <2>1, <2>4, <2>7, <2>8 DEF Inv, BillingInv
<1>8. CASE BillChange
  <2>1. PICK bills : BillChanged(bills)
    BY <1>8 DEF BillChange, PlaceBill, CancelBill
  <2>2. /\ DOMAIN db' = DOMAIN db /\ \A t \in DOMAIN db \ BillFields : db'[t] = db[t]
        /\ up' = up /\ overlapped' = overlapped /\ blurred' = blurred
    BY <2>1 DEF BillChanged, BillFields
  <2>3. Fields \subseteq DOMAIN db' /\ \A t \in Fields : db'[t] = db[t]
    BY <1>1, <2>2, FieldsApart DEF AddressInv, PlaceInv, TablesOK
  <2>4. AddressInv'
    BY <1>1, <1>2, <2>2, <2>3, ForeignStepKeeps
  <2>5. DraftFields \subseteq DOMAIN db' /\ db'.offer = db.offer /\ db'.order = db.order
    BY <1>1, <2>2, FieldsApart DEF DraftInv, DraftFields
  <2>6. DraftInv'
    BY <1>1, <2>2, <2>5 DEF DraftInv
  <2>7. NewerInv' /\ Advances
    BY <1>1, <2>1, ChangesKeep
  <2>8. SumsInv'
    BY <1>1, <1>8, ChangesKeepSums
  <2> QED
    BY <2>4, <2>6, <2>7, <2>8 DEF Inv, BillingInv
<1>9. CASE UNCHANGED dbVars
  <2>1. db' = db /\ up' = up /\ overlapped' = overlapped /\ blurred' = blurred
    BY <1>9 DEF dbVars
  <2>2. Fields \subseteq DOMAIN db' /\ BillFields \subseteq DOMAIN db'
    BY <1>1, <2>1 DEF AddressInv, PlaceInv, TablesOK, SumsInv
  <2>3. AddressInv'
    BY <1>1, <1>2, <2>1, <2>2, ForeignStepKeeps
  <2>4. DraftInv' /\ SumsInv'
    BY <1>1, <2>1 DEF DraftInv, SumsInv
  <2>5. NewerInv' /\ Advances
    BY <1>1, <1>2, <2>1, <2>2, NoSaveKeeps
  <2> QED
    BY <2>3, <2>4, <2>5 DEF Inv, BillingInv
<1> QED
  BY <1>3, <1>4, <1>5, <1>6, <1>7, <1>8, <1>9 DEF Next

-----------------------------------------------------------------------------
(* What the invariant says of an order.                                    *)

\* No more is taken off than the items cost.
LEMMA DiscountIsBounded ==
  ASSUME NEW cart \in Carts, NEW subtotal \in Nat
  PROVE  computeDiscount(cart.coupon, subtotal) \in 0..(Cent * subtotal)
<1> USE DEF Cent
<1> DEFINE coupon == cart.coupon
           wanted == IF coupon.percent THEN subtotal * coupon.value ELSE Cent * coupon.value
           capped == IF coupon.max # Null /\ Cent * coupon.max < wanted THEN Cent * coupon.max ELSE wanted
<1>1. CASE coupon = Null
  BY <1>1 DEF computeDiscount
<1>2. CASE coupon # Null
  <2>1. coupon \in [percent : BOOLEAN, value : Nat, max : Nat \union {Null}]
    BY <1>2, OrderDraftAssumption DEF IsCart
  <2>2. \A m, n \in Nat : m * n \in Nat
    OBVIOUS
  <2>3. wanted \in Nat
    BY <2>1, <2>2
  <2>4. coupon.max # Null => coupon.max \in Nat
    BY <2>1
  <2> HIDE DEF wanted
  <2>5. capped \in Nat
    BY <2>3, <2>4
  <2>6. computeDiscount(coupon, subtotal) = IF Cent * subtotal < capped THEN Cent * subtotal ELSE capped
    BY <1>2 DEF computeDiscount, wanted
  <2> HIDE DEF capped, coupon
  <2>7. computeDiscount(coupon, subtotal) \in 0..(Cent * subtotal)
    BY <2>5, <2>6
  <2> QED
    BY <2>7 DEF coupon
<1> QED
  BY <1>1, <1>2

\* An exact amount is its whole cents and the rest of a cent.
LEMMA WholeCents ==
  ASSUME NEW exact \in Int
  PROVE  \E cents \in Int, rest \in Nat :
           rest < Cent /\ exact = Cent * cents + rest /\ exact % Cent = rest
<1> USE DEF Cent
<1> DEFINE cents == exact \div Cent
           rest == exact % Cent
<1>1. cents \in Int /\ rest \in Nat /\ rest < Cent /\ exact = Cent * cents + rest
  OBVIOUS
<1>2. exact % Cent = rest
  OBVIOUS
<1> HIDE DEF cents, rest
<1> QED
  BY <1>1, <1>2

\* Half a cent and more is rounded up.
LEMMA RoundedUp ==
  ASSUME NEW cents \in Int, NEW rest \in Nat, rest < Cent, NEW exact \in Int, exact = Cent * cents + rest
  PROVE  Stored(exact) = IF rest >= HalfCent THEN cents + 1 ELSE cents
BY DEF Cent, HalfCent, Stored

\* What is left of whole cents is rounded up when half a cent or more is left.
LEMMA RoundedRest ==
  ASSUME NEW cents \in Int, NEW rest \in Nat, rest < Cent, NEW exact \in Int, exact = Cent * cents + rest,
         NEW whole \in Nat
  PROVE  Stored(Cent * whole - exact) = IF rest > HalfCent THEN whole - cents - 1 ELSE whole - cents
BY DEF Cent, HalfCent, Stored

\* Total and discount are rounded apart: when the discount ends in half a cent, both are
\* rounded up.
LEMMA RoundedApart ==
  ASSUME NEW subtotal \in Nat, NEW fee \in Nat, NEW exact \in 0..(Cent * subtotal)
  PROVE  /\ Stored(exact) \in 0..subtotal
         /\ Stored(Cent * (subtotal + fee) - exact) + Stored(exact) - subtotal - fee
              = IF exact % Cent = HalfCent THEN 1 ELSE 0
<1>1. exact \in Int /\ 0 <= exact /\ exact <= Cent * subtotal
  BY DEF Cent
<1>2. PICK cents \in Int, rest \in Nat :
        rest < Cent /\ exact = Cent * cents + rest /\ exact % Cent = rest
  BY <1>1, WholeCents
<1>3. 0 <= cents /\ cents <= subtotal /\ (rest > 0 => cents < subtotal)
  BY <1>1, <1>2 DEF Cent
<1>4. Stored(exact) = IF rest >= HalfCent THEN cents + 1 ELSE cents
  BY <1>1, <1>2, RoundedUp
<1> DEFINE whole == subtotal + fee
           total == Cent * whole - exact
<1>5. whole \in Nat
  OBVIOUS
<1> HIDE DEF whole
<1>6. Stored(total) = IF rest > HalfCent THEN whole - cents - 1 ELSE whole - cents
  BY <1>1, <1>2, <1>5, RoundedRest
<1> HIDE DEF total
<1>7. Stored(exact) \in 0..subtotal
  BY <1>3, <1>4 DEF HalfCent
<1>8. Stored(total) + Stored(exact) - whole = IF rest = HalfCent THEN 1 ELSE 0
  BY <1>4, <1>5, <1>6 DEF HalfCent
<1>9. Stored(total) + Stored(exact) - subtotal - fee = IF rest = HalfCent THEN 1 ELSE 0
  BY <1>4, <1>6, <1>8 DEF whole, HalfCent
<1> QED
  BY <1>2, <1>7, <1>9 DEF total, whole

\* The amounts of an order add up, whatever was in the cart.
LEMMA DraftsAddUp == DraftInv => TotalsAddUp
<1>1. SUFFICES ASSUME DraftInv, db.order # Null
               PROVE  /\ db.order.discount \in 0..db.order.subtotal
                      /\ db.order.total + db.order.discount - db.order.subtotal - db.order.fee
                           = IF db.order.exact % Cent = HalfCent THEN 1 ELSE 0
  BY DEF TotalsAddUp
<1>2. OrderOK(db.order)
  BY <1>1 DEF DraftInv
<1>3. /\ db.order.cart \in Carts /\ db.order.subtotal \in Nat /\ db.order.fee \in Nat
      /\ db.order.exact = computeDiscount(db.order.cart.coupon, db.order.subtotal)
      /\ db.order.discount = Stored(db.order.exact)
      /\ db.order.total = Stored(Cent * (db.order.subtotal + db.order.fee) - db.order.exact)
  BY <1>2 DEF OrderOK
<1>4. db.order.exact \in 0..(Cent * db.order.subtotal)
  BY <1>3, DiscountIsBounded
<1> DEFINE subtotal == db.order.subtotal
           fee == db.order.fee
           exact == db.order.exact
<1>5. subtotal \in Nat /\ fee \in Nat /\ exact \in 0..(Cent * subtotal)
  BY <1>3, <1>4
<1> HIDE DEF subtotal, fee, exact
<1>6. /\ Stored(exact) \in 0..subtotal
      /\ Stored(Cent * (subtotal + fee) - exact) + Stored(exact) - subtotal - fee
           = IF exact % Cent = HalfCent THEN 1 ELSE 0
  BY <1>5, RoundedApart
<1> QED
  BY <1>3, <1>6 DEF subtotal, fee, exact

\* The order goes to a neighborhood of the city of the restaurant.
LEMMA DraftsInTown == DraftInv => DeliveredInTown
<1>1. SUFFICES ASSUME DraftInv, db.order # Null, db.order.clean
               PROVE  \E s \in db.order.seen : s.city \in {Null, CityOf[db.order.place.nb]}
  BY DEF DeliveredInTown
<1>2. OrderOK(db.order)
  BY <1>1 DEF DraftInv
<1> QED
  BY <1>1, <1>2 DEF OrderOK

-----------------------------------------------------------------------------
(* Orders are made of what was on offer.                                   *)

\* Things are as many as there are in all of their groups together.
LEMMA CountedByGroup ==
  ASSUME NEW P, IsFiniteSet(P), NEW G, IsFiniteSet(G), \A p \in P : p.group \in G,
         NEW f, \A g \in G : f[g] = Cardinality({p \in P : p.group = g})
  PROVE  SumOf(f, G) = Cardinality(P)
<1> DEFINE Of(H) == {p \in P : p.group \in H}
           Good == {H \in SUBSET G : SumOf(f, H) = Cardinality(Of(H))}
<1>1. \A H : IsFiniteSet(Of(H)) /\ Cardinality(Of(H)) \in Nat
  BY FS_Subset, FS_CardinalityType
<1>2. \A g \in G : f[g] \in Nat
  <2>1. \A g : IsFiniteSet({p \in P : p.group = g}) /\ Cardinality({p \in P : p.group = g}) \in Nat
    BY FS_Subset, FS_CardinalityType
  <2> QED
    BY <2>1
<1>3. ASSUME NEW H \in SUBSET G, \A g \in H : H \ {g} \in Good PROVE H \in Good
  <2>1. CASE H = {}
    <3>1. Of(H) = {}
      BY <2>1
    <3> QED
      BY <2>1, <3>1, SumOfNone, FS_EmptySet
  <2>2. CASE H # {}
    <3>1. PICK g \in H : TRUE
      BY <2>2
    <3> DEFINE here == {p \in P : p.group = g}
               rest == Of(H \ {g})
    <3>2. SumOf(f, H) = f[g] + SumOf(f, H \ {g})
      <4>1. IsFiniteSet(H) /\ \A x \in H : f[x] \in Int
        BY <1>2, FS_Subset
      <4> QED
        BY <3>1, <4>1, SumTakesOut
    <3>3. f[g] = Cardinality(here) /\ SumOf(f, H \ {g}) = Cardinality(rest)
      BY <1>3, <3>1
    <3>4. Of(H) = here \cup rest /\ here \cap rest = {} /\ IsFiniteSet(here) /\ IsFiniteSet(rest)
      BY <1>1, FS_Subset
    <3> HIDE DEF Of, here, rest
    <3>5. Cardinality(here \cup rest) = Cardinality(here) + Cardinality(rest) - Cardinality(here \cap rest)
      BY <3>4, FS_Union
    <3>6. Cardinality(here \cap rest) = 0 /\ Cardinality(here) \in Nat /\ Cardinality(rest) \in Nat
      BY <3>4, FS_EmptySet, FS_CardinalityType
    <3>7. SumOf(f, H) = Cardinality(here) + Cardinality(rest)
      BY <3>2, <3>3
    <3>8. Cardinality(Of(H)) = Cardinality(here) + Cardinality(rest)
      BY <3>4, <3>5, <3>6
    <3> QED
      BY <3>7, <3>8
  <2> QED
    BY <2>1, <2>2
<1> HIDE DEF Good
<1>4. SUBSET G \subseteq Good
  BY <1>3, SubsetInduction
<1>5. G \in Good /\ Of(G) = P
  BY <1>4
<1> QED
  BY <1>5 DEF Good

\* The choices of a group that are among the picks of a line.
Picked(line, item, g) ==
  {c \in DOMAIN item.groups[g].choices : [group |-> g, choice |-> c] \in ToSet(line.picks)}

\* They are what was checked.
LEMMA PickedWasChecked ==
  ASSUME NEW line, IsLine(line), NEW item, IsItem(item), LineFits(line, item),
         NEW g \in ActiveGroups(item)
  PROVE  /\ Picked(line, item, g) = {p.choice : p \in {q \in ToSet(line.picks) : q.group = g}}
         /\ IsFiniteSet(Picked(line, item, g)) /\ Cardinality(Picked(line, item, g)) \in Nat
<1> DEFINE P == ToSet(line.picks)
           chosen == {p.choice : p \in {q \in P : q.group = g}}
           group == item.groups[g]
<1>1. g \in DOMAIN item.groups /\ IsGroup(group)
  BY DEF ActiveGroups, IsItem, AreGroups
<1>2. \A p \in P : p = [group |-> p.group, choice |-> p.choice]
  BY DEF IsLine
<1>3. chosen \subseteq DOMAIN group.choices
  BY DEF LineFits, PicksFit, ActiveChoices
<1>4. Picked(line, item, g) = chosen
  <2>1. ASSUME NEW c \in Picked(line, item, g) PROVE c \in chosen
    BY <2>1 DEF Picked
  <2>2. ASSUME NEW p \in P, p.group = g PROVE p.choice \in Picked(line, item, g)
    <3>1. [group |-> g, choice |-> p.choice] \in P
      BY <1>2, <2>2
    <3>2. p.choice \in DOMAIN group.choices
      BY <1>3, <2>2
    <3> QED
      BY <3>1, <3>2 DEF Picked
  <2> QED
    BY <2>1, <2>2
<1>5. IsFiniteSet(DOMAIN group.choices) /\ Picked(line, item, g) \subseteq DOMAIN group.choices
  BY <1>1 DEF IsGroup, Picked
<1>6. IsFiniteSet(Picked(line, item, g))
  BY <1>5, FS_Subset
<1> QED
  BY <1>4, <1>6, FS_CardinalityType

\* Every pick is one of a group that the item has.
LEMMA PicksAreCounted ==
  ASSUME NEW line, IsLine(line), NEW item, IsItem(item), LineFits(line, item),
         DOMAIN line.picks = 1..Len(line.picks), Len(line.picks) \in Nat
  PROVE  Len(line.picks)
           = SumFunction([g \in ActiveGroups(item) |-> Cardinality(Picked(line, item, g))])
<1> DEFINE P == ToSet(line.picks)
           G == ActiveGroups(item)
           f == [g \in G |-> Cardinality(Picked(line, item, g))]
           N == 1..Len(line.picks)
<1>1. line.picks \in Bijection(N, P)
  <2>1. line.picks \in [N -> P]
    BY DEF IsLine, ToSet
  <2>2. IsInjective(line.picks)
    BY DEF LineFits
  <2>3. \A p \in P : \E n \in N : line.picks[n] = p
    BY DEF ToSet
  <2> QED
    BY <2>1, <2>2, <2>3 DEF Bijection, Injection, Surjection
<1>2. ExistsBijection(N, P)
  BY <1>1 DEF ExistsBijection
<1>3. Cardinality(P) = Len(line.picks) /\ IsFiniteSet(P)
  BY <1>2, FS_CountingElements, FS_NatBijection
<1>4. IsFiniteSet(G)
  <2>1. IsFiniteSet(DOMAIN item.groups) /\ G \subseteq DOMAIN item.groups
    BY DEF IsItem, AreGroups, ActiveGroups
  <2> QED
    BY <2>1, FS_Subset
<1>5. \A p \in P : p.group \in G
  BY PicksAreChoices
<1>6. ASSUME NEW g \in G PROVE f[g] = Cardinality({p \in P : p.group = g})
  <2> DEFINE from == Picked(line, item, g)
             to == {p \in P : p.group = g}
             pick == [c \in from |-> [group |-> g, choice |-> c]]
  <2>1. from = {p.choice : p \in to} /\ IsFiniteSet(from)
    BY PickedWasChecked
  <2>2. \A p \in to : p = [group |-> g, choice |-> p.choice]
    BY DEF IsLine
  <2>3. \A c \in from : pick[c] \in to
    BY DEF Picked
  <2>4. \A p \in to : \E c \in from : pick[c] = p
    BY <2>1, <2>2
  <2>5. \A c, d \in from : pick[c] = pick[d] => c = d
    OBVIOUS
  <2>6. pick \in [from -> to]
    BY <2>3
  <2> HIDE DEF from, to, pick
  <2>7. pick \in Bijection(from, to)
    BY <2>4, <2>5, <2>6 DEF Bijection, Injection, Surjection, IsInjective
  <2>8. ExistsBijection(from, to)
    BY <2>7 DEF ExistsBijection
  <2>9. Cardinality(to) = Cardinality(from)
    BY <2>1, <2>8, FS_Bijection
  <2> QED
    BY <2>9 DEF from, to
<1>7. SumFunction(f) = SumOf(f, G)
  BY SumOfFunction
<1> HIDE DEF P, G, f
<1>8. SumOf(f, G) = Cardinality(P)
  BY <1>3, <1>4, <1>5, <1>6, CountedByGroup DEF P
<1> QED
  BY <1>3, <1>7, <1>8 DEF f, G

\* Each group has as many of them as it demands.
LEMMA GroupsAreSatisfied ==
  ASSUME NEW line, IsLine(line), NEW item, IsItem(item), LineFits(line, item),
         NEW g \in ActiveGroups(item)
  PROVE  LET group == item.groups[g]
             picked == Picked(line, item, g)
         IN  /\ \A c \in picked : group.choices[c].active
             /\ group.required /\ group.min # 0 => picked # {}
             /\ group.min # Null => Cardinality(picked) >= group.min
             /\ group.max # Null => Cardinality(picked) <= group.max
<1> DEFINE group == item.groups[g]
           picked == Picked(line, item, g)
           chosen == {p.choice : p \in {q \in ToSet(line.picks) : q.group = g}}
<1>1. /\ MinSelect(group) <= Cardinality(picked)
      /\ group.max # Null => Cardinality(picked) <= group.max
      /\ picked \subseteq ActiveChoices(group)
  <2>1. picked = chosen
    BY PickedWasChecked
  <2>2. /\ MinSelect(group) <= Cardinality(chosen)
        /\ group.max # Null => Cardinality(chosen) <= group.max
        /\ chosen \subseteq ActiveChoices(group)
    BY DEF LineFits, PicksFit
  <2> HIDE DEF group, picked, chosen
  <2> QED
    BY <2>1, <2>2
<1>2. /\ group.min \in Nat \union {Null} /\ group.required \in BOOLEAN
  BY DEF ActiveGroups, IsItem, AreGroups, IsGroup
<1>3. Cardinality(picked) \in Nat /\ (picked = {} => Cardinality(picked) = 0)
  BY PickedWasChecked, FS_EmptySet
<1>4. group.min # Null => MinSelect(group) = group.min
  BY DEF MinSelect
<1>5. group.min = Null /\ group.required => MinSelect(group) = 1
  BY DEF MinSelect
<1>6. \A c \in picked : group.choices[c].active
  BY <1>1 DEF ActiveChoices
<1> HIDE DEF group, picked
<1>7. group.min # Null => Cardinality(picked) >= group.min
  BY <1>1, <1>2, <1>3, <1>4
<1>8. group.required /\ group.min # 0 => picked # {}
  <2>1. CASE group.min = Null
    BY <1>1, <1>3, <1>5, <2>1
  <2>2. CASE group.min # Null
    BY <1>2, <1>3, <1>7, <2>2
  <2> QED
    BY <2>1, <2>2
<1> QED
  BY <1>1, <1>6, <1>7, <1>8 DEF group, picked

\* An item in one line only is not ordered more often than it may be.
LEMMA LimitHolds ==
  ASSUME NEW cart \in Carts, NEW n \in DOMAIN cart.lines, NEW item, IsItem(item),
         LineFits(cart.lines[n], item)
  PROVE  LET lines == cart.lines
             i == lines[n].item
         IN  \/ item.max = Null
             \/ SumFunction([m \in DOMAIN lines |-> IF lines[m].item = i THEN lines[m].qty ELSE 0]) <= item.max
             \/ Cardinality({m \in DOMAIN lines : lines[m].item = i}) > 1
<1> DEFINE lines == cart.lines
           i == lines[n].item
           u == [m \in DOMAIN lines |-> IF lines[m].item = i THEN lines[m].qty ELSE 0]
           same == {m \in DOMAIN lines : lines[m].item = i}
<1>1. SUFFICES ASSUME item.max # Null, ~(Cardinality(same) > 1) PROVE SumFunction(u) <= item.max
  OBVIOUS
<1>2. IsFiniteSet(DOMAIN lines) /\ \A m \in DOMAIN lines : lines[m].qty \in Nat
  BY LinesAreFinite DEF IsLine
<1>3. IsFiniteSet(same) /\ n \in same
  BY <1>2, FS_Subset
<1>4. Cardinality(same) = 1
  <2>1. Cardinality(same) \in Nat /\ Cardinality(same) # 0
    BY <1>3, FS_CardinalityType, FS_EmptySet
  <2> HIDE DEF same
  <2> QED
    BY <1>1, <2>1
<1>5. \A m \in DOMAIN lines : m # n => u[m] = 0
  <2>1. PICK x : same = {x}
    <3> HIDE DEF same
    <3> QED
      BY <1>3, <1>4, FS_Singleton
  <2>2. same = {n}
    BY <1>3, <2>1
  <2> QED
    BY <2>2
<1>6. \A m \in DOMAIN lines : u[m] \in Int
  BY <1>2
<1>7. u[n] = lines[n].qty /\ SumFunction(u) = SumOf(u, DOMAIN lines)
  BY SumOfFunction
<1> HIDE DEF u
<1>8. SumOf(u, DOMAIN lines) = u[n]
  BY <1>2, <1>5, <1>6, SumOfOne
<1>9. lines[n].qty <= item.max
  BY <1>1, ZenonT(60) DEF LineFits
<1> QED
  BY <1>7, <1>8, <1>9

\* A line of an order fits the item that it asks for.
LEMMA LineAsOffered ==
  ASSUME NEW cart \in Carts, NEW s, OfferOK(s),
         NEW n \in DOMAIN cart.lines, LineFits(cart.lines[n], s.items[cart.lines[n].item])
  PROVE  LET lines == cart.lines
             item == s.items[lines[n].item]
             i == lines[n].item
             picked(g) == Picked(lines[n], item, g)
         IN  /\ item.available /\ (lines[n].note => item.allowsNotes)
             /\ \/ item.max = Null
                \/ SumFunction([m \in DOMAIN lines |-> IF lines[m].item = i THEN lines[m].qty ELSE 0]) <= item.max
                \/ Cardinality({m \in DOMAIN lines : lines[m].item = i}) > 1
             /\ Len(lines[n].picks) = SumFunction([g \in ActiveGroups(item) |-> Cardinality(picked(g))])
             /\ \A g \in ActiveGroups(item) :
                  LET group == item.groups[g]
                  IN  /\ \A c \in picked(g) : group.choices[c].active
                      /\ group.required /\ group.min # 0 => picked(g) # {}
                      /\ group.min # Null => Cardinality(picked(g)) >= group.min
                      /\ group.max # Null => Cardinality(picked(g)) <= group.max
<1> DEFINE lines == cart.lines
           line == lines[n]
           item == s.items[line.item]
<1>1. line \in ToSet(lines) /\ IsLine(line)
  BY OrderDraftAssumption DEF IsCart, ToSet
<1>2. IsItem(item)
  BY <1>1 DEF OfferOK, IsOffer, LineFits
<1>3. DOMAIN line.picks = 1..Len(line.picks) /\ Len(line.picks) \in Nat
  BY <1>1 DEF IsLine
<1>4. LineFits(line, item)
  BY ZenonT(60)
<1>5. item.available /\ (line.note => item.allowsNotes)
  BY <1>4, SMTT(30) DEF LineFits
<1>6. \/ item.max = Null
      \/ SumFunction([m \in DOMAIN lines |-> IF lines[m].item = line.item THEN lines[m].qty ELSE 0]) <= item.max
      \/ Cardinality({m \in DOMAIN lines : lines[m].item = line.item}) > 1
  BY <1>2, LimitHolds
<1> HIDE DEF item, line
<1>7. Len(line.picks) = SumFunction([g \in ActiveGroups(item) |-> Cardinality(Picked(line, item, g))])
  BY <1>1, <1>2, <1>3, <1>4, PicksAreCounted
<1>8. ASSUME NEW g \in ActiveGroups(item)
      PROVE  LET group == item.groups[g]
                 picked == Picked(line, item, g)
             IN  /\ \A c \in picked : group.choices[c].active
                 /\ group.required /\ group.min # 0 => picked # {}
                 /\ group.min # Null => Cardinality(picked) >= group.min
                 /\ group.max # Null => Cardinality(picked) <= group.max
  BY <1>1, <1>2, <1>4, <1>8, GroupsAreSatisfied
<1> QED
  BY <1>5, <1>6, <1>7, <1>8 DEF item, line

\* All parts of an order were on offer at some moment.
LEMMA DraftsAsOffered == DraftInv => OrdersAsOffered
<1>1. SUFFICES ASSUME DraftInv, db.order # Null PROVE OrdersAsOffered
  BY DEF OrdersAsOffered
<1> DEFINE o == db.order
           lines == o.cart.lines
<1>2. OrderOK(o)
  BY <1>1 DEF DraftInv
<1>3. \E s \in o.seen : /\ s.active /\ s.city \in {Null, o.place.city}
                        /\ s.minOrder # Null => o.subtotal >= s.minOrder
  BY <1>2 DEF OrderOK
<1>4. \E s \in o.seen : s.zones[o.place.nb] = [active |-> TRUE, fee |-> o.fee]
  BY <1>2, ZenonT(60) DEF OrderOK, SawZone
<1>5. PICK s \in o.seen : /\ \A n \in DOMAIN lines : LineFits(lines[n], s.items[lines[n].item])
                          /\ o.subtotal = Subtotal(lines, s.items)
  BY <1>2 DEF OrderOK, SawItems
<1>6. o.cart \in Carts /\ OfferOK(s)
  BY <1>2 DEF OrderOK
<1>7. \E t \in o.seen : DOMAIN t.methods # {} => t.methods[o.cart.method]
  <2>1. PICK t \in o.seen : MethodActive(t, o.cart.method)
    BY <1>2 DEF OrderOK, SawMethod
  <2> QED
    BY <2>1 DEF MethodActive
<1>8. \E t \in o.seen : t.accepted = {} \/ o.cart.method \in t.accepted \/ DOMAIN t.methods = {}
  <2>1. PICK t \in o.seen : MethodAccepted(t, o.cart.method)
    BY <1>2, ZenonT(60) DEF OrderOK, SawAccepted
  <2> QED
    BY <2>1 DEF MethodAccepted
<1> HIDE DEF o
<1>9. \A n \in DOMAIN lines :
        LET i == lines[n].item
            item == s.items[i]
            picked(g) == Picked(lines[n], item, g)
        IN  /\ item.available /\ (lines[n].note => item.allowsNotes)
            /\ \/ item.max = Null
               \/ SumFunction([m \in DOMAIN lines |-> IF lines[m].item = i THEN lines[m].qty ELSE 0]) <= item.max
               \/ Cardinality({m \in DOMAIN lines : lines[m].item = i}) > 1
            /\ Len(lines[n].picks) = SumFunction([g \in ActiveGroups(item) |-> Cardinality(picked(g))])
            /\ \A g \in ActiveGroups(item) :
                 LET group == item.groups[g]
                 IN  /\ \A c \in picked(g) : group.choices[c].active
                     /\ group.required /\ group.min # 0 => picked(g) # {}
                     /\ group.min # Null => Cardinality(picked(g)) >= group.min
                     /\ group.max # Null => Cardinality(picked(g)) <= group.max
  BY <1>5, <1>6, LineAsOffered
<1> QED
  BY <1>3, <1>4, <1>5, <1>7, <1>8, <1>9, ZenonT(60) DEF OrdersAsOffered, Picked, o

-----------------------------------------------------------------------------
(* What customers are shown can be ordered.                                *)

\* A set has parts of every size up to its own.
LEMMA PartsOfEverySize ==
  ASSUME NEW S, IsFiniteSet(S), NEW n \in Nat, n <= Cardinality(S)
  PROVE  \E T \in SUBSET S : Cardinality(T) = n
<1> DEFINE Good == {T \in SUBSET S : \A m \in 0..Cardinality(T) : \E U \in SUBSET T : Cardinality(U) = m}
<1>1. \A T \in SUBSET S : IsFiniteSet(T) /\ Cardinality(T) \in Nat
  BY FS_Subset, FS_CardinalityType
<1>2. ASSUME NEW T \in SUBSET S, \A x \in T : T \ {x} \in Good PROVE T \in Good
  <2>1. ASSUME NEW m \in 0..Cardinality(T) PROVE \E U \in SUBSET T : Cardinality(U) = m
    <3>1. CASE m = Cardinality(T)
      BY <3>1
    <3>2. CASE m # Cardinality(T)
      <4>1. Cardinality(T) # 0
        BY <1>1, <3>2
      <4>2. PICK x \in T : TRUE
        BY <1>1, <4>1, FS_EmptySet
      <4>3. Cardinality(T \ {x}) = Cardinality(T) - 1
        BY <1>1, <4>2, FS_RemoveElement
      <4>4. m \in 0..Cardinality(T \ {x})
        BY <1>1, <3>2, <4>3
      <4>5. PICK U \in SUBSET (T \ {x}) : Cardinality(U) = m
        BY <1>2, <4>2, <4>4
      <4> QED
        BY <4>5
    <3> QED
      BY <3>1, <3>2
  <2> QED
    BY <2>1
<1> HIDE DEF Good
<1>3. SUBSET S \subseteq Good
  BY <1>2, SubsetInduction
<1> QED
  BY <1>1, <1>3 DEF Good

\* Options that were saved demand no more choices than they take.
LEMMA DemandIsMet ==
  ASSUME NEW item, IsItem(item), NEW g \in ActiveGroups(item)
  PROVE  LET group == item.groups[g]
         IN  /\ MinSelect(group) \in Nat /\ IsFiniteSet(ActiveChoices(group))
             /\ group.max # Null => MinSelect(group) <= group.max
<1> DEFINE group == item.groups[g]
<1>1. g \in DOMAIN item.groups /\ IsGroup(group) /\ validateOptions(item.groups)
  BY DEF ActiveGroups, IsItem, AreGroups
<1>2. /\ Null \notin {group.min, group.max} => group.min <= group.max
      /\ ~(group.required /\ group.max = 0)
  BY <1>1 DEF validateOptions
<1>3. /\ group.min # Null => group.min \in Nat
      /\ group.max # Null => group.max \in Nat
      /\ IsFiniteSet(DOMAIN group.choices)
  BY <1>1 DEF IsGroup
<1>4. IsFiniteSet(ActiveChoices(group))
  BY <1>3, FS_Subset DEF ActiveChoices
<1> HIDE DEF group
<1>5. MinSelect(group) = IF group.min # Null THEN group.min ELSE IF group.required THEN 1 ELSE 0
  BY DEF MinSelect
<1>6. CASE group.min # Null
  BY <1>2, <1>3, <1>4, <1>5, <1>6 DEF group
<1>7. CASE group.min = Null /\ group.required
  BY <1>2, <1>3, <1>4, <1>5, <1>7 DEF group
<1>8. CASE group.min = Null /\ ~group.required
  BY <1>2, <1>3, <1>4, <1>5, <1>8 DEF group
<1> QED
  BY <1>6, <1>7, <1>8

\* With enough choices in every group there are picks that fit.
LEMMA ItemCanBeOrdered ==
  ASSUME NEW item, IsItem(item),
         \A g \in ActiveGroups(item) :
           MinSelect(item.groups[g]) <= Cardinality(ActiveChoices(item.groups[g]))
  PROVE  \E picks \in SUBSET UNION {{[group |-> g, choice |-> c] : c \in ActiveChoices(item.groups[g])} :
                                      g \in ActiveGroups(item)} :
           PicksFit(picks, item)
<1> DEFINE G == ActiveGroups(item)
           Enough(g, T) == T \subseteq ActiveChoices(item.groups[g]) /\ Cardinality(T) = MinSelect(item.groups[g])
           some == [g \in G |-> CHOOSE T : Enough(g, T)]
           picks == UNION {{[group |-> g, choice |-> c] : c \in some[g]} : g \in G}
<1>1. \A g \in G : Enough(g, some[g])
  <2>1. ASSUME NEW g \in G PROVE \E T : Enough(g, T)
    BY DemandIsMet, PartsOfEverySize
  <2> HIDE DEF Enough
  <2> QED
    BY <2>1
<1> HIDE DEF some
<1>2. picks \subseteq UNION {{[group |-> g, choice |-> c] : c \in ActiveChoices(item.groups[g])} : g \in G}
  BY <1>1
<1>3. \A p \in picks : p.group \in G
  OBVIOUS
<1>4. ASSUME NEW g \in G PROVE {p.choice : p \in {q \in picks : q.group = g}} = some[g]
  <2>1. \A c \in some[g] : [group |-> g, choice |-> c] \in picks
    OBVIOUS
  <2>2. \A p \in picks : p.group = g => p.choice \in some[g]
    OBVIOUS
  <2> HIDE DEF picks
  <2>3. ASSUME NEW c \in some[g] PROVE c \in {p.choice : p \in {q \in picks : q.group = g}}
    <3>1. [group |-> g, choice |-> c] \in {q \in picks : q.group = g}
      BY <2>1
    <3> QED
      BY <3>1
  <2> QED
    BY <2>2, <2>3
<1> HIDE DEF picks
<1>5. ASSUME NEW g \in G
      PROVE  LET group == item.groups[g]
                 chosen == {p.choice : p \in {q \in picks : q.group = g}}
             IN  /\ MinSelect(group) <= Cardinality(chosen)
                 /\ group.max # Null => Cardinality(chosen) <= group.max
                 /\ chosen \subseteq ActiveChoices(group)
  <2>1. /\ MinSelect(item.groups[g]) \in Nat
        /\ item.groups[g].max # Null => MinSelect(item.groups[g]) <= item.groups[g].max
    BY DemandIsMet
  <2>2. some[g] \subseteq ActiveChoices(item.groups[g]) /\ Cardinality(some[g]) = MinSelect(item.groups[g])
    BY <1>1
  <2> DEFINE group == item.groups[g]
             chosen == {p.choice : p \in {q \in picks : q.group = g}}
  <2>3. chosen \subseteq ActiveChoices(group) /\ Cardinality(chosen) = MinSelect(group)
    BY <1>4, <2>2
  <2>4. MinSelect(group) \in Nat /\ (group.max # Null => MinSelect(group) <= group.max)
    BY <2>1
  <2> HIDE DEF group, chosen
  <2>5. /\ MinSelect(group) <= Cardinality(chosen)
        /\ group.max # Null => Cardinality(chosen) <= group.max
        /\ chosen \subseteq ActiveChoices(group)
    BY <2>3, <2>4
  <2> QED
    BY <2>5 DEF group, chosen
<1>6. PicksFit(picks, item)
  BY <1>3, <1>5 DEF PicksFit
<1> QED
  BY <1>2, <1>6

\* The lists, the methods and the options that customers are shown.
LEMMA ShownIsOrderable == DraftInv => ShownCanBeOrdered
<1>1. SUFFICES ASSUME DraftInv PROVE ShownCanBeOrdered
  OBVIOUS
<1>2. IsOffer(db.offer)
  BY <1>1 DEF DraftInv, OfferOK
<1>3. \A a \in Owned : Listed(db.offer, db.addresses[a]) =>
        ServesCity(db.offer, db.addresses[a]) /\ ServesZone(db.offer, db.addresses[a].nb)
  BY DEF Listed, ServesCity, ServesZone
<1>4. ASSUME NEW method \in DOMAIN db.offer.methods
      PROVE  method \in Selected(db.offer) <=>
               MethodActive(db.offer, method) /\ MethodAccepted(db.offer, method)
  BY <1>4 DEF Selected, MethodActive, MethodAccepted
<1>5. ASSUME NEW i \in {k \in DOMAIN db.offer.items : db.offer.items[k] # Null},
             \A g \in ActiveGroups(db.offer.items[i]) :
               MinSelect(db.offer.items[i].groups[g])
                 <= Cardinality(ActiveChoices(db.offer.items[i].groups[g]))
      PROVE  \E picks \in SUBSET UNION
                 {{[group |-> g, choice |-> c] : c \in ActiveChoices(db.offer.items[i].groups[g])} :
                    g \in ActiveGroups(db.offer.items[i])} :
               PicksFit(picks, db.offer.items[i])
  <2> DEFINE item == db.offer.items[i]
  <2>1. IsItem(item)
    BY <1>2 DEF IsOffer
  <2>2. \A g \in ActiveGroups(item) :
          MinSelect(item.groups[g]) <= Cardinality(ActiveChoices(item.groups[g]))
    BY <1>5
  <2> HIDE DEF item
  <2>3. \E picks \in SUBSET UNION
            {{[group |-> g, choice |-> c] : c \in ActiveChoices(item.groups[g])} : g \in ActiveGroups(item)} :
          PicksFit(picks, item)
    BY <2>1, <2>2, ItemCanBeOrdered
  <2> QED
    BY <2>3 DEF item
<1> QED
  BY <1>3, <1>4, <1>5 DEF ShownCanBeOrdered

-----------------------------------------------------------------------------
(* The theorems.                                                           *)

\* Whatever the requests for addresses, orders and cycles do, the edits of the offer and
\* the orders that are canceled: every request knows what it has read, what it has not
\* been overlapped in is still so, and what was written is what the writer knew.
THEOREM CheckoutInvariant == Spec => []Inv
<1>1. Inv /\ [Next]_dbVars => Inv'
  BY AllStepsKeep
<1> QED
  BY <1>1, AllStarts, PTL DEF Spec

\* The neighborhood of an address lies in its city, however creations, moves and
\* removals of addresses interleave, unless two moves of that address overlapped: a
\* move checks city and neighborhood against the row and writes only what was asked.
THEOREM PlaceHolds == Spec => []PlaceConsistent
<1>1. Inv => PlaceConsistent
  BY DEF Inv, AddressInv, PlaceInv
<1> QED
  BY <1>1, CheckoutInvariant, PTL

\* A deleted account is left with no address, unless a change of its addresses was
\* under way when the transaction that deletes them committed.
THEOREM DeletedHolds == Spec => []DeletedHasNoAddress
<1>1. Inv => DeletedHasNoAddress
  BY DEF Inv, AddressInv, GoneOK, DeletedHasNoAddress
<1> QED
  BY <1>1, CheckoutInvariant, PTL

\* A customer with addresses has exactly one default unless changes of the list
\* overlapped or the customer declined one: every request decides which defaults to
\* clear, whether the address is the first and who takes over from the list as it is,
\* and unless another commits in between, that is still so when it writes.
THEOREM OneDefaultHolds == Spec => []OneDefault
<1>1. Inv => OneDefault
  <2>1. SUFFICES ASSUME DefaultInv, Owned # {}, "addresses" \notin blurred
                 PROVE  Cardinality(Defaults) <= 1 /\ (Defaults = {} => db.waived)
    BY DEF Inv, AddressInv, OneDefault
  <2>2. OneOrWaived
    BY <2>1 DEF DefaultInv
  <2>3. CASE Defaults = {}
    BY <2>2, <2>3, FS_EmptySet DEF OneOrWaived
  <2>4. CASE Defaults # {}
    <3>1. PICK a : Defaults = {a}
      BY <2>2, <2>4 DEF OneOrWaived
    <3> QED
      BY <2>4, <3>1, FS_Singleton
  <2> QED
    BY <2>3, <2>4
<1> QED
  BY <1>1, CheckoutInvariant, PTL

\* However saves, new orders and cancellations interleave, a cycle is never replaced
\* by one from an older report, unless another save committed after that report was
\* made and before it was saved.
THEOREM NewerReportHolds == Spec => NewerReportStays
<1>1. Inv /\ [Next]_dbVars => [Advances]_dbVars
  BY AllStepsKeep
<1>2. [Advances]_dbVars
        <=> [db.cycle # Null => db'.cycle.asOf >= db.cycle.asOf \/ "cycle" \in blurred']_dbVars
  BY DEF Advances
<1> QED
  BY <1>1, <1>2, CheckoutInvariant, PTL DEF Spec, NewerReportStays

\* A saved cycle is the sum of its items, for any number of orders at any prices and any
\* commission: sales and canceled sales to the cent, and the commission, which is rounded
\* once for the sum and once for each item, up to half a cent for each of them.
THEOREM CycleSumsHold == Spec => []CycleIsSumOfItems
<1>1. Inv => CycleIsSumOfItems
  BY BillingSafe DEF Inv
<1> QED
  BY <1>1, CheckoutInvariant, PTL

\* No order is discounted by more than its items, and its stored amounts add up to within
\* the one cent by which total and discount may both be rounded up, whatever the prices,
\* the fee, the coupon and the number of lines.
THEOREM TotalsHold == Spec => []TotalsAddUp
<1>1. Inv => TotalsAddUp
  BY DraftsAddUp DEF Inv
<1> QED
  BY <1>1, CheckoutInvariant, PTL

\* Each part of an order was on offer, at the price charged, at some moment while the
\* order was being made, although the transaction that creates it checks none of it
\* again, and it goes to the city of the restaurant.
THEOREM OrderSoundHolds == Spec => []OrderSound
<1>1. Inv => OrderSound
  BY DraftsAsOffered, DraftsInTown DEF Inv, OrderSound
<1> QED
  BY <1>1, CheckoutInvariant, PTL

\* Customers can order what they are shown: the queries of the lists and the checks of the
\* order agree, and the options that pass validateOptions can all be satisfied.
THEOREM ShownHolds == Spec => []ShownCanBeOrdered
<1>1. Inv => ShownCanBeOrdered
  BY ShownIsOrderable DEF Inv
<1> QED
  BY <1>1, CheckoutInvariant, PTL

=============================================================================
