--------------------------- MODULE StorefrontProofs ---------------------------
(***************************************************************************)
(* Proofs about Storefront, for any number of rows of every kind and of    *)
(* concurrent requests.  Its services share the tables and the requests,   *)
(* but each has columns of its own and contends for things of its own; so  *)
(* every part of the invariant is disturbed by one service alone.          *)
(***************************************************************************)
EXTENDS Storefront, FiniteSetTheorems, TLAPS

Fields ==
  {"restaurant", "ownerGone", "moves", "favorites", "favoritesCount", "reviews", "stats",
   "rows", "agreed", "activeMethods", "storeCategories", "categories", "items", "sold",
   "zones", "used", "week", "now"}

Shape == DOMAIN db = Fields /\ DOMAIN up = Requests

-----------------------------------------------------------------------------
(* What a step of one service leaves alone.                                *)

\* Only the request in slot r moves, to do something in ops; only it ceases to be
\* overlapped, and nothing but things becomes or ceases to be blurred.
Within(r, ops, things) ==
  /\ DOMAIN up' = Requests
  /\ \A s \in Requests \ {r} : up'[s] = up[s]
  /\ up'[r].op \in ops \union {"idle"}
  /\ overlapped \ {r} \subseteq overlapped'
  /\ \A t : t \notin things => (t \in blurred' <=> t \in blurred)

Keeps(fields) == DOMAIN db' = Fields /\ \A f \in fields : db'[f] = db[f]

\* Arriving and going on change nothing but the slot.
LEMMA ArriveWithin ==
  ASSUME Shape, NEW r \in Requests, NEW job, NEW ops, NEW things, job.op \in ops,
         Arrive(r, job) \/ Proceed(r, job)
  PROVE  Within(r, ops, things) /\ Keeps(Fields)
<1>1. up' = [up EXCEPT ![r] = job] /\ UNCHANGED <<db, overlapped, blurred>>
  BY DEF Arrive, Proceed
<1>2. up'[r] = job /\ DOMAIN up' = Requests /\ \A s \in Requests \ {r} : up'[s] = up[s]
  BY <1>1 DEF Shape
<1> QED
  BY <1>1, <1>2 DEF Shape, Within, Keeps

\* A commit blurs or clears what its request works on and nothing else.
LEMMA CommitWithin ==
  ASSUME Shape, NEW r \in Requests, NEW tables, NEW job, NEW whole \in BOOLEAN, NEW ops, NEW things,
         CommitStep(r, tables, job, whole), job.op \in ops \union {"idle"},
         up[r].on \in things \union {Null}
  PROVE  Within(r, ops, things)
<1>1. up' = [up EXCEPT ![r] = job] /\ overlapped' = (overlapped \union Contenders(r)) \ {r}
  BY DEF CommitStep
<1>2. up'[r] = job /\ DOMAIN up' = Requests /\ \A s \in Requests \ {r} : up'[s] = up[s]
  BY <1>1 DEF Shape
<1>3. up[r].on = Null => blurred' = blurred
  BY DEF CommitStep
<1>4. up[r].on # Null => blurred' \in {blurred \union {up[r].on}, blurred \ {up[r].on}, blurred}
  BY DEF CommitStep
<1>5. \A t : t \notin things => (t \in blurred' <=> t \in blurred)
  BY <1>3, <1>4
<1> QED
  BY <1>1, <1>2, <1>5 DEF Within

\* A request that fails changes nothing but its slot.
LEMMA FailWithin ==
  ASSUME Shape, NEW r \in Requests, Fail(r), NEW ops, NEW things
  PROVE  Within(r, ops, things) /\ Keeps(Fields)
BY DEF Shape, Within, Keeps, Fail, Idle

\* The request that commits overlaps all others that work on the same thing, and a
\* thing that an overlapped one has written is blurred.
LEMMA CommitOverlaps ==
  ASSUME Shape, NEW r \in Requests, NEW tables, Commit(r, tables), up[r].on # Null
  PROVE  /\ \A s \in Requests \ overlapped' : s # r => s \notin overlapped /\ up[s].on # up[r].on
         /\ r \in overlapped => up[r].on \in blurred'
         /\ \A t : t # up[r].on => (t \in blurred' <=> t \in blurred)
         /\ \A s \in Requests \ {r} : up'[s] = up[s]
         /\ up'[r] = Idle /\ db' = tables
BY DEF Shape, Commit, CommitAnd, CommitStep, Contenders

-----------------------------------------------------------------------------
(* The status of the restaurant.                                           *)

StatusOps == {"create", "update", "updateStatus", "deleteMyAccount"}
StatusFields == {"restaurant", "ownerGone", "moves"}
RestaurantRows ==
  [active : BOOLEAN, forced : BOOLEAN, city : Cities \union {Null}, by : {"owner", "admin"}]

StatusJob(job) ==
  /\ job.op = "create" => job.on = "status" /\ job.city \in Cities \union {Null}
  /\ job.op = "update" => /\ job.on = IF job.active = Null THEN Null ELSE "status"
                          /\ job.who \in {"owner", "admin"}
                          /\ job.active \in BOOLEAN \union {Null} /\ job.city \in Cities \union {Null}
  /\ job.op = "updateStatus" => /\ job.on = "status" /\ job.who \in {"owner", "admin"}
                                /\ job.active \in BOOLEAN
  /\ job.op = "deleteMyAccount" => job.on = "status"

\* A request of the owner that nothing has overlapped may still open the restaurant.
MayOpen ==
  \A r \in Requests \ overlapped :
    up[r].op \in {"update", "updateStatus"} /\ up[r].active = TRUE /\ up[r].who # "admin"
      => ~db.restaurant.forced /\ ~db.ownerGone

StatusTables ==
  /\ db.restaurant \in RestaurantRows \union {Null}
  /\ db.ownerGone \in BOOLEAN /\ db.moves \in Nat
  /\ \A r \in Requests : up[r].op \in {"update", "updateStatus"} => db.restaurant # Null

StatusInv ==
  /\ StatusTables
  /\ \A r \in Requests : StatusJob(up[r])
  /\ MayOpen
  /\ StaysClosed

\* A restaurant that is there is not a missing one.
LEMMA RowsAreNotNull ==
  /\ Null \notin RestaurantRows
  /\ Null \notin BOOLEAN \union Cities
BY RestaurantsAssumption DEF RestaurantRows

\* Requests for the status of the restaurant keep to their tables.
LEMMA StatusWithin ==
  ASSUME Shape, StatusInv, NEW r \in Requests, StatusStep(r)
  PROVE  Within(r, StatusOps, {"status"}) /\ Keeps(Fields \ StatusFields)
<1> USE DEF StatusOps, StatusFields
<1>1. ASSUME NEW job, Arrive(r, job), job.op \in StatusOps
      PROVE  Within(r, StatusOps, {"status"}) /\ Keeps(Fields \ StatusFields)
  <2>1. Within(r, StatusOps, {"status"}) /\ Keeps(Fields)
    BY <1>1, ArriveWithin
  <2> QED
    BY <2>1 DEF Keeps
<1>2. ASSUME NEW c \in Cities \union {Null}, Create(r, c)
      PROVE  Within(r, StatusOps, {"status"}) /\ Keeps(Fields \ StatusFields)
  BY <1>1, <1>2 DEF Create
<1>3. ASSUME NEW who, NEW active, UpdateStatus(r, who, active)
      PROVE  Within(r, StatusOps, {"status"}) /\ Keeps(Fields \ StatusFields)
  BY <1>1, <1>3 DEF UpdateStatus
<1>4. ASSUME NEW who, NEW active, NEW c, Update(r, who, active, c)
      PROVE  Within(r, StatusOps, {"status"}) /\ Keeps(Fields \ StatusFields)
  BY <1>1, <1>4 DEF Update
<1>5. CASE DeleteOwner(r)
  BY <1>1, <1>5 DEF DeleteOwner
<1>6. CASE WriteNew(r) \/ WriteUpdate(r) \/ WriteStatus(r) \/ WriteOwnerGone(r)
  <2>1. up[r].on \in {"status", Null}
    BY <1>6 DEF WriteNew, WriteUpdate, WriteStatus, WriteOwnerGone, StatusInv, StatusJob
  <2>2. Idle.op = "idle"
    BY DEF Idle
  <2>3. ASSUME NEW tables, CommitStep(r, tables, Idle, TRUE), Keeps(Fields \ StatusFields)
        PROVE  Within(r, StatusOps, {"status"}) /\ Keeps(Fields \ StatusFields)
    BY <2>1, <2>2, <2>3, CommitWithin
  <2>4. Keeps(Fields \ StatusFields)
    BY <1>6 DEF WriteNew, WriteUpdate, WriteStatus, WriteOwnerGone, Commit, CommitAnd, CommitStep,
                Keeps, Shape, Fields
  <2> QED
    BY <1>6, <2>3, <2>4 DEF WriteNew, WriteUpdate, WriteStatus, WriteOwnerGone, Commit, CommitAnd
<1> QED
  BY <1>2, <1>3, <1>4, <1>5, <1>6 DEF StatusStep

\* A new request of the status has passed its checks.
LEMMA StatusArrives ==
  ASSUME Shape, StatusInv, NEW r \in Requests, NEW job, Arrive(r, job), StatusJob(job),
         job.op \in {"update", "updateStatus"} =>
           /\ db.restaurant # Null
           /\ job.active = TRUE /\ job.who # "admin" => ~db.restaurant.forced /\ ~db.ownerGone
  PROVE  StatusInv'
<1>1. UNCHANGED <<db, overlapped, blurred>> /\ up'[r] = job /\ \A s \in Requests \ {r} : up'[s] = up[s]
  BY DEF Arrive, Shape
<1>2. StatusTables'
  BY <1>1 DEF StatusTables, StatusInv
<1>3. (\A s \in Requests : StatusJob(up[s]))'
  BY <1>1 DEF StatusJob, StatusInv
<1>4. MayOpen'
  BY <1>1 DEF MayOpen, StatusInv
<1>5. StaysClosed'
  BY <1>1 DEF StaysClosed, StatusInv
<1> QED
  BY <1>2, <1>3, <1>4, <1>5 DEF StatusInv

\* What remains to be shown of a request that writes the restaurant.
LEMMA StatusWritten ==
  ASSUME Shape, StatusInv, NEW r \in Requests, NEW tables, Commit(r, tables), up[r].on = "status",
         db'.restaurant \in RestaurantRows \union {Null},
         db.restaurant # Null => db'.restaurant # Null,
         db'.ownerGone \in BOOLEAN, db'.moves \in Nat,
         r \notin overlapped => StaysClosed'
  PROVE  StatusInv'
<1>1. "status" # Null
  BY StorefrontAssumption
<1>2. up[r].on # Null
  BY <1>1
<1>3. /\ \A s \in Requests \ overlapped' : s # r => s \notin overlapped /\ up[s].on # "status"
      /\ r \in overlapped => "status" \in blurred'
      /\ \A s \in Requests \ {r} : up'[s] = up[s]
      /\ up'[r] = Idle
  BY <1>2, CommitOverlaps
<1>4. StatusTables'
  BY <1>3 DEF StatusTables, StatusInv, Idle
<1>5. (\A s \in Requests : StatusJob(up[s]))'
  BY <1>3 DEF StatusJob, StatusInv, Idle
<1>6. MayOpen'
  <2> SUFFICES ASSUME NEW s \in Requests \ overlapped', up'[s].op \in {"update", "updateStatus"},
                      up'[s].active = TRUE
               PROVE  FALSE
    BY DEF MayOpen
  <2>1. s # r /\ up'[s] = up[s] /\ up[s].on # "status"
    BY <1>3 DEF Idle
  <2>2. StatusJob(up[s])
    BY DEF StatusInv
  <2>3. TRUE # Null
    BY RowsAreNotNull
  <2> QED
    BY <2>1, <2>2, <2>3 DEF StatusJob
<1>7. StaysClosed'
  BY <1>3 DEF StaysClosed
<1> QED
  BY <1>4, <1>5, <1>6, <1>7 DEF StatusInv

\* They keep what is said of the status.
LEMMA StatusOwn ==
  ASSUME Shape, StatusInv, NEW r \in Requests, StatusStep(r)
  PROVE  StatusInv'
<1> USE DEF StatusInv
<1>1. ASSUME NEW c \in Cities \union {Null}, Create(r, c)
      PROVE  StatusInv'
  BY <1>1, StatusArrives DEF Create, StatusJob
<1>2. ASSUME NEW who \in {"owner", "admin"}, NEW active \in BOOLEAN, UpdateStatus(r, who, active)
      PROVE  StatusInv'
  <2> DEFINE job == [op |-> "updateStatus", on |-> "status", who |-> who, active |-> active]
  <2>1. Arrive(r, job) /\ StatusJob(job)
    BY <1>2 DEF UpdateStatus, StatusJob
  <2>2. /\ db.restaurant # Null
        /\ job.active = TRUE /\ job.who # "admin" => ~db.restaurant.forced /\ ~db.ownerGone
    BY <1>2 DEF UpdateStatus, ensureCanManageRestaurant, ensureAdminForcedStatusCanBeChanged
  <2> HIDE DEF job
  <2> QED
    BY <2>1, <2>2, StatusArrives
<1>3. ASSUME NEW who \in {"owner", "admin"}, NEW active \in BOOLEAN \union {Null},
             NEW c \in Cities \union {Null}, Update(r, who, active, c)
      PROVE  StatusInv'
  <2> DEFINE job == [op |-> "update", on |-> IF active = Null THEN Null ELSE "status",
                     who |-> who, active |-> active, city |-> c]
  <2>1. Arrive(r, job) /\ StatusJob(job)
    BY <1>3 DEF Update, StatusJob
  <2>2. /\ db.restaurant # Null
        /\ job.active = TRUE /\ job.who # "admin" => ~db.restaurant.forced /\ ~db.ownerGone
    BY <1>3 DEF Update, ensureCanManageRestaurant, ensureAdminForcedStatusCanBeChanged
  <2> HIDE DEF job
  <2> QED
    BY <2>1, <2>2, StatusArrives
<1>4. CASE DeleteOwner(r)
  BY <1>4, StatusArrives DEF DeleteOwner, StatusJob
<1>5. CASE WriteNew(r)
  <2> DEFINE row == [active |-> TRUE, forced |-> FALSE, city |-> up[r].city, by |-> "admin"]
  <2>1. StatusJob(up[r]) /\ up[r].op = "create" /\ Commit(r, [db EXCEPT !.restaurant = row])
    BY <1>5 DEF WriteNew
  <2>2. up[r].on = "status" /\ row \in RestaurantRows
    BY <2>1 DEF StatusJob, RestaurantRows
  <2>3. db' = [db EXCEPT !.restaurant = row]
    BY <2>1 DEF Commit, CommitAnd, CommitStep
  <2>4. row.by = "admin"
    OBVIOUS
  <2> HIDE DEF row
  <2>5. db'.restaurant = row /\ db'.ownerGone = db.ownerGone /\ db'.moves = db.moves
    BY <2>3 DEF Shape, Fields
  <2> QED
    BY <2>1, <2>2, <2>4, <2>5, StatusWritten, RowsAreNotNull DEF StaysClosed, StatusTables
<1>6. CASE WriteStatus(r)
  <2> DEFINE job == up[r]
             old == db.restaurant
             row == [old EXCEPT !.active = job.active, !.by = job.who,
                                !.forced = IF job.who = "admin" THEN ~job.active ELSE old.forced]
  <2>1. StatusJob(job) /\ job.op = "updateStatus" /\ Commit(r, [db EXCEPT !.restaurant = row])
    BY <1>6 DEF WriteStatus
  <2>2. job.on = "status" /\ job.who \in {"owner", "admin"} /\ job.active \in BOOLEAN
    BY <2>1 DEF StatusJob
  <2>3. db' = [db EXCEPT !.restaurant = row]
    BY <2>1 DEF Commit, CommitAnd, CommitStep
  <2>4. db.restaurant \in RestaurantRows
    BY <2>1 DEF StatusTables
  <2>5. /\ row \in RestaurantRows
        /\ row.active = job.active /\ row.by = job.who
        /\ row.forced = IF job.who = "admin" THEN ~job.active ELSE db.restaurant.forced
    BY <2>2, <2>4 DEF RestaurantRows
  <2> HIDE DEF row
  <2>6. db'.restaurant = row /\ db'.ownerGone = db.ownerGone /\ db'.moves = db.moves
    BY <2>3 DEF Shape, Fields
  <2>7. r \notin overlapped => StaysClosed'
    BY <2>1, <2>2, <2>5, <2>6 DEF StaysClosed, MayOpen
  <2> QED
    BY <2>1, <2>2, <2>5, <2>6, <2>7, StatusWritten, RowsAreNotNull DEF StatusTables
<1>7. CASE WriteOwnerGone(r)
  <2> DEFINE row == IF db.restaurant = Null THEN Null
                    ELSE [db.restaurant EXCEPT !.active = FALSE, !.by = "owner"]
  <2>1. StatusJob(up[r]) /\ up[r].op = "deleteMyAccount"
        /\ Commit(r, [db EXCEPT !.ownerGone = TRUE, !.restaurant = row])
    BY <1>7 DEF WriteOwnerGone
  <2>2. up[r].on = "status"
    BY <2>1 DEF StatusJob
  <2>3. db' = [db EXCEPT !.ownerGone = TRUE, !.restaurant = row]
    BY <2>1 DEF Commit, CommitAnd, CommitStep
  <2>4. /\ row \in RestaurantRows \union {Null}
        /\ db.restaurant # Null => row # Null
        /\ row # Null => ~row.active
    BY RowsAreNotNull DEF StatusTables, RestaurantRows
  <2> HIDE DEF row
  <2>5. db'.restaurant = row /\ db'.ownerGone = TRUE /\ db'.moves = db.moves
    BY <2>3 DEF Shape, Fields
  <2> QED
    BY <2>1, <2>2, <2>4, <2>5, StatusWritten DEF StaysClosed, StatusTables
<1>8. CASE WriteUpdate(r)
  <2> DEFINE job == up[r]
             old == db.restaurant
             row == [old EXCEPT !.active = Given(job.active, old.active),
                                !.city = Given(job.city, old.city),
                                !.by = IF job.active = Null THEN old.by ELSE job.who]
             moves == IF Given(job.city, old.city) = old.city THEN db.moves ELSE db.moves + 1
  <2>1. StatusJob(job) /\ job.op = "update" /\ Commit(r, [db EXCEPT !.restaurant = row, !.moves = moves])
    BY <1>8 DEF WriteUpdate
  <2>2. /\ job.on = IF job.active = Null THEN Null ELSE "status"
        /\ job.who \in {"owner", "admin"}
        /\ job.active \in BOOLEAN \union {Null} /\ job.city \in Cities \union {Null}
    BY <2>1 DEF StatusJob
  <2>3. db' = [db EXCEPT !.restaurant = row, !.moves = moves]
    BY <2>1 DEF Commit, CommitAnd, CommitStep
  <2>4. db.restaurant \in RestaurantRows /\ db.moves \in Nat
    BY <2>1 DEF StatusTables
  <2>5. moves \in Nat
    BY <2>4
  <2>6. /\ Given(job.active, old.active) \in BOOLEAN
        /\ Given(job.city, old.city) \in Cities \union {Null}
        /\ (IF job.active = Null THEN old.by ELSE job.who) \in {"owner", "admin"}
    BY <2>2, <2>4 DEF RestaurantRows, Given
  <2>7. /\ row \in RestaurantRows
        /\ row.active = Given(job.active, db.restaurant.active)
        /\ row.by = (IF job.active = Null THEN db.restaurant.by ELSE job.who)
        /\ row.forced = db.restaurant.forced
    BY <2>4, <2>6 DEF RestaurantRows
  <2> HIDE DEF row, moves
  <2>8. db'.restaurant = row /\ db'.ownerGone = db.ownerGone /\ db'.moves = moves
    BY <2>3 DEF Shape, Fields
  <2>9. CASE job.active # Null
    <3>1. r \notin overlapped => StaysClosed'
      BY <2>1, <2>2, <2>7, <2>8, <2>9 DEF StaysClosed, MayOpen, Given
    <3> QED
      BY <2>1, <2>2, <2>7, <2>5, <2>8, <2>9, <3>1, StatusWritten, RowsAreNotNull DEF StatusTables
  <2>10. CASE job.active = Null
    <3>1. CommitStep(r, [db EXCEPT !.restaurant = row, !.moves = moves], Idle, TRUE) /\ job.on = Null
      BY <2>1, <2>2, <2>10 DEF Commit, CommitAnd
    <3>2. up' = [up EXCEPT ![r] = Idle] /\ blurred' = blurred /\ \A s \in Requests \ overlapped' : s # r => s \notin overlapped
      BY <3>1 DEF CommitStep
    <3>3. up'[r] = Idle /\ \A s \in Requests \ {r} : up'[s] = up[s]
      BY <3>2 DEF Shape
    <3>4. StatusTables'
      BY <2>7, <2>5, <2>8, <3>3, RowsAreNotNull DEF StatusTables, Idle
    <3>5. (\A s \in Requests : StatusJob(up[s]))'
      BY <3>3 DEF StatusJob, Idle
    <3>6. MayOpen'
      BY <2>7, <2>8, <3>2, <3>3 DEF MayOpen, Idle
    <3>7. StaysClosed'
      BY <2>1, <2>7, <2>8, <2>10, <3>2 DEF StaysClosed, Given, StatusTables
    <3> QED
      BY <3>4, <3>5, <3>6, <3>7
  <2> QED
    BY <2>9, <2>10
<1> QED
  BY <1>1, <1>2, <1>3, <1>4, <1>5, <1>6, <1>7, <1>8 DEF StatusStep

\* What other services do does not touch the status.
LEMMA StatusForeign ==
  ASSUME StatusInv, NEW r \in Requests, NEW ops, NEW things, Within(r, ops, things),
         ops \intersect StatusOps = {}, "status" \notin things,
         \A f \in StatusFields : db'[f] = db[f]
  PROVE  StatusInv'
<1>1. db'.restaurant = db.restaurant /\ db'.ownerGone = db.ownerGone /\ db'.moves = db.moves
  BY DEF StatusFields
<1>2. \A s \in Requests : up'[s] = up[s] \/ s = r
  BY DEF Within
<1>3. up'[r].op \notin StatusOps
  BY DEF Within, StatusOps
<1>4. StatusTables'
  BY <1>1, <1>2, <1>3 DEF StatusTables, StatusInv, StatusOps
<1>5. (\A s \in Requests : StatusJob(up[s]))'
  BY <1>2, <1>3 DEF StatusJob, StatusInv, StatusOps
<1>6. MayOpen'
  BY <1>1, <1>2, <1>3 DEF MayOpen, StatusInv, Within, StatusOps
<1>7. StaysClosed'
  BY <1>1 DEF StaysClosed, StatusInv, Within
<1> QED
  BY <1>4, <1>5, <1>6, <1>7 DEF StatusInv

-----------------------------------------------------------------------------
(* The counters of the restaurant.                                         *)

CounterOps == {"favorite", "favorites", "review", "stats"}
CounterFields == {"favorites", "favoritesCount", "reviews", "stats"}
CounterThings == {"favorites", "reviews"}

CounterJob(job) ==
  job.op \in CounterOps =>
    /\ DOMAIN job = {"op", "on", "row", "value", "seen"}
    /\ job.on = IF job.op \in {"favorite", "favorites"} THEN "favorites" ELSE "reviews"

\* A transaction that nothing has overlapped has computed what its commit makes true.
CountedRight ==
  \A r \in Requests \ overlapped :
    /\ up[r].op = "favorites" => up[r].seen = Cardinality(FavoritesWith(up[r]))
    /\ up[r].op = "stats" => up[r].seen = RatingStats(ReviewsWith(up[r]))

CounterInv ==
  /\ \A r \in Requests : CounterJob(up[r])
  /\ CountedRight
  /\ CountersAgree

\* Requests for favorites and reviews keep to their tables.
LEMMA CounterWithin ==
  ASSUME Shape, CounterInv, NEW r \in Requests, CounterStep(r)
  PROVE  Within(r, CounterOps, CounterThings) /\ Keeps(Fields \ CounterFields)
<1> USE DEF CounterOps, CounterFields
<1>1. ASSUME NEW job, Arrive(r, job) \/ Proceed(r, job), job.op \in CounterOps
      PROVE  Within(r, CounterOps, CounterThings) /\ Keeps(Fields \ CounterFields)
  <2>1. Within(r, CounterOps, CounterThings) /\ Keeps(Fields)
    BY <1>1, ArriveWithin
  <2> QED
    BY <2>1 DEF Keeps
<1>2. ASSUME NEW u, NEW wanted, Favorite(r, u, wanted)
      PROVE  Within(r, CounterOps, CounterThings) /\ Keeps(Fields \ CounterFields)
  BY <1>1, <1>2 DEF Favorite
<1>3. ASSUME NEW o, NEW rating, Review(r, o, rating)
      PROVE  Within(r, CounterOps, CounterThings) /\ Keeps(Fields \ CounterFields)
  BY <1>1, <1>3 DEF Review
<1>4. CASE RecountFavorites(r)
  <2> DEFINE row == IF up[r].value \/ up[r].row \in db.favorites THEN up[r].row ELSE Null
             taken == [up[r] EXCEPT !.op = "favorites", !.row = row]
             job == [taken EXCEPT !.seen = Cardinality(FavoritesWith(taken))]
  <2>1. Proceed(r, job)
    BY <1>4 DEF RecountFavorites
  <2>2. job.op \in CounterOps
    BY <1>4 DEF RecountFavorites, CounterInv, CounterJob
  <2> HIDE DEF job
  <2> QED
    BY <2>1, <2>2, <1>1
<1>5. CASE RecountReviews(r)
  <2> DEFINE job == [up[r] EXCEPT !.op = "stats", !.seen = RatingStats(ReviewsWith(up[r]))]
  <2>1. Proceed(r, job)
    BY <1>5 DEF RecountReviews
  <2>2. job.op \in CounterOps
    BY <1>5 DEF RecountReviews, CounterInv, CounterJob
  <2> HIDE DEF job
  <2> QED
    BY <2>1, <2>2, <1>1
<1>6. CASE WriteFavorites(r) \/ WriteReviews(r)
  <2>1. up[r].on \in CounterThings
    BY <1>6 DEF WriteFavorites, WriteReviews, CounterInv, CounterJob, CounterThings
  <2>2. Idle.op = "idle"
    BY DEF Idle
  <2>3. ASSUME NEW tables, CommitStep(r, tables, Idle, TRUE), Keeps(Fields \ CounterFields)
        PROVE  Within(r, CounterOps, CounterThings) /\ Keeps(Fields \ CounterFields)
    BY <2>1, <2>2, <2>3, CommitWithin
  <2>4. Keeps(Fields \ CounterFields)
    BY <1>6 DEF WriteFavorites, WriteReviews, Commit, CommitAnd, CommitStep, Keeps, Shape, Fields
  <2> QED
    BY <1>6, <2>3, <2>4 DEF WriteFavorites, WriteReviews, Commit, CommitAnd
<1> QED
  BY <1>2, <1>3, <1>4, <1>5, <1>6 DEF CounterStep

\* A request of the counters goes on without writing a table.
LEMMA CounterMoves ==
  ASSUME Shape, CounterInv, NEW r \in Requests, NEW job,
         up' = [up EXCEPT ![r] = job], UNCHANGED <<db, overlapped, blurred>>, CounterJob(job),
         job.op = "favorites" => job.seen = Cardinality(FavoritesWith(job)),
         job.op = "stats" => job.seen = RatingStats(ReviewsWith(job))
  PROVE  CounterInv'
<1>1. up'[r] = job /\ \A s \in Requests \ {r} : up'[s] = up[s]
  BY DEF Shape
<1>2. (\A s \in Requests : CounterJob(up[s]))'
  BY <1>1 DEF CounterInv
<1>3. CountedRight'
  BY <1>1 DEF CounterInv, CountedRight, FavoritesWith, ReviewsWith
<1>4. CountersAgree'
  BY DEF CounterInv, CountersAgree
<1> QED
  BY <1>2, <1>3, <1>4 DEF CounterInv

\* They keep what is said of the counters.
LEMMA CounterOwn ==
  ASSUME Shape, CounterInv, NEW r \in Requests, CounterStep(r)
  PROVE  CounterInv'
<1>1. ASSUME NEW u, NEW wanted, Favorite(r, u, wanted)
      PROVE  CounterInv'
  BY <1>1, CounterMoves DEF Favorite, Arrive, CounterJob, CounterOps
<1>2. ASSUME NEW o, NEW rating, Review(r, o, rating)
      PROVE  CounterInv'
  BY <1>2, CounterMoves DEF Review, Arrive, CounterJob, CounterOps
<1>3. CASE RecountFavorites(r)
  <2> DEFINE row == IF up[r].value \/ up[r].row \in db.favorites THEN up[r].row ELSE Null
             taken == [up[r] EXCEPT !.op = "favorites", !.row = row]
             job == [taken EXCEPT !.seen = Cardinality(FavoritesWith(taken))]
  <2>1. up' = [up EXCEPT ![r] = job] /\ UNCHANGED <<db, overlapped, blurred>>
    BY <1>3 DEF RecountFavorites, Proceed
  <2>2. CounterJob(up[r]) /\ up[r].op = "favorite"
    BY <1>3 DEF RecountFavorites, CounterInv
  <2>3. /\ CounterJob(job) /\ job.op = "favorites"
        /\ job.seen = Cardinality(FavoritesWith(taken))
        /\ job.value = taken.value /\ job.row = taken.row
    BY <2>2 DEF CounterJob, CounterOps
  <2> HIDE DEF job, taken
  <2>4. FavoritesWith(job) = FavoritesWith(taken)
    BY <2>3 DEF FavoritesWith
  <2> QED
    BY <2>1, <2>3, <2>4, CounterMoves
<1>4. CASE RecountReviews(r)
  <2> DEFINE job == [up[r] EXCEPT !.op = "stats", !.seen = RatingStats(ReviewsWith(up[r]))]
  <2>1. up' = [up EXCEPT ![r] = job] /\ UNCHANGED <<db, overlapped, blurred>>
    BY <1>4 DEF RecountReviews, Proceed
  <2>2. CounterJob(up[r]) /\ up[r].op = "review"
    BY <1>4 DEF RecountReviews, CounterInv
  <2>3. /\ CounterJob(job) /\ job.op = "stats"
        /\ job.seen = RatingStats(ReviewsWith(up[r]))
        /\ job.value = up[r].value /\ job.row = up[r].row
    BY <2>2 DEF CounterJob, CounterOps
  <2> HIDE DEF job
  <2>4. ReviewsWith(job) = ReviewsWith(up[r])
    BY <2>3 DEF ReviewsWith
  <2> QED
    BY <2>1, <2>3, <2>4, CounterMoves
<1>5. Null \notin CounterThings
  BY StorefrontAssumption DEF CounterThings
<1>6. CASE WriteFavorites(r)
  <2> DEFINE tables == [db EXCEPT !.favorites = FavoritesWith(up[r]), !.favoritesCount = up[r].seen]
  <2>1. CounterJob(up[r]) /\ up[r].op = "favorites" /\ Commit(r, tables)
    BY <1>6 DEF WriteFavorites, CounterInv
  <2>2. up[r].on = "favorites" /\ "favorites" # Null
    BY <1>5, <2>1 DEF CounterJob, CounterOps, CounterThings
  <2>3. /\ \A s \in Requests \ overlapped' : s # r => s \notin overlapped /\ up[s].on # "favorites"
        /\ r \in overlapped => "favorites" \in blurred'
        /\ "reviews" \in blurred' <=> "reviews" \in blurred
        /\ \A s \in Requests \ {r} : up'[s] = up[s]
        /\ up'[r] = Idle /\ db' = tables
    BY <2>1, <2>2, CommitOverlaps
  <2>4. /\ db'.favorites = FavoritesWith(up[r]) /\ db'.favoritesCount = up[r].seen
        /\ db'.reviews = db.reviews /\ db'.stats = db.stats
    BY <2>3 DEF Shape, Fields
  <2>5. (\A s \in Requests : CounterJob(up[s]))'
    BY <2>3 DEF CounterInv, CounterJob, CounterOps, Idle
  <2>6. CountedRight'
    BY <2>3, <2>4 DEF CountedRight, CounterInv, CounterJob, CounterOps, ReviewsWith, Idle
  <2>7. CountersAgree'
    BY <2>1, <2>3, <2>4 DEF CountersAgree, CounterInv, CountedRight
  <2> QED
    BY <2>5, <2>6, <2>7 DEF CounterInv
<1>7. CASE WriteReviews(r)
  <2> DEFINE tables == [db EXCEPT !.reviews = ReviewsWith(up[r]), !.stats = up[r].seen]
  <2>1. CounterJob(up[r]) /\ up[r].op = "stats" /\ Commit(r, tables)
    BY <1>7 DEF WriteReviews, CounterInv
  <2>2. up[r].on = "reviews" /\ "reviews" # Null
    BY <1>5, <2>1 DEF CounterJob, CounterOps, CounterThings
  <2>3. /\ \A s \in Requests \ overlapped' : s # r => s \notin overlapped /\ up[s].on # "reviews"
        /\ r \in overlapped => "reviews" \in blurred'
        /\ "favorites" \in blurred' <=> "favorites" \in blurred
        /\ \A s \in Requests \ {r} : up'[s] = up[s]
        /\ up'[r] = Idle /\ db' = tables
    BY <2>1, <2>2, CommitOverlaps
  <2>4. /\ db'.reviews = ReviewsWith(up[r]) /\ db'.stats = up[r].seen
        /\ db'.favorites = db.favorites /\ db'.favoritesCount = db.favoritesCount
    BY <2>3 DEF Shape, Fields
  <2>5. (\A s \in Requests : CounterJob(up[s]))'
    BY <2>3 DEF CounterInv, CounterJob, CounterOps, Idle
  <2>6. CountedRight'
    BY <2>3, <2>4 DEF CountedRight, CounterInv, CounterJob, CounterOps, FavoritesWith, Idle
  <2>7. CountersAgree'
    BY <2>1, <2>3, <2>4 DEF CountersAgree, CounterInv, CountedRight
  <2> QED
    BY <2>5, <2>6, <2>7 DEF CounterInv
<1> QED
  BY <1>1, <1>2, <1>3, <1>4, <1>6, <1>7 DEF CounterStep

\* What other services do does not touch the counters.
LEMMA CounterForeign ==
  ASSUME CounterInv, NEW r \in Requests, NEW ops, NEW things, Within(r, ops, things),
         ops \intersect CounterOps = {}, things \intersect CounterThings = {},
         \A f \in CounterFields : db'[f] = db[f]
  PROVE  CounterInv'
<1>1. /\ db'.favorites = db.favorites /\ db'.favoritesCount = db.favoritesCount
      /\ db'.reviews = db.reviews /\ db'.stats = db.stats
  BY DEF CounterFields
<1>2. \A s \in Requests : up'[s] = up[s] \/ s = r
  BY DEF Within
<1>3. up'[r].op \notin CounterOps
  BY DEF Within, CounterOps
<1>4. (\A s \in Requests : CounterJob(up[s]))'
  BY <1>2, <1>3 DEF CounterJob, CounterInv
<1>5. CountedRight'
  BY <1>1, <1>2, <1>3 DEF CountedRight, CounterInv, Within, CounterOps, FavoritesWith, ReviewsWith
<1>6. CountersAgree'
  BY <1>1 DEF CountersAgree, CounterInv, Within, CounterThings
<1> QED
  BY <1>4, <1>5, <1>6 DEF CounterInv

-----------------------------------------------------------------------------
(* The lists.                                                              *)

ListOps == {"replace", "insert", "methodStatus", "createTag", "removeTag", "dropTag"}
ListFields == {"rows", "agreed", "activeMethods", "storeCategories"}

ListJob(job) ==
  /\ job.op \in {"replace", "insert"} =>
       DOMAIN job = {"op", "on", "values", "gone"} /\ job.on \in Lists
  /\ job.op \in {"methodStatus", "createTag"} => job.on = Null
  /\ job.op \in {"removeTag", "dropTag"} => DOMAIN job = {"op", "on", "value"} /\ job.on = Null

\* A replacement that nothing has overlapped has deleted all that is there.
AllGone ==
  \A r \in Requests \ overlapped : up[r].op = "insert" => db.rows[up[r].on] \subseteq up[r].gone

ListTables == DOMAIN db.rows = Lists /\ DOMAIN db.agreed = Lists

ListInv ==
  /\ ListTables
  /\ \A r \in Requests : ListJob(up[r])
  /\ AllGone
  /\ ListsSound

\* Requests for lists keep to their tables.
LEMMA ListWithin ==
  ASSUME Shape, ListInv, NEW r \in Requests, ListStep(r)
  PROVE  Within(r, ListOps, Lists) /\ Keeps(Fields \ ListFields)
<1> USE DEF ListOps, ListFields
<1>1. ASSUME NEW job, Arrive(r, job) \/ Proceed(r, job), job.op \in ListOps
      PROVE  Within(r, ListOps, Lists) /\ Keeps(Fields \ ListFields)
  <2>1. Within(r, ListOps, Lists) /\ Keeps(Fields)
    BY <1>1, ArriveWithin
  <2> QED
    BY <2>1 DEF Keeps
<1>2. ASSUME NEW l, NEW values, Replace(r, l, values)
      PROVE  Within(r, ListOps, Lists) /\ Keeps(Fields \ ListFields)
  BY <1>1, <1>2 DEF Replace
<1>3. ASSUME NEW v, NEW active, CreateStoreCategory(r, v) \/ RemoveStoreCategory(r, v) \/ SetMethodStatus(r, v, active)
      PROVE  Within(r, ListOps, Lists) /\ Keeps(Fields \ ListFields)
  BY <1>1, <1>3 DEF CreateStoreCategory, RemoveStoreCategory, SetMethodStatus
<1>4. CASE DeleteRows(r)
  <2> DEFINE job == [up[r] EXCEPT !.op = "insert", !.gone = db.rows[up[r].on]]
  <2>1. Proceed(r, job)
    BY <1>4 DEF DeleteRows
  <2>2. job.op \in ListOps
    BY <1>4 DEF DeleteRows, ListInv, ListJob
  <2> HIDE DEF job
  <2> QED
    BY <2>1, <2>2, <1>1
<1>5. CASE InsertRows(r) \/ WriteMethodStatus(r) \/ WriteStoreCategory(r) \/ Unlink(r) \/ DropStoreCategory(r)
  <2>1. up[r].on \in Lists \union {Null}
    BY <1>5 DEF InsertRows, WriteMethodStatus, WriteStoreCategory, Unlink, DropStoreCategory, ListInv, ListJob
  <2>2. Idle.op = "idle"
    BY DEF Idle
  <2>3. ASSUME NEW tables, NEW job, CommitStep(r, tables, job, TRUE), Keeps(Fields \ ListFields),
               job.op \in ListOps \union {"idle"}
        PROVE  Within(r, ListOps, Lists) /\ Keeps(Fields \ ListFields)
    BY <2>1, <2>3, CommitWithin
  <2>4. Keeps(Fields \ ListFields)
    BY <1>5 DEF InsertRows, WriteMethodStatus, WriteStoreCategory, Unlink, DropStoreCategory,
                Commit, CommitAnd, CommitStep, Keeps, Shape, Fields
  <2>5. CASE InsertRows(r) \/ WriteMethodStatus(r) \/ WriteStoreCategory(r) \/ DropStoreCategory(r)
    BY <2>5, <2>2, <2>3, <2>4 DEF InsertRows, WriteMethodStatus, WriteStoreCategory, DropStoreCategory,
                                  Commit, CommitAnd
  <2>6. CASE Unlink(r)
    <3> DEFINE job == [up[r] EXCEPT !.op = "dropTag"]
    <3>1. job.op = "dropTag"
      BY <2>6 DEF Unlink, ListInv, ListJob
    <3> QED
      BY <2>3, <2>4, <2>6, <3>1 DEF Unlink, CommitAnd
  <2> QED
    BY <1>5, <2>5, <2>6
<1> QED
  BY <1>2, <1>3, <1>4, <1>5 DEF ListStep

\* A request of the lists goes on without writing a table.
LEMMA ListMoves ==
  ASSUME Shape, ListInv, NEW r \in Requests, NEW job,
         up' = [up EXCEPT ![r] = job], UNCHANGED <<db, overlapped, blurred>>, ListJob(job),
         job.op = "insert" => db.rows[job.on] \subseteq job.gone
  PROVE  ListInv'
<1>1. up'[r] = job /\ \A s \in Requests \ {r} : up'[s] = up[s]
  BY DEF Shape
<1>2. (\A s \in Requests : ListJob(up[s]))'
  BY <1>1 DEF ListInv
<1>3. AllGone'
  BY <1>1 DEF ListInv, AllGone
<1>4. ListsSound' /\ ListTables'
  BY DEF ListInv, ListTables, ListsSound, LastReplacementStands, KeyedListsSound
<1> QED
  BY <1>2, <1>3, <1>4 DEF ListInv

\* One that works on no list commits something that takes rows away at most.
LEMMA ListThinned ==
  ASSUME Shape, ListInv, NEW r \in Requests, NEW tables, NEW job, CommitAnd(r, tables, job),
         up[r].on = Null, ListJob(job), job.op # "insert", ListTables',
         \A l \in Lists : db'.rows[l] \subseteq db.rows[l],
         \A l \in Lists : ValuesOf(db.rows[l]) = db.agreed[l] => ValuesOf(db'.rows[l]) = db'.agreed[l],
         ValuesOf(db'.rows["tags"]) \subseteq db'.storeCategories
  PROVE  ListInv'
<1>1. /\ up' = [up EXCEPT ![r] = job] /\ blurred' = blurred
      /\ overlapped' = (overlapped \union Contenders(r)) \ {r}
  BY DEF CommitAnd, CommitStep
<1>2. up'[r] = job /\ \A s \in Requests \ {r} : up'[s] = up[s]
  BY <1>1 DEF Shape
<1>3. (\A s \in Requests : ListJob(up[s]))'
  BY <1>2 DEF ListInv
<1>4. AllGone'
  <2> SUFFICES ASSUME NEW s \in Requests \ overlapped', up'[s].op = "insert"
               PROVE  db'.rows[up'[s].on] \subseteq up'[s].gone
    BY DEF AllGone
  <2>1. s # r /\ up'[s] = up[s] /\ s \notin overlapped /\ up[s].on \in Lists
    BY <1>1, <1>2 DEF ListInv, ListJob
  <2> QED
    BY <2>1 DEF ListInv, AllGone
<1>5. LastReplacementStands'
  BY <1>1 DEF ListInv, ListsSound, LastReplacementStands
<1>6. KeyedListsSound'
  BY DEF ListInv, ListsSound, KeyedListsSound, Lists, Keyed
<1> QED
  BY <1>3, <1>4, <1>5, <1>6 DEF ListInv, ListsSound

\* A replacement leaves its list with the rows asked for.
LEMMA ListReplaced ==
  ASSUME Shape, ListInv, NEW r \in Requests, InsertRows(r)
  PROVE  ListInv'
<1> DEFINE l == up[r].on
           rows == Kept(r) \union Inserted(r)
           tables == [db EXCEPT !.rows[l] = rows, !.agreed[l] = up[r].values]
<1>1. ListJob(up[r]) /\ up[r].op = "insert" /\ KeysHold(r) /\ Commit(r, tables)
  BY DEF InsertRows, ListInv
<1>2. l \in Lists
  BY <1>1 DEF ListJob
<1>3. l # Null
  BY <1>2, StorefrontAssumption
<1>4. /\ \A s \in Requests \ overlapped' : s # r => s \notin overlapped /\ up[s].on # l
      /\ r \in overlapped => l \in blurred'
      /\ \A t : t # l => (t \in blurred' <=> t \in blurred)
      /\ \A s \in Requests \ {r} : up'[s] = up[s]
      /\ up'[r] = Idle /\ db' = tables
  BY <1>1, <1>3, CommitOverlaps
<1>5. /\ db'.rows[l] = rows /\ db'.agreed[l] = up[r].values
      /\ \A m \in Lists \ {l} : db'.rows[m] = db.rows[m] /\ db'.agreed[m] = db.agreed[m]
      /\ db'.storeCategories = db.storeCategories
      /\ ListTables'
  BY <1>2, <1>4 DEF Shape, Fields, ListInv, ListTables
<1>6. (\A s \in Requests : ListJob(up[s]))'
  BY <1>4 DEF ListInv, ListJob, Idle
<1>7. AllGone'
  <2> SUFFICES ASSUME NEW s \in Requests \ overlapped', up'[s].op = "insert"
               PROVE  db'.rows[up'[s].on] \subseteq up'[s].gone
    BY DEF AllGone
  <2>1. s # r /\ up'[s] = up[s] /\ s \notin overlapped /\ up[s].on \in Lists \ {l}
    BY <1>4 DEF ListInv, ListJob, Idle
  <2> QED
    BY <1>5, <2>1 DEF ListInv, AllGone
<1>8. LastReplacementStands'
  <2>1. ASSUME NEW m \in Lists \ {l}, m \notin blurred'
        PROVE  /\ ValuesOf(db'.rows[m]) = db'.agreed[m]
               /\ \A a, b \in db'.rows[m] : a.of = b.of
    BY <1>4, <1>5, <2>1 DEF ListInv, ListsSound, LastReplacementStands
  <2>2. ASSUME l \notin blurred'
        PROVE  /\ ValuesOf(db'.rows[l]) = db'.agreed[l]
               /\ \A a, b \in db'.rows[l] : a.of = b.of
    <3>1. Kept(r) = {}
      BY <1>1, <1>4, <2>2 DEF ListInv, AllGone, Kept
    <3>2. db'.rows[l] = Inserted(r)
      BY <1>5, <3>1
    <3>3. \A a \in Inserted(r) : a.of = NextInsertion(l)
      BY DEF Inserted, Row
    <3>4. ValuesOf(Inserted(r)) = up[r].values
      <4>1. PICK of : Inserted(r) = {Row(of, v) : v \in up[r].values}
        BY DEF Inserted
      <4>2. \A v : Row(of, v).value = v
        BY DEF Row
      <4> QED
        BY <4>1, <4>2 DEF ValuesOf
    <3> QED
      BY <1>5, <3>2, <3>3, <3>4
  <2> QED
    BY <2>1, <2>2 DEF LastReplacementStands
<1>9. KeyedListsSound'
  <2>1. ASSUME NEW m \in Keyed, NEW a \in db'.rows[m], NEW b \in db'.rows[m], a.value = b.value
        PROVE  a = b
    <3>1. CASE m # l
      BY <1>5, <2>1, <3>1 DEF ListInv, ListsSound, KeyedListsSound, Keyed, Lists
    <3>2. CASE m = l
      <4>1. a \in rows /\ b \in rows
        BY <1>5, <3>2
      <4>2. ASSUME NEW c \in Kept(r)
            PROVE  c \in db.rows[l] /\ c.value \notin up[r].values
        BY <1>1, <3>2 DEF KeysHold, ValuesOf, Kept
      <4>3. ASSUME NEW c \in Inserted(r)
            PROVE  c = Row(NextInsertion(l), c.value) /\ c.value \in up[r].values
        BY DEF Inserted, Row
      <4> HIDE DEF rows
      <4>4. CASE a \in Kept(r) /\ b \in Kept(r)
        BY <4>4, <4>2, <2>1, <3>2 DEF ListInv, ListsSound, KeyedListsSound
      <4>5. CASE a \in Inserted(r) /\ b \in Inserted(r)
        BY <4>5, <4>3, <2>1
      <4> QED
        BY <4>1, <4>2, <4>3, <4>4, <4>5, <2>1 DEF rows
    <3> QED
      BY <3>1, <3>2
  <2>2. ValuesOf(db'.rows["tags"]) \subseteq db'.storeCategories
    <3>1. CASE l # "tags"
      BY <1>5, <3>1 DEF ListInv, ListsSound, KeyedListsSound, Lists
    <3>2. CASE l = "tags"
      <4>1. up[r].values \subseteq db.storeCategories /\ db'.rows["tags"] = rows
        BY <1>1, <1>5, <3>2 DEF KeysHold
      <4>2. ValuesOf(db.rows["tags"]) \subseteq db.storeCategories
        BY DEF ListInv, ListsSound, KeyedListsSound
      <4> QED
        BY <1>5, <4>1, <4>2, <3>2 DEF ValuesOf, Kept, Inserted, Row
    <3> QED
      BY <3>1, <3>2
  <2> QED
    BY <2>1, <2>2 DEF KeyedListsSound
<1> QED
  BY <1>5, <1>6, <1>7, <1>8, <1>9 DEF ListInv, ListsSound

\* Requests for lists keep what is said of them.
LEMMA ListOwn ==
  ASSUME Shape, ListInv, NEW r \in Requests, ListStep(r)
  PROVE  ListInv'
<1>1. ASSUME NEW l \in Lists, NEW values, Replace(r, l, values)
      PROVE  ListInv'
  BY <1>1, ListMoves DEF Replace, Arrive, ListJob
<1>2. ASSUME NEW v, NEW active, CreateStoreCategory(r, v) \/ RemoveStoreCategory(r, v) \/ SetMethodStatus(r, v, active)
      PROVE  ListInv'
  BY <1>2, ListMoves DEF CreateStoreCategory, RemoveStoreCategory, SetMethodStatus, Arrive, ListJob
<1>3. CASE DeleteRows(r)
  <2> DEFINE job == [up[r] EXCEPT !.op = "insert", !.gone = db.rows[up[r].on]]
  <2>1. up' = [up EXCEPT ![r] = job] /\ UNCHANGED <<db, overlapped, blurred>>
    BY <1>3 DEF DeleteRows, Proceed
  <2>2. ListJob(up[r]) /\ up[r].op = "replace"
    BY <1>3 DEF DeleteRows, ListInv
  <2>3. ListJob(job) /\ db.rows[job.on] \subseteq job.gone
    BY <2>2 DEF ListJob
  <2> HIDE DEF job
  <2> QED
    BY <2>1, <2>3, ListMoves
<1>4. CASE InsertRows(r)
  BY <1>4, ListReplaced
<1>5. ValuesOf(db.rows["tags"]) \subseteq db.storeCategories
  BY DEF ListInv, ListsSound, KeyedListsSound
<1>6. ListJob(Idle) /\ Idle.op # "insert"
  BY DEF ListJob, Idle
<1>7. CASE WriteMethodStatus(r)
  <2> DEFINE tables == [db EXCEPT !.activeMethods =
                          IF up[r].active THEN @ \union {up[r].value} ELSE @ \ {up[r].value}]
  <2>1. up[r].on = Null /\ CommitAnd(r, tables, Idle) /\ db' = tables
    BY <1>7 DEF WriteMethodStatus, ListInv, ListJob, Commit, CommitAnd, CommitStep
  <2>2. db'.rows = db.rows /\ db'.agreed = db.agreed /\ db'.storeCategories = db.storeCategories
    BY <2>1 DEF Shape, Fields
  <2> QED
    BY <1>5, <1>6, <2>1, <2>2, ListThinned DEF ListInv, ListTables
<1>8. CASE WriteStoreCategory(r)
  <2> DEFINE tables == [db EXCEPT !.storeCategories = @ \union {up[r].value}]
  <2>1. up[r].on = Null /\ CommitAnd(r, tables, Idle) /\ db' = tables
    BY <1>8 DEF WriteStoreCategory, ListInv, ListJob, Commit, CommitAnd, CommitStep
  <2>2. db'.rows = db.rows /\ db'.agreed = db.agreed /\ db.storeCategories \subseteq db'.storeCategories
    BY <2>1 DEF Shape, Fields
  <2> QED
    BY <1>5, <1>6, <2>1, <2>2, ListThinned DEF ListInv, ListTables
<1>9. CASE DropStoreCategory(r)
  <2> DEFINE tables == [db EXCEPT !.storeCategories = @ \ {up[r].value}]
  <2>1. up[r].on = Null /\ CommitAnd(r, tables, Idle) /\ db' = tables
    BY <1>9 DEF DropStoreCategory, ListInv, ListJob, Commit, CommitAnd, CommitStep
  <2>2. /\ db'.rows = db.rows /\ db'.agreed = db.agreed
        /\ db'.storeCategories = db.storeCategories \ {up[r].value}
    BY <2>1 DEF Shape, Fields
  <2>3. up[r].value \notin ValuesOf(db.rows["tags"])
    BY <1>9 DEF DropStoreCategory
  <2> QED
    BY <1>5, <1>6, <2>1, <2>2, <2>3, ListThinned DEF ListInv, ListTables
<1>10. CASE Unlink(r)
  <2> DEFINE v == up[r].value
             job == [up[r] EXCEPT !.op = "dropTag"]
             tables == [db EXCEPT !.rows["tags"] = {row \in @ : row.value # v},
                                  !.agreed["tags"] = @ \ {v}]
  <2>1. /\ ListJob(up[r]) /\ up[r].op = "removeTag"
        /\ CommitAnd(r, tables, job) /\ db' = tables
    BY <1>10 DEF Unlink, ListInv, CommitAnd, CommitStep
  <2>2. up[r].on = Null /\ ListJob(job) /\ job.op = "dropTag"
    BY <2>1 DEF ListJob
  <2>3. /\ db'.rows["tags"] = {row \in db.rows["tags"] : row.value # v}
        /\ db'.agreed["tags"] = db.agreed["tags"] \ {v}
        /\ \A m \in Lists \ {"tags"} : db'.rows[m] = db.rows[m] /\ db'.agreed[m] = db.agreed[m]
        /\ db'.storeCategories = db.storeCategories
        /\ ListTables'
    BY <2>1 DEF Shape, Fields, ListInv, ListTables, Lists
  <2>4. ValuesOf(db'.rows["tags"]) = ValuesOf(db.rows["tags"]) \ {v}
    BY <2>3 DEF ValuesOf
  <2>5. \A l \in Lists : db'.rows[l] \subseteq db.rows[l]
    BY <2>3
  <2>6. \A l \in Lists : ValuesOf(db.rows[l]) = db.agreed[l] => ValuesOf(db'.rows[l]) = db'.agreed[l]
    BY <2>3, <2>4
  <2> HIDE DEF job, tables
  <2> QED
    BY <1>5, <2>1, <2>2, <2>3, <2>4, <2>5, <2>6, ListThinned
<1> QED
  BY <1>1, <1>2, <1>3, <1>4, <1>7, <1>8, <1>9, <1>10 DEF ListStep

\* What other services do does not touch the lists.
LEMMA ListForeign ==
  ASSUME ListInv, NEW r \in Requests, NEW ops, NEW things, Within(r, ops, things),
         ops \intersect ListOps = {}, things \intersect Lists = {},
         \A f \in ListFields : db'[f] = db[f]
  PROVE  ListInv'
<1>1. /\ db'.rows = db.rows /\ db'.agreed = db.agreed
      /\ db'.storeCategories = db.storeCategories
  BY DEF ListFields
<1>2. \A s \in Requests : up'[s] = up[s] \/ s = r
  BY DEF Within
<1>3. up'[r].op \notin ListOps
  BY DEF Within, ListOps
<1>4. (\A s \in Requests : ListJob(up[s]))'
  BY <1>2, <1>3 DEF ListJob, ListInv, ListOps
<1>5. AllGone'
  BY <1>1, <1>2, <1>3 DEF AllGone, ListInv, Within, ListOps
<1>6. LastReplacementStands'
  BY <1>1 DEF LastReplacementStands, ListsSound, ListInv, Within
<1>7. ListTables' /\ KeyedListsSound'
  BY <1>1 DEF KeyedListsSound, ListsSound, ListInv, ListTables
<1> QED
  BY <1>4, <1>5, <1>6, <1>7 DEF ListInv, ListsSound

-----------------------------------------------------------------------------
(* The menu.                                                               *)

MenuOps == {"createCategory", "removeCategory", "createItem", "updateItem", "removeItem", "order"}
MenuFields == {"categories", "items", "sold", "used"}
ItemRows == [category : Categories \union {Null}, asked : Categories \union {Null}, options : BOOLEAN]

MenuJob(job) ==
  /\ job.op \in {"createCategory", "removeItem", "order"} => job.on = Null
  /\ job.op \in {"createCategory", "removeCategory"} => job.category \in Categories
  /\ job.op = "removeCategory" => job.on = job.category
  /\ job.op \in {"createItem", "updateItem", "removeItem", "order"} => job.item \in Items
  /\ job.op = "createItem" =>
       /\ job.category \in Categories \union {Null} /\ job.on = job.category
       /\ job.category # Null => MenuOf[job.category] = MenuOf[job.item]
  /\ job.op = "updateItem" =>
       /\ job.move \in Categories \union {Null, "stay"} /\ job.options \in BOOLEAN
       /\ job.on = IF job.move \in Categories THEN job.move ELSE Null
       /\ job.move \in Categories => MenuOf[job.move] = MenuOf[job.item]

MenuShape ==
  /\ db.items \in [Items -> ItemRows \union {Null}]
  /\ db.categories \subseteq Categories /\ db.categories \subseteq db.used
  /\ db.sold \subseteq Items

\* A removal that nothing has overlapped takes no item out of its category.
CountedEmpty ==
  \A r \in Requests \ overlapped : up[r].op = "removeCategory" => FiledUnder(up[r].category) = {}

\* What ItemsFiledAsAsked says of an item, and more: the category that an item has
\* lost never comes back, so nothing can be filed under it again.
Filed(i, row) ==
  /\ row.category # Null => row.category \in db.categories /\ MenuOf[row.category] = MenuOf[i]
  /\ \/ row.category = row.asked
     \/ row.category = Null /\ row.asked \in (blurred \intersect db.used) \ db.categories

AllFiled == \A i \in Items : Exists(i) => Filed(i, db.items[i])

MenuInv ==
  /\ MenuShape
  /\ \A r \in Requests : MenuJob(up[r])
  /\ CountedEmpty
  /\ AllFiled
  /\ SoldItemsStay

\* What is known of the menu makes it sound.
LEMMA MenuInvSound == MenuInv => MenuSound
BY DEF MenuInv, MenuSound, AllFiled, Filed, ItemsFiledAsAsked

\* Requests for the menu keep to their tables.
LEMMA MenuWithin ==
  ASSUME Shape, MenuInv, NEW r \in Requests, MenuStep(r)
  PROVE  Within(r, MenuOps, Categories) /\ Keeps(Fields \ MenuFields) /\ db.used \subseteq db'.used
<1> USE DEF MenuOps, MenuFields
<1>1. ASSUME NEW job, Arrive(r, job), job.op \in MenuOps
      PROVE  Within(r, MenuOps, Categories) /\ Keeps(Fields \ MenuFields) /\ db.used \subseteq db'.used
  <2>1. Within(r, MenuOps, Categories) /\ Keeps(Fields)
    BY <1>1, ArriveWithin
  <2> QED
    BY <2>1 DEF Keeps, Fields
<1>2. ASSUME NEW c, CreateCategory(r, c) \/ RemoveCategory(r, c)
      PROVE  Within(r, MenuOps, Categories) /\ Keeps(Fields \ MenuFields) /\ db.used \subseteq db'.used
  BY <1>1, <1>2 DEF CreateCategory, RemoveCategory
<1>3. ASSUME NEW i, NEW c, NEW move, NEW options,
             CreateItem(r, i, c) \/ UpdateItem(r, i, move, options) \/ RemoveItem(r, i) \/ OrderItem(r, i)
      PROVE  Within(r, MenuOps, Categories) /\ Keeps(Fields \ MenuFields) /\ db.used \subseteq db'.used
  BY <1>1, <1>3 DEF CreateItem, UpdateItem, RemoveItem, OrderItem
<1>4. CASE \/ WriteCategory(r) \/ WriteCategoryGone(r)
           \/ WriteItem(r) \/ WriteItemUpdate(r) \/ WriteItemGone(r) \/ WriteOrder(r)
  <2>1. up[r].on \in Categories \union {Null}
    BY <1>4 DEF WriteCategory, WriteCategoryGone, WriteItem, WriteItemUpdate, WriteItemGone, WriteOrder,
                MenuInv, MenuJob
  <2>2. Idle.op = "idle"
    BY DEF Idle
  <2>3. ASSUME NEW tables, CommitStep(r, tables, Idle, TRUE), Keeps(Fields \ MenuFields), db.used \subseteq db'.used
        PROVE  Within(r, MenuOps, Categories) /\ Keeps(Fields \ MenuFields) /\ db.used \subseteq db'.used
    BY <2>1, <2>2, <2>3, CommitWithin
  <2>4. Keeps(Fields \ MenuFields) /\ db.used \subseteq db'.used
    <3> USE DEF Commit, CommitAnd, CommitStep, Keeps, Shape, Fields
    <3>1. CASE WriteCategory(r)
      BY <3>1 DEF WriteCategory
    <3>2. CASE WriteCategoryGone(r)
      BY <3>2 DEF WriteCategoryGone
    <3>3. CASE WriteItem(r)
      BY <3>3 DEF WriteItem
    <3>4. CASE WriteItemUpdate(r)
      BY <3>4 DEF WriteItemUpdate
    <3>5. CASE WriteItemGone(r)
      BY <3>5 DEF WriteItemGone
    <3>6. CASE WriteOrder(r)
      BY <3>6 DEF WriteOrder
    <3> QED
      BY <1>4, <3>1, <3>2, <3>3, <3>4, <3>5, <3>6
  <2> QED
    BY <1>4, <2>3, <2>4 DEF WriteCategory, WriteCategoryGone, WriteItem, WriteItemUpdate, WriteItemGone,
                            WriteOrder, Commit, CommitAnd
<1> QED
  BY <1>2, <1>3, <1>4 DEF MenuStep

\* A request of the menu has passed its checks.
LEMMA MenuArrives ==
  ASSUME Shape, MenuInv, NEW r \in Requests, NEW job, Arrive(r, job), MenuJob(job),
         job.op = "removeCategory" => FiledUnder(job.category) = {}
  PROVE  MenuInv'
<1>1. UNCHANGED <<db, overlapped, blurred>> /\ up'[r] = job /\ \A s \in Requests \ {r} : up'[s] = up[s]
  BY DEF Arrive, Shape
<1>2. (\A s \in Requests : MenuJob(up[s]))'
  BY <1>1 DEF MenuInv
<1>3. \A c : FiledUnder(c)' = FiledUnder(c)
  BY <1>1 DEF FiledUnder, Exists
<1>4. CountedEmpty'
  <2> SUFFICES ASSUME NEW s \in Requests \ overlapped', up'[s].op = "removeCategory"
               PROVE  FiledUnder(up[s].category)' = {}
    BY DEF CountedEmpty
  <2> QED
    BY <1>1 DEF MenuInv, CountedEmpty, FiledUnder, Exists
<1>5. MenuShape' /\ AllFiled' /\ SoldItemsStay'
  BY <1>1 DEF MenuInv, MenuShape, AllFiled, Filed, SoldItemsStay, Exists
<1> QED
  BY <1>2, <1>4, <1>5 DEF MenuInv

\* A commit leaves removals in peace that are not of the category it files under.
LEMMA MenuCommits ==
  ASSUME Shape, MenuInv, NEW r \in Requests, NEW tables, Commit(r, tables),
         \A c \in Categories : \A i \in Items :
           c # up[r].on /\ db'.items[i] # Null /\ db'.items[i].category = c
             => db.items[i] # Null /\ db.items[i].category = c
  PROVE  /\ (\A s \in Requests : MenuJob(up[s]))'
         /\ CountedEmpty'
         /\ up[r].on # Null /\ r \in overlapped => up[r].on \in blurred'
         /\ \A t : t # up[r].on \/ up[r].on = Null => (t \in blurred' <=> t \in blurred)
<1>1. CommitStep(r, tables, Idle, TRUE)
  BY DEF Commit, CommitAnd
<1>2. /\ up' = [up EXCEPT ![r] = Idle]
      /\ overlapped' = (overlapped \union Contenders(r)) \ {r}
  BY <1>1 DEF CommitStep
<1>3. up'[r] = Idle /\ \A s \in Requests \ {r} : up'[s] = up[s]
  BY <1>2 DEF Shape
<1>4. (\A s \in Requests : MenuJob(up[s]))'
  BY <1>3 DEF MenuInv, MenuJob, Idle
<1>5. CountedEmpty'
  <2> SUFFICES ASSUME NEW s \in Requests \ overlapped', up'[s].op = "removeCategory"
               PROVE  FiledUnder(up[s].category)' = {}
    BY DEF CountedEmpty
  <2>1. s # r /\ up'[s] = up[s]
    BY <1>3 DEF Idle
  <2>2. up[s].op = "removeCategory" /\ up[s].on = up[s].category /\ up[s].category \in Categories
    BY <2>1 DEF MenuInv, MenuJob
  <2>3. up[s].category # Null
    BY <2>2, StorefrontAssumption
  <2>4. s \notin overlapped /\ up[s].category # up[r].on
    BY <1>2, <2>1, <2>2, <2>3 DEF Contenders
  <2>5. FiledUnder(up[s].category) = {}
    BY <2>2, <2>4 DEF MenuInv, CountedEmpty
  <2> QED
    BY <2>1, <2>2, <2>4, <2>5 DEF FiledUnder, Exists
<1>6. /\ up[r].on # Null /\ r \in overlapped => up[r].on \in blurred'
      /\ \A t : t # up[r].on \/ up[r].on = Null => (t \in blurred' <=> t \in blurred)
  BY <1>1 DEF CommitStep
<1> QED
  BY <1>4, <1>5, <1>6

\* A new category holds nothing and disturbs no item.
LEMMA MenuCategoryAdded ==
  ASSUME Shape, MenuInv, NEW r \in Requests, WriteCategory(r)
  PROVE  MenuInv'
<1> DEFINE c == up[r].category
           tables == [db EXCEPT !.categories = @ \union {c}, !.used = @ \union {c}]
<1>1. up[r].op = "createCategory" /\ c \notin db.used /\ Commit(r, tables) /\ db' = tables
  BY DEF WriteCategory, Fresh, Commit, CommitAnd, CommitStep
<1>2. c \in Categories /\ up[r].on = Null
  BY <1>1 DEF MenuInv, MenuJob
<1>3. /\ db'.categories = db.categories \union {c} /\ db'.used = db.used \union {c}
      /\ db'.items = db.items /\ db'.sold = db.sold
  BY <1>1 DEF Shape, Fields
<1> HIDE DEF c, tables
<1>4. /\ (\A s \in Requests : MenuJob(up[s]))' /\ CountedEmpty'
      /\ \A t : t \in blurred' <=> t \in blurred
  BY <1>1, <1>2, <1>3, MenuCommits
<1>5. MenuShape' /\ SoldItemsStay'
  BY <1>2, <1>3 DEF MenuInv, MenuShape, SoldItemsStay, Exists
<1>6. AllFiled'
  <2> SUFFICES ASSUME NEW i \in Items, db.items[i] # Null
               PROVE  Filed(i, db.items[i])'
    BY <1>3 DEF AllFiled, Exists
  <2> DEFINE row == db.items[i]
  <2>1. Filed(i, row)
    BY DEF MenuInv, AllFiled, Exists
  <2>2. row.category # Null => row.category \in db'.categories
    BY <1>3, <2>1 DEF Filed
  <2> HIDE DEF row
  <2>3. Filed(i, row)'
    BY <1>1, <1>3, <1>4, <2>1, <2>2 DEF Filed, row
  <2> QED
    BY <1>3, <2>3 DEF row
<1> QED
  BY <1>4, <1>5, <1>6 DEF MenuInv

\* The items of a category that goes are left without one.
LEMMA MenuCategoryTaken ==
  ASSUME Shape, MenuInv, NEW r \in Requests, WriteCategoryGone(r)
  PROVE  MenuInv'
<1> DEFINE c == up[r].category
           items == [i \in Items |-> IF i \in FiledUnder(c) THEN [db.items[i] EXCEPT !.category = Null]
                                     ELSE db.items[i]]
           tables == [db EXCEPT !.categories = @ \ {c}, !.items = items]
<1>1. up[r].op = "removeCategory" /\ c \in db.categories /\ Commit(r, tables) /\ db' = tables
  BY DEF WriteCategoryGone, Commit, CommitAnd, CommitStep
<1>2. c \in Categories /\ up[r].on = c /\ c \in db.used
  BY <1>1 DEF MenuInv, MenuJob, MenuShape
<1>3. c # Null
  BY <1>2, StorefrontAssumption
<1>4. /\ db'.categories = db.categories \ {c} /\ db'.used = db.used
      /\ db'.items = items /\ db'.sold = db.sold
  BY <1>1 DEF Shape, Fields
<1>5. ASSUME NEW i \in Items
      PROVE  /\ i \in FiledUnder(c) => /\ db.items[i] \in ItemRows /\ db.items[i].category = c
                                       /\ db'.items[i] = [db.items[i] EXCEPT !.category = Null]
             /\ i \notin FiledUnder(c) => /\ db'.items[i] = db.items[i]
                                          /\ db.items[i] # Null => db.items[i].category # c
  BY <1>4 DEF FiledUnder, Exists, MenuInv, MenuShape
<1> HIDE DEF items, tables
<1>6. ASSUME NEW i \in FiledUnder(c)
      PROVE  /\ db'.items[i] \in ItemRows /\ db'.items[i] # Null
             /\ db'.items[i].category = Null /\ db'.items[i].asked = db.items[i].asked
  <2>1. i \in Items
    BY DEF FiledUnder
  <2>2. db.items[i] \in ItemRows /\ db'.items[i] = [db.items[i] EXCEPT !.category = Null]
    BY <1>5, <2>1
  <2> QED
    BY <2>2, MenuAssumption DEF ItemRows
<1>7. \A d \in Categories : \A i \in Items :
        d # up[r].on /\ db'.items[i] # Null /\ db'.items[i].category = d
          => db.items[i] # Null /\ db.items[i].category = d
  <2>1. Null \notin Categories
    BY StorefrontAssumption
  <2> QED
    BY <1>5, <1>6, <2>1
<1>8. /\ (\A s \in Requests : MenuJob(up[s]))' /\ CountedEmpty'
      /\ r \in overlapped => c \in blurred'
      /\ \A t : t # c => (t \in blurred' <=> t \in blurred)
  BY <1>1, <1>2, <1>3, <1>7, MenuCommits
<1>9. MenuShape'
  <2>1. db'.items = [i \in Items |-> db'.items[i]]
    BY <1>4 DEF items
  <2>2. \A i \in Items : db'.items[i] \in ItemRows \union {Null}
    BY <1>5, <1>6 DEF MenuInv, MenuShape
  <2>3. db'.items \in [Items -> ItemRows \union {Null}]
    BY <2>1, <2>2
  <2> QED
    BY <1>4, <2>3 DEF MenuInv, MenuShape
<1>10. SoldItemsStay'
  BY <1>4, <1>5, <1>6 DEF MenuInv, MenuShape, SoldItemsStay, Exists
<1>11. AllFiled'
  <2> SUFFICES ASSUME NEW i \in Items, db'.items[i] # Null
               PROVE  Filed(i, db.items[i])'
    BY DEF AllFiled, Exists
  <2>1. CASE i \in FiledUnder(c)
    <3>1. Filed(i, db.items[i]) /\ db.items[i].category = c
      BY <2>1 DEF MenuInv, AllFiled, FiledUnder
    <3>2. db.items[i].asked = c
      BY <1>3, <3>1 DEF Filed
    <3>3. r \in overlapped
      BY <1>1, <2>1 DEF MenuInv, CountedEmpty
    <3> QED
      BY <1>2, <1>4, <1>6, <1>8, <2>1, <3>2, <3>3 DEF Filed
  <2>2. CASE i \notin FiledUnder(c)
    <3> DEFINE row == db.items[i]
    <3>1. row # Null /\ db'.items[i] = row /\ row.category # c
      BY <1>5, <2>2
    <3>2. Filed(i, row)
      BY <3>1 DEF MenuInv, AllFiled, Exists
    <3> HIDE DEF row
    <3>3. /\ row.category # Null => row.category \in db'.categories /\ MenuOf[row.category] = MenuOf[i]
          /\ \/ row.category = row.asked
             \/ row.category = Null /\ row.asked \in (blurred' \intersect db'.used) \ db'.categories
      BY <1>1, <1>4, <1>8, <3>1, <3>2 DEF Filed
    <3> QED
      BY <3>1, <3>3 DEF Filed
  <2> QED
    BY <2>1, <2>2
<1> QED
  BY <1>8, <1>9, <1>10, <1>11 DEF MenuInv

\* A row of an item is filed where the request wants it, or stays where it was.
FiledAsAsked(r, i, row) ==
  \/ row.category = row.asked /\ row.category = up[r].on
     /\ (row.category # Null => MenuOf[row.category] = MenuOf[i])
  \/ /\ up[r].on = Null /\ db.items[i] # Null
     /\ row.category = db.items[i].category /\ row.asked = db.items[i].asked

\* One item is written, filed as the request asks; the others stay as they are.
LEMMA MenuItemWritten ==
  ASSUME Shape, MenuInv, NEW r \in Requests, NEW tables, Commit(r, tables),
         up[r].on \in db.categories \union {Null},
         NEW i \in Items, NEW row \in ItemRows,
         db'.items = [db.items EXCEPT ![i] = row], db'.sold = db.sold,
         db'.categories = db.categories, db.used \subseteq db'.used,
         FiledAsAsked(r, i, row)
  PROVE  MenuInv'
<1> USE DEF FiledAsAsked
<1>1. Null \notin Categories /\ Null \notin ItemRows
  BY StorefrontAssumption, MenuAssumption DEF ItemRows
<1>2. db'.items[i] = row /\ \A j \in Items \ {i} : db'.items[j] = db.items[j]
  BY DEF MenuInv, MenuShape
<1>3. \A c \in Categories : \A j \in Items :
        c # up[r].on /\ db'.items[j] # Null /\ db'.items[j].category = c
          => db.items[j] # Null /\ db.items[j].category = c
  BY <1>1, <1>2
<1>4. /\ (\A s \in Requests : MenuJob(up[s]))'
      /\ CountedEmpty'
      /\ up[r].on # Null /\ r \in overlapped => up[r].on \in blurred'
      /\ \A t : t # up[r].on \/ up[r].on = Null => (t \in blurred' <=> t \in blurred)
  BY <1>3, MenuCommits
<1>5. MenuShape' /\ SoldItemsStay'
  BY <1>1, <1>2 DEF MenuInv, MenuShape, SoldItemsStay, Exists
<1>6. AllFiled'
  <2> SUFFICES ASSUME NEW j \in Items, db'.items[j] # Null
               PROVE  Filed(j, db.items[j])'
    BY DEF AllFiled, Exists
  <2>1. CASE j # i
    <3> DEFINE old == db.items[j]
    <3>1. old # Null /\ db'.items[j] = old
      BY <1>2, <2>1
    <3>2. Filed(j, old)
      BY <3>1 DEF MenuInv, AllFiled, Exists
    <3> HIDE DEF old
    <3>3. /\ old.category # Null => old.category \in db'.categories /\ MenuOf[old.category] = MenuOf[j]
          /\ \/ old.category = old.asked
             \/ old.category = Null /\ old.asked \in (blurred' \intersect db'.used) \ db'.categories
      BY <1>4, <3>2 DEF Filed
    <3> QED
      BY <3>1, <3>3 DEF Filed
  <2>2. CASE j = i /\ row.category = row.asked /\ row.category = up[r].on
             /\ (row.category # Null => MenuOf[row.category] = MenuOf[i])
    BY <1>2, <2>2 DEF Filed
  <2>3. CASE /\ j = i /\ up[r].on = Null /\ db.items[i] # Null
             /\ row.category = db.items[i].category /\ row.asked = db.items[i].asked
    <3>1. Filed(i, db.items[i])
      BY <2>3 DEF MenuInv, AllFiled, Exists
    <3> QED
      BY <1>2, <1>4, <2>3, <3>1 DEF Filed
  <2> QED
    BY <2>1, <2>2, <2>3
<1> QED
  BY <1>4, <1>5, <1>6 DEF MenuInv

\* Requests for the menu keep what is said of it.
LEMMA MenuOwn ==
  ASSUME Shape, MenuInv, NEW r \in Requests, MenuStep(r)
  PROVE  MenuInv'
<1>1. ASSUME NEW c \in Categories, CreateCategory(r, c) \/ RemoveCategory(r, c)
      PROVE  MenuInv'
  BY <1>1, MenuArrives DEF CreateCategory, RemoveCategory, MenuJob
<1>2. ASSUME NEW i \in Items, NEW c \in Categories \union {Null}, CreateItem(r, i, c)
      PROVE  MenuInv'
  BY <1>2, MenuArrives DEF CreateItem, ensureCategoryBelongsToRestaurant, MenuJob
<1>3. ASSUME NEW i \in Items, NEW move \in Categories \union {Null, "stay"}, NEW options \in BOOLEAN,
             UpdateItem(r, i, move, options)
      PROVE  MenuInv'
  BY <1>3, MenuArrives DEF UpdateItem, ensureCategoryBelongsToRestaurant, MenuJob
<1>4. ASSUME NEW i \in Items, RemoveItem(r, i) \/ OrderItem(r, i)
      PROVE  MenuInv'
  BY <1>4, MenuArrives DEF RemoveItem, OrderItem, MenuJob
<1>5. CASE WriteItem(r)
  <2> DEFINE job == up[r]
             row == [category |-> job.category, asked |-> job.category, options |-> FALSE]
             tables == [db EXCEPT !.items[job.item] = row, !.used = @ \union {job.item}]
  <2>1. /\ MenuJob(job) /\ job.op = "createItem" /\ CategoryThere(job.category)
        /\ Commit(r, tables) /\ db' = tables
    BY <1>5 DEF WriteItem, Commit, CommitAnd, CommitStep, MenuInv
  <2>2. /\ job.item \in Items /\ job.category \in Categories \union {Null} /\ job.on = job.category
        /\ job.category # Null => MenuOf[job.category] = MenuOf[job.item]
    BY <2>1 DEF MenuJob
  <2>3. /\ db'.items = [db.items EXCEPT ![job.item] = row] /\ db'.sold = db.sold
        /\ db'.categories = db.categories /\ db.used \subseteq db'.used
    BY <2>1 DEF Shape, Fields
  <2>4. row \in ItemRows /\ row.category = job.category /\ row.asked = job.category
    BY <2>2 DEF ItemRows
  <2>5. up[r].on \in db.categories \union {Null}
    BY <2>1, <2>2 DEF CategoryThere
  <2>6. FiledAsAsked(r, job.item, row)
    BY <2>2, <2>4 DEF FiledAsAsked
  <2>7. Commit(r, tables) /\ job.item \in Items
    BY <2>1, <2>2
  <2> HIDE DEF row, tables, job
  <2> QED
    BY <2>3, <2>4, <2>5, <2>6, <2>7, MenuItemWritten
<1>6. CASE WriteItemUpdate(r)
  <2> DEFINE job == up[r]
             old == db.items[job.item]
             row == [category |-> IF job.move = "stay" THEN old.category ELSE job.move,
                     asked |-> IF job.move = "stay" THEN old.asked ELSE job.move,
                     options |-> old.options \/ job.options]
             tables == [db EXCEPT !.items[job.item] = row]
  <2>1. /\ MenuJob(job) /\ job.op = "updateItem" /\ Exists(job.item)
        /\ job.move \in Categories => CategoryThere(job.move)
        /\ Commit(r, tables) /\ db' = tables
    BY <1>6 DEF WriteItemUpdate, Commit, CommitAnd, CommitStep, MenuInv
  <2>2. /\ job.item \in Items /\ job.move \in Categories \union {Null, "stay"}
        /\ job.on = IF job.move \in Categories THEN job.move ELSE Null
        /\ job.move \in Categories => MenuOf[job.move] = MenuOf[job.item]
        /\ job.options \in BOOLEAN
    BY <2>1 DEF MenuJob
  <2>3. /\ db'.items = [db.items EXCEPT ![job.item] = row] /\ db'.sold = db.sold
        /\ db'.categories = db.categories /\ db.used \subseteq db'.used
    BY <2>1 DEF Shape, Fields
  <2>4. old \in ItemRows
    BY <2>1, <2>2 DEF Exists, MenuInv, MenuShape
  <2>5. "stay" \notin Categories /\ Null \notin Categories
    BY MenuAssumption, StorefrontAssumption
  <2>6. up[r].on \in db.categories \union {Null}
    BY <2>1, <2>2, <2>5 DEF CategoryThere
  <2>7. db.items[job.item] # Null
    BY <2>1 DEF Exists
  <2>8. CASE job.move = "stay"
    <3>1. row \in ItemRows
      BY <2>2, <2>4, <2>8 DEF ItemRows
    <3>2. FiledAsAsked(r, job.item, row)
      BY <2>2, <2>5, <2>7, <2>8 DEF FiledAsAsked
    <3>3. Commit(r, tables) /\ job.item \in Items
      BY <2>1, <2>2
    <3> HIDE DEF row, tables, job
    <3> QED
      BY <2>3, <2>6, <3>1, <3>2, <3>3, MenuItemWritten
  <2>9. CASE job.move # "stay"
    <3>1. row \in ItemRows
      BY <2>2, <2>4, <2>9 DEF ItemRows
    <3>2. FiledAsAsked(r, job.item, row)
      BY <2>2, <2>9 DEF FiledAsAsked
    <3>3. Commit(r, tables) /\ job.item \in Items
      BY <2>1, <2>2
    <3> HIDE DEF row, tables, job
    <3> QED
      BY <2>3, <2>6, <3>1, <3>2, <3>3, MenuItemWritten
  <2> QED
    BY <2>8, <2>9
<1>7. ASSUME Commit(r, db'), up[r].on = Null, db'.categories = db.categories, db'.used = db.used,
             db'.items \in [Items -> ItemRows \union {Null}], db'.sold \subseteq Items,
             \A i \in Items : db'.items[i] # Null => db'.items[i] = db.items[i],
             \A i \in db'.sold : db'.items[i] # Null
      PROVE  MenuInv'
  <2>1. /\ (\A s \in Requests : MenuJob(up[s]))' /\ CountedEmpty'
        /\ \A t : t \in blurred' <=> t \in blurred
    BY <1>7, MenuCommits
  <2>2. MenuShape' /\ SoldItemsStay'
    BY <1>7 DEF MenuInv, MenuShape, SoldItemsStay, Exists
  <2>3. AllFiled'
    BY <1>7, <2>1 DEF MenuInv, AllFiled, Filed, Exists
  <2> QED
    BY <2>1, <2>2, <2>3 DEF MenuInv
<1>8. CASE WriteItemGone(r)
  <2> DEFINE i == up[r].item
  <2>1. /\ MenuJob(up[r]) /\ up[r].op = "removeItem" /\ i \notin db.sold
        /\ db' = [db EXCEPT !.items[i] = Null] /\ Commit(r, db')
    BY <1>8 DEF WriteItemGone, Commit, CommitAnd, CommitStep, MenuInv
  <2>2. /\ db'.items = [db.items EXCEPT ![i] = Null]
        /\ db'.categories = db.categories /\ db'.used = db.used /\ db'.sold = db.sold
    BY <2>1 DEF Shape, Fields
  <2>3. up[r].on = Null /\ i \in Items
    BY <2>1 DEF MenuJob
  <2>4. db.items \in [Items -> ItemRows \union {Null}] /\ db.sold \subseteq Items
    BY DEF MenuInv, MenuShape
  <2>5. \A j \in Items \ {i} : db'.items[j] = db.items[j]
    BY <2>2, <2>3, <2>4
  <2> QED
    BY <1>7, <2>1, <2>2, <2>3, <2>4, <2>5 DEF MenuInv, SoldItemsStay, Exists
<1>9. CASE WriteOrder(r)
  <2> DEFINE i == up[r].item
  <2>1. /\ MenuJob(up[r]) /\ up[r].op = "order" /\ db.items[i] # Null
        /\ db' = [db EXCEPT !.sold = @ \union {i}] /\ Commit(r, db')
    BY <1>9 DEF WriteOrder, Exists, Commit, CommitAnd, CommitStep, MenuInv
  <2>2. /\ db'.sold = db.sold \union {i} /\ db'.items = db.items
        /\ db'.categories = db.categories /\ db'.used = db.used
    BY <2>1 DEF Shape, Fields
  <2>3. up[r].on = Null /\ i \in Items
    BY <2>1 DEF MenuJob
  <2> QED
    BY <1>7, <2>1, <2>2, <2>3 DEF MenuInv, MenuShape, SoldItemsStay, Exists
<1> QED
  BY <1>1, <1>2, <1>3, <1>4, <1>5, <1>6, <1>8, <1>9, MenuCategoryAdded, MenuCategoryTaken DEF MenuStep

\* What other services do does not touch the menu; they may take keys of their own.
LEMMA MenuForeign ==
  ASSUME MenuInv, NEW r \in Requests, NEW ops, NEW things, Within(r, ops, things),
         ops \intersect MenuOps = {}, things \intersect Categories = {},
         \A f \in MenuFields \ {"used"} : db'[f] = db[f], db.used \subseteq db'.used
  PROVE  MenuInv'
<1>1. db'.items = db.items /\ db'.categories = db.categories /\ db'.sold = db.sold
  BY DEF MenuFields
<1>2. \A s \in Requests : up'[s] = up[s] \/ s = r
  BY DEF Within
<1>3. up'[r].op \notin MenuOps \/ up'[r].op = "idle"
  BY DEF Within, MenuOps
<1>4. (\A s \in Requests : MenuJob(up[s]))'
  BY <1>2, <1>3 DEF MenuJob, MenuInv, MenuOps
<1>5. CountedEmpty'
  <2> SUFFICES ASSUME NEW s \in Requests \ overlapped', up'[s].op = "removeCategory"
               PROVE  FiledUnder(up[s].category)' = {}
    BY DEF CountedEmpty
  <2>1. s # r /\ up'[s] = up[s] /\ s \notin overlapped
    BY <1>2, <1>3 DEF Within, MenuOps
  <2> QED
    BY <1>1, <2>1 DEF MenuInv, CountedEmpty, FiledUnder, Exists
<1>6. MenuShape' /\ SoldItemsStay'
  BY <1>1 DEF MenuInv, MenuShape, SoldItemsStay, Exists
<1>7. AllFiled'
  <2> SUFFICES ASSUME NEW i \in Items, db.items[i] # Null
               PROVE  Filed(i, db.items[i])'
    BY <1>1 DEF AllFiled, Exists
  <2> DEFINE row == db.items[i]
  <2>1. Filed(i, row) /\ row \in ItemRows
    BY DEF MenuInv, MenuShape, AllFiled, Exists
  <2> HIDE DEF row
  <2>2. row.asked \in Categories \union {Null}
    BY <2>1 DEF ItemRows
  <2>3. /\ row.category # Null => row.category \in db'.categories /\ MenuOf[row.category] = MenuOf[i]
        /\ \/ row.category = row.asked
           \/ row.category = Null /\ row.asked \in (blurred' \intersect db'.used) \ db'.categories
    BY <1>1, <2>1, <2>2 DEF Filed, Within
  <2> QED
    BY <1>1, <2>3 DEF Filed, row
<1> QED
  BY <1>4, <1>5, <1>6, <1>7 DEF MenuInv

-----------------------------------------------------------------------------
(* The delivery zones.                                                     *)

ZoneOps == {"createZone", "updateZone", "removeZone"}
ZoneFields == {"zones", "used"}
ZoneRows == [nb : Neighborhoods, min : Times, max : Times, moves : Nat]

ZoneJob(job) ==
  /\ job.op \in ZoneOps => job.zone \in Zones /\ job.on = job.zone
  /\ job.op = "createZone" => /\ job.nb \in Neighborhoods /\ job.moves \in Nat
                              /\ job.min \in Times /\ job.max \in Times /\ job.min <= job.max
  /\ job.op = "updateZone" => /\ job.nb \in Neighborhoods \union {Null} /\ job.moves \in Nat
                              /\ job.min \in Times \union {Null} /\ job.max \in Times \union {Null}

ZoneShape == db.zones \in [Zones -> ZoneRows \union {Null}]

\* A neighborhood was in the city of the restaurant when the restaurant had moved so
\* often, so it still is if the restaurant has not moved since.
Placed(nb, moves) == moves <= db.moves /\ (moves = db.moves => SameCity(nb))
HasCity == db.restaurant # Null /\ db.restaurant.city # Null

ZonesPlaced ==
  \A z \in Zones : ZoneExists(z) => HasCity /\ Placed(db.zones[z].nb, db.zones[z].moves)

RequestsPlaced ==
  \A r \in Requests :
    /\ up[r].op = "createZone" => HasCity /\ Placed(up[r].nb, up[r].moves)
    /\ up[r].op = "updateZone" => HasCity /\ (up[r].nb # Null => Placed(up[r].nb, up[r].moves))

\* A change that nothing has overlapped was compared with what the row still says.
ComparedRight ==
  \A r \in Requests \ overlapped :
    up[r].op = "updateZone" /\ ZoneExists(up[r].zone) =>
      Given(up[r].min, db.zones[up[r].zone].min) <= Given(up[r].max, db.zones[up[r].zone].max)

ServedOnce == \A y, z \in Zones : y # z /\ ZoneExists(y) /\ ZoneExists(z) => db.zones[y].nb # db.zones[z].nb

ZoneInv ==
  /\ ZoneShape
  /\ \A r \in Requests : ZoneJob(up[r])
  /\ ZonesPlaced
  /\ RequestsPlaced
  /\ ComparedRight
  /\ ServedOnce
  /\ TimesOrderedUnlessOverlapped

\* What is known of the zones makes them sound.
LEMMA ZoneInvSound == ZoneInv => ZonesSound
<1> SUFFICES ASSUME ZoneInv, NEW z \in Zones, ZoneExists(z)
             PROVE  ~Served(db.zones[z].nb, z) /\ (db.zones[z].moves = db.moves => SameCity(db.zones[z].nb))
  BY DEF ZoneInv, ZonesSound, ZonesInPlace
<1> QED
  BY DEF ZoneInv, ServedOnce, Served, ZonesPlaced, Placed

\* Requests for zones keep to their tables.
LEMMA ZoneWithin ==
  ASSUME Shape, ZoneInv, NEW r \in Requests, ZoneStep(r)
  PROVE  Within(r, ZoneOps, Zones) /\ Keeps(Fields \ ZoneFields) /\ db.used \subseteq db'.used
<1> USE DEF ZoneOps, ZoneFields
<1>1. ASSUME NEW job, Arrive(r, job), job.op \in ZoneOps
      PROVE  Within(r, ZoneOps, Zones) /\ Keeps(Fields \ ZoneFields) /\ db.used \subseteq db'.used
  <2>1. Within(r, ZoneOps, Zones) /\ Keeps(Fields)
    BY <1>1, ArriveWithin
  <2> QED
    BY <2>1 DEF Keeps, Fields
<1>2. ASSUME NEW z, NEW nb, NEW min, NEW max,
             CreateZone(r, z, nb, min, max) \/ UpdateZone(r, z, nb, min, max) \/ RemoveZone(r, z)
      PROVE  Within(r, ZoneOps, Zones) /\ Keeps(Fields \ ZoneFields) /\ db.used \subseteq db'.used
  BY <1>1, <1>2 DEF CreateZone, UpdateZone, RemoveZone
<1>3. CASE WriteZone(r) \/ WriteZoneUpdate(r) \/ WriteZoneGone(r)
  <2>1. up[r].on \in Zones \union {Null}
    BY <1>3 DEF WriteZone, WriteZoneUpdate, WriteZoneGone, ZoneInv, ZoneJob
  <2>2. Idle.op = "idle"
    BY DEF Idle
  <2>3. ASSUME NEW tables, CommitStep(r, tables, Idle, TRUE), Keeps(Fields \ ZoneFields), db.used \subseteq db'.used
        PROVE  Within(r, ZoneOps, Zones) /\ Keeps(Fields \ ZoneFields) /\ db.used \subseteq db'.used
    BY <2>1, <2>2, <2>3, CommitWithin
  <2>4. Keeps(Fields \ ZoneFields) /\ db.used \subseteq db'.used
    <3> USE DEF Commit, CommitAnd, CommitStep, Keeps, Shape, Fields
    <3>1. CASE WriteZone(r)
      BY <3>1 DEF WriteZone
    <3>2. CASE WriteZoneUpdate(r)
      BY <3>2 DEF WriteZoneUpdate
    <3>3. CASE WriteZoneGone(r)
      BY <3>3 DEF WriteZoneGone
    <3> QED
      BY <1>3, <3>1, <3>2, <3>3
  <2> QED
    BY <1>3, <2>3, <2>4 DEF WriteZone, WriteZoneUpdate, WriteZoneGone, Commit, CommitAnd
<1> QED
  BY <1>2, <1>3 DEF ZoneStep

\* A request of the zones has passed its checks.
LEMMA ZoneArrives ==
  ASSUME Shape, ZoneInv, NEW r \in Requests, NEW job, Arrive(r, job), ZoneJob(job),
         job.op = "createZone" => HasCity /\ Placed(job.nb, job.moves),
         job.op = "updateZone" =>
           /\ HasCity /\ (job.nb # Null => Placed(job.nb, job.moves))
           /\ Given(job.min, db.zones[job.zone].min) <= Given(job.max, db.zones[job.zone].max)
  PROVE  ZoneInv'
<1>1. UNCHANGED <<db, overlapped, blurred>> /\ up'[r] = job /\ \A s \in Requests \ {r} : up'[s] = up[s]
  BY DEF Arrive, Shape
<1>2. (\A s \in Requests : ZoneJob(up[s]))'
  BY <1>1 DEF ZoneInv
<1>3. RequestsPlaced'
  BY <1>1 DEF ZoneInv, RequestsPlaced, Placed, HasCity, SameCity
<1>4. ComparedRight'
  BY <1>1 DEF ZoneInv, ComparedRight, ZoneExists
<1>5. ZoneShape' /\ ZonesPlaced' /\ ServedOnce' /\ TimesOrderedUnlessOverlapped'
  BY <1>1 DEF ZoneInv, ZoneShape, ZonesPlaced, Placed, HasCity, SameCity, ServedOnce,
              TimesOrderedUnlessOverlapped, ZoneExists
<1> QED
  BY <1>2, <1>3, <1>4, <1>5 DEF ZoneInv

\* One zone is written or taken away; the restaurant stays where it is.
LEMMA ZoneWritten ==
  ASSUME Shape, ZoneInv, NEW r \in Requests, NEW tables, Commit(r, tables),
         NEW z \in Zones, up[r].on = z, NEW row \in ZoneRows \union {Null},
         db'.zones = [db.zones EXCEPT ![z] = row],
         db'.restaurant = db.restaurant, db'.moves = db.moves,
         row # Null => HasCity /\ Placed(row.nb, row.moves) /\ ~Served(row.nb, z),
         row # Null /\ r \notin overlapped => row.min <= row.max
  PROVE  ZoneInv'
<1>1. z # Null
  BY StorefrontAssumption
<1>2. up[r].on # Null
  BY <1>1
<1>3. /\ \A s \in Requests \ overlapped' : s # r => s \notin overlapped /\ up[s].on # up[r].on
      /\ r \in overlapped => up[r].on \in blurred'
      /\ \A t : t # up[r].on => (t \in blurred' <=> t \in blurred)
      /\ \A s \in Requests \ {r} : up'[s] = up[s]
      /\ up'[r] = Idle
  BY <1>2, CommitOverlaps
<1>4. db'.zones[z] = row /\ \A y \in Zones \ {z} : db'.zones[y] = db.zones[y]
  BY DEF ZoneInv, ZoneShape
<1>5. ZoneShape'
  BY DEF ZoneInv, ZoneShape
<1>6. (\A s \in Requests : ZoneJob(up[s]))'
  BY <1>3 DEF ZoneInv, ZoneJob, ZoneOps, Idle
<1>7. ZonesPlaced'
  BY <1>4 DEF ZoneInv, ZonesPlaced, Placed, HasCity, SameCity, ZoneExists
<1>8. RequestsPlaced'
  BY <1>3 DEF ZoneInv, RequestsPlaced, Placed, HasCity, SameCity, Idle
<1>9. ComparedRight'
  <2> SUFFICES ASSUME NEW s \in Requests \ overlapped', up'[s].op = "updateZone",
                      db'.zones[up'[s].zone] # Null
               PROVE  Given(up'[s].min, db'.zones[up'[s].zone].min)
                        <= Given(up'[s].max, db'.zones[up'[s].zone].max)
    BY DEF ComparedRight, ZoneExists, Given
  <2>1. s # r /\ up'[s] = up[s]
    BY <1>3 DEF Idle
  <2>2. s \notin overlapped /\ up[s].zone \in Zones /\ up[s].zone # z
    BY <1>3, <2>1 DEF ZoneInv, ZoneJob, ZoneOps
  <2> QED
    BY <1>4, <2>1, <2>2 DEF ZoneInv, ComparedRight, ZoneExists
<1>10. ServedOnce'
  BY <1>4 DEF ZoneInv, ServedOnce, Served, ZoneExists
<1>11. TimesOrderedUnlessOverlapped'
  BY <1>3, <1>4 DEF ZoneInv, TimesOrderedUnlessOverlapped, ZoneExists
<1> QED
  BY <1>5, <1>6, <1>7, <1>8, <1>9, <1>10, <1>11 DEF ZoneInv

\* They keep what is said of the zones.
LEMMA ZoneOwn ==
  ASSUME Shape, StatusInv, ZoneInv, NEW r \in Requests, ZoneStep(r)
  PROVE  ZoneInv'
<1>1. db.moves \in Nat
  BY DEF StatusInv, StatusTables
<1>2. ASSUME NEW z \in Zones, NEW nb \in Neighborhoods, NEW min \in Times, NEW max \in Times,
             CreateZone(r, z, nb, min, max)
      PROVE  ZoneInv'
  <2> DEFINE job == [op |-> "createZone", on |-> z, zone |-> z, nb |-> nb, min |-> min,
                     max |-> max, moves |-> db.moves]
  <2>1. Arrive(r, job) /\ HasCity /\ SameCity(nb) /\ min <= max
    BY <1>2 DEF CreateZone, HasCity, ensureMinTimeIsValid
  <2>2. ZoneJob(job) /\ job.op = "createZone" /\ job.nb = nb /\ job.moves = db.moves
    BY <1>1, <2>1 DEF ZoneJob, ZoneOps
  <2>3. Placed(nb, db.moves)
    BY <1>1, <2>1 DEF Placed
  <2> HIDE DEF job
  <2> QED
    BY <2>1, <2>2, <2>3, ZoneArrives
<1>3. ASSUME NEW z \in Zones, NEW nb \in Neighborhoods \union {Null},
             NEW min \in Times \union {Null}, NEW max \in Times \union {Null}, UpdateZone(r, z, nb, min, max)
      PROVE  ZoneInv'
  <2> DEFINE job == [op |-> "updateZone", on |-> z, zone |-> z, nb |-> nb, min |-> min,
                     max |-> max, moves |-> db.moves]
  <2>1. /\ Arrive(r, job) /\ ZoneExists(z)
        /\ Given(min, db.zones[z].min) <= Given(max, db.zones[z].max)
        /\ nb # Null => (db.restaurant.city # Null => SameCity(nb))
    BY <1>3 DEF UpdateZone, ensureMinTimeIsValid
  <2>2. HasCity
    BY <2>1 DEF ZoneInv, ZonesPlaced
  <2>3. /\ ZoneJob(job) /\ job.op = "updateZone" /\ job.nb = nb /\ job.moves = db.moves
        /\ job.zone = z /\ job.min = min /\ job.max = max
    BY <1>1 DEF ZoneJob, ZoneOps
  <2>4. nb # Null => Placed(nb, db.moves)
    BY <1>1, <2>1, <2>2 DEF Placed, HasCity
  <2> HIDE DEF job
  <2> QED
    BY <2>1, <2>2, <2>3, <2>4, ZoneArrives
<1>4. ASSUME NEW z \in Zones, RemoveZone(r, z)
      PROVE  ZoneInv'
  BY <1>4, ZoneArrives DEF RemoveZone, ZoneJob, ZoneOps
<1>5. CASE WriteZone(r)
  <2> DEFINE job == up[r]
             row == [nb |-> job.nb, min |-> job.min, max |-> job.max, moves |-> job.moves]
             tables == [db EXCEPT !.zones[job.zone] = row, !.used = @ \union {job.zone}]
  <2>1. /\ ZoneJob(job) /\ job.op = "createZone" /\ ~Served(job.nb, job.zone)
        /\ Commit(r, tables) /\ db' = tables
    BY <1>5 DEF WriteZone, Commit, CommitAnd, CommitStep, ZoneInv
  <2>2. job.zone \in Zones /\ job.on = job.zone /\ row \in ZoneRows /\ row.min <= row.max
    BY <2>1 DEF ZoneJob, ZoneOps, ZoneRows
  <2>3. HasCity /\ Placed(row.nb, row.moves) /\ row.nb = job.nb
    BY <2>1 DEF ZoneInv, RequestsPlaced
  <2>4. /\ db'.zones = [db.zones EXCEPT ![job.zone] = row]
        /\ db'.restaurant = db.restaurant /\ db'.moves = db.moves
    BY <2>1 DEF Shape, Fields
  <2> HIDE DEF row, tables
  <2> QED
    BY <2>1, <2>2, <2>3, <2>4, ZoneWritten
<1>6. CASE WriteZoneUpdate(r)
  <2> DEFINE job == up[r]
             old == db.zones[job.zone]
             row == [nb |-> Given(job.nb, old.nb), min |-> Given(job.min, old.min),
                     max |-> Given(job.max, old.max), moves |-> IF job.nb = Null THEN old.moves ELSE job.moves]
             tables == [db EXCEPT !.zones[job.zone] = row]
  <2>1. /\ ZoneJob(job) /\ job.op = "updateZone" /\ ZoneExists(job.zone)
        /\ job.nb # Null => ~Served(job.nb, job.zone)
        /\ Commit(r, tables) /\ db' = tables
    BY <1>6 DEF WriteZoneUpdate, Commit, CommitAnd, CommitStep, ZoneInv
  <2>2. /\ job.zone \in Zones /\ job.on = job.zone
        /\ job.nb \in Neighborhoods \union {Null} /\ job.moves \in Nat
        /\ job.min \in Times \union {Null} /\ job.max \in Times \union {Null}
    BY <2>1 DEF ZoneJob, ZoneOps
  <2>3. old \in ZoneRows
    BY <2>1, <2>2 DEF ZoneExists, ZoneInv, ZoneShape
  <2>4. /\ Given(job.nb, old.nb) \in Neighborhoods
        /\ Given(job.min, old.min) \in Times /\ Given(job.max, old.max) \in Times
        /\ (IF job.nb = Null THEN old.moves ELSE job.moves) \in Nat
    BY <2>2, <2>3 DEF ZoneRows, Given
  <2>5. row \in ZoneRows
    BY <2>4 DEF ZoneRows
  <2>6. ~Served(row.nb, job.zone)
    BY <2>1, <2>2, SMTT(30) DEF Given, ZoneInv, ServedOnce, Served, ZoneExists
  <2>7. HasCity /\ Placed(row.nb, row.moves)
    BY <2>1, <2>2, SMTT(30) DEF Given, ZoneInv, ZonesPlaced, RequestsPlaced
  <2>8. r \notin overlapped => row.min <= row.max
    BY <2>1 DEF ZoneInv, ComparedRight
  <2>9. /\ db'.zones = [db.zones EXCEPT ![job.zone] = row]
        /\ db'.restaurant = db.restaurant /\ db'.moves = db.moves
    BY <2>1 DEF Shape, Fields
  <2> HIDE DEF row, tables
  <2> QED
    BY <2>1, <2>2, <2>5, <2>6, <2>7, <2>8, <2>9, ZoneWritten
<1>7. CASE WriteZoneGone(r)
  <2> DEFINE tables == [db EXCEPT !.zones[up[r].zone] = Null]
  <2>1. ZoneJob(up[r]) /\ up[r].op = "removeZone" /\ Commit(r, tables) /\ db' = tables
    BY <1>7 DEF WriteZoneGone, Commit, CommitAnd, CommitStep, ZoneInv
  <2>2. up[r].zone \in Zones /\ up[r].on = up[r].zone
    BY <2>1 DEF ZoneJob, ZoneOps
  <2>3. /\ db'.zones = [db.zones EXCEPT ![up[r].zone] = Null]
        /\ db'.restaurant = db.restaurant /\ db'.moves = db.moves
    BY <2>1 DEF Shape, Fields
  <2> HIDE DEF tables
  <2> QED
    BY <2>1, <2>2, <2>3, ZoneWritten
<1> QED
  BY <1>2, <1>3, <1>4, <1>5, <1>6, <1>7 DEF ZoneStep

\* A restaurant with a city keeps one, and it is the same while its moves are the same.
LEMMA CityStays ==
  ASSUME Shape, StatusInv, NEW r \in Requests, StatusStep(r)
  PROVE  /\ db.moves <= db'.moves
         /\ HasCity => HasCity' /\ (db'.moves = db.moves => db'.restaurant.city = db.restaurant.city)
<1>1. db.moves \in Nat /\ db.restaurant \in RestaurantRows \union {Null}
  BY DEF StatusInv, StatusTables
<1>2. ASSUME UNCHANGED db
      PROVE  /\ db.moves <= db'.moves
             /\ HasCity => HasCity' /\ (db'.moves = db.moves => db'.restaurant.city = db.restaurant.city)
  BY <1>1, <1>2 DEF HasCity
<1>3. CASE WriteNew(r)
  <2>1. ~HasCity
    BY <1>3 DEF WriteNew, HasCity
  <2>2. db'.moves = db.moves
    BY <1>3 DEF WriteNew, Commit, CommitAnd, CommitStep, Shape, Fields
  <2> QED
    BY <1>1, <2>1, <2>2
<1>4. CASE WriteStatus(r)
  <2> DEFINE job == up[r]
             old == db.restaurant
             row == [old EXCEPT !.active = job.active, !.by = job.who,
                                !.forced = IF job.who = "admin" THEN ~job.active ELSE old.forced]
  <2>1. db' = [db EXCEPT !.restaurant = row] /\ StatusJob(job) /\ job.op = "updateStatus" /\ old # Null
    BY <1>4 DEF WriteStatus, Commit, CommitAnd, CommitStep, StatusInv, StatusTables
  <2>2. old \in RestaurantRows
    BY <1>1, <2>1
  <2>3. row \in RestaurantRows /\ row.city = old.city
    BY <2>1, <2>2 DEF StatusJob, RestaurantRows
  <2> HIDE DEF row
  <2>4. db'.restaurant = row /\ db'.moves = db.moves
    BY <2>1 DEF Shape, Fields
  <2> QED
    BY <1>1, <2>3, <2>4, RowsAreNotNull DEF HasCity
<1>5. CASE WriteOwnerGone(r)
  <2> DEFINE old == db.restaurant
             row == IF old = Null THEN Null ELSE [old EXCEPT !.active = FALSE, !.by = "owner"]
  <2>1. db' = [db EXCEPT !.ownerGone = TRUE, !.restaurant = row]
    BY <1>5 DEF WriteOwnerGone, Commit, CommitAnd, CommitStep
  <2>2. old # Null => row \in RestaurantRows /\ row.city = old.city
    BY <1>1 DEF RestaurantRows
  <2> HIDE DEF row
  <2>3. db'.restaurant = row /\ db'.moves = db.moves
    BY <2>1 DEF Shape, Fields
  <2> QED
    BY <1>1, <2>2, <2>3, RowsAreNotNull DEF HasCity
<1>6. CASE WriteUpdate(r)
  <2> DEFINE job == up[r]
             old == db.restaurant
             row == [old EXCEPT !.active = Given(job.active, old.active),
                                !.city = Given(job.city, old.city),
                                !.by = IF job.active = Null THEN old.by ELSE job.who]
             moves == IF Given(job.city, old.city) = old.city THEN db.moves ELSE db.moves + 1
  <2>1. /\ db' = [db EXCEPT !.restaurant = row, !.moves = moves]
        /\ StatusJob(job) /\ job.op = "update" /\ old # Null
    BY <1>6 DEF WriteUpdate, Commit, CommitAnd, CommitStep, StatusInv, StatusTables
  <2>2. old \in RestaurantRows /\ job.city \in Cities \union {Null}
    BY <1>1, <2>1 DEF StatusJob
  <2>3. /\ Given(job.active, old.active) \in BOOLEAN
        /\ Given(job.city, old.city) \in Cities \union {Null}
        /\ (IF job.active = Null THEN old.by ELSE job.who) \in {"owner", "admin"}
    BY <2>1, <2>2 DEF StatusJob, RestaurantRows, Given
  <2>4. row \in RestaurantRows /\ row.city = Given(job.city, old.city)
    BY <2>2, <2>3 DEF RestaurantRows
  <2>5. db.moves <= moves /\ (moves = db.moves => row.city = old.city)
    BY <1>1, <2>4
  <2>6. old.city # Null => row.city # Null
    BY <2>4 DEF Given
  <2> HIDE DEF row, moves
  <2>7. db'.restaurant = row /\ db'.moves = moves
    BY <2>1 DEF Shape, Fields
  <2> QED
    BY <2>4, <2>5, <2>6, <2>7, RowsAreNotNull DEF HasCity
<1>7. \/ UNCHANGED db
      \/ WriteNew(r) \/ WriteUpdate(r) \/ WriteStatus(r) \/ WriteOwnerGone(r)
  BY DEF StatusStep, Create, UpdateStatus, Update, DeleteOwner, Arrive
<1> QED
  BY <1>2, <1>3, <1>4, <1>5, <1>6, <1>7

\* What other services do does not touch the zones, though the restaurant may move.
LEMMA ZoneForeign ==
  ASSUME ZoneInv, NEW r \in Requests, NEW ops, NEW things, Within(r, ops, things),
         ops \intersect ZoneOps = {}, things \intersect Zones = {},
         db'.zones = db.zones, db.moves \in Nat, db'.moves \in Nat, db.moves <= db'.moves,
         HasCity => HasCity' /\ (db'.moves = db.moves => db'.restaurant.city = db.restaurant.city)
  PROVE  ZoneInv'
<1>1. \A s \in Requests : up'[s] = up[s] \/ s = r
  BY DEF Within
<1>2. up'[r].op \notin ZoneOps
  BY DEF Within, ZoneOps
<1>3. ASSUME HasCity, NEW nb, NEW moves \in Nat, Placed(nb, moves)
      PROVE  HasCity' /\ Placed(nb, moves)'
  BY <1>3 DEF Placed, SameCity
<1>4. ZoneShape' /\ ServedOnce'
  BY DEF ZoneInv, ZoneShape, ServedOnce, ZoneExists
<1>5. (\A s \in Requests : ZoneJob(up[s]))'
  BY <1>1, <1>2 DEF ZoneJob, ZoneInv, ZoneOps
<1>6. ZonesPlaced'
  <2> SUFFICES ASSUME NEW z \in Zones, db.zones[z] # Null
               PROVE  HasCity' /\ Placed(db.zones[z].nb, db.zones[z].moves)'
    BY DEF ZonesPlaced, ZoneExists
  <2> DEFINE row == db.zones[z]
  <2>1. HasCity /\ Placed(row.nb, row.moves)
    BY DEF ZoneInv, ZonesPlaced, ZoneExists
  <2>2. row.moves \in Nat /\ db'.zones[z] = row
    BY DEF ZoneInv, ZoneShape, ZoneRows
  <2> QED
    BY <1>3, <2>1, <2>2 DEF Placed, SameCity
<1>7. RequestsPlaced'
  <2> SUFFICES ASSUME NEW s \in Requests
               PROVE  /\ up'[s].op = "createZone" => HasCity' /\ Placed(up[s].nb, up[s].moves)'
                      /\ up'[s].op = "updateZone" =>
                           HasCity' /\ (up'[s].nb # Null => Placed(up[s].nb, up[s].moves)')
    BY DEF RequestsPlaced
  <2>1. CASE s = r
    BY <1>2, <2>1 DEF ZoneOps
  <2>2. CASE s # r
    <3>1. up'[s] = up[s] /\ ZoneJob(up[s])
      BY <1>1, <2>2 DEF ZoneInv
    <3> QED
      BY <1>3, <3>1 DEF ZoneInv, RequestsPlaced, ZoneJob, Placed, SameCity
  <2> QED
    BY <2>1, <2>2
<1>8. ComparedRight'
  BY <1>1, <1>2 DEF ComparedRight, ZoneInv, Within, ZoneOps, ZoneExists, Given
<1>9. TimesOrderedUnlessOverlapped'
  BY DEF TimesOrderedUnlessOverlapped, ZoneInv, Within, ZoneExists
<1> QED
  BY <1>4, <1>5, <1>6, <1>7, <1>8, <1>9 DEF ZoneInv

-----------------------------------------------------------------------------
(* All services together.                                                  *)

StoreInv ==
  /\ Shape
  /\ StatusInv
  /\ CounterInv
  /\ ListInv
  /\ MenuInv
  /\ ZoneInv

\* The tables at first, one by one.
LEMMA InitialTables ==
  ASSUME NEW hours
  PROVE  LET start == StorefrontTables(hours)
         IN  /\ DOMAIN start = Fields
             /\ start.restaurant = Null /\ start.ownerGone = FALSE /\ start.moves = 0
             /\ start.favorites = {} /\ start.favoritesCount = 0
             /\ start.reviews = [o \in Orders |-> Null] /\ start.stats = [count |-> 0, average |-> 0]
             /\ start.rows = [l \in Lists |-> {}] /\ start.agreed = [l \in Lists |-> {}]
             /\ start.categories = {} /\ start.items = [i \in Items |-> Null] /\ start.sold = {}
             /\ start.zones = [z \in Zones |-> Null] /\ start.used = {}
<1> DEFINE rest == [used |-> {}, week |-> hours, now |-> [day |-> 0, hour |-> 0]]
           a == Joined(RestaurantTables, RowSetTables)
           b == Joined(MenuTables, ZoneTables)
           c == Joined(b, rest)
           d == Joined(a, c)
<1>1. /\ DOMAIN a = {"restaurant", "ownerGone", "moves", "favorites", "favoritesCount", "reviews", "stats",
                     "rows", "agreed", "activeMethods", "storeCategories"}
      /\ a.restaurant = Null /\ a.ownerGone = FALSE /\ a.moves = 0
      /\ a.favorites = {} /\ a.favoritesCount = 0
      /\ a.reviews = [o \in Orders |-> Null] /\ a.stats = [count |-> 0, average |-> 0]
      /\ a.rows = [l \in Lists |-> {}] /\ a.agreed = [l \in Lists |-> {}]
  BY DEF Joined, RestaurantTables, RowSetTables
<1>2. /\ DOMAIN b = {"categories", "items", "sold", "zones"}
      /\ b.categories = {} /\ b.items = [i \in Items |-> Null] /\ b.sold = {}
      /\ b.zones = [z \in Zones |-> Null]
  BY DEF Joined, MenuTables, ZoneTables
<1> HIDE DEF a, b
<1>3. /\ DOMAIN c = {"categories", "items", "sold", "zones", "used", "week", "now"}
      /\ c.categories = {} /\ c.items = [i \in Items |-> Null] /\ c.sold = {}
      /\ c.zones = [z \in Zones |-> Null] /\ c.used = {}
  BY <1>2 DEF Joined
<1> HIDE DEF c
<1>4. /\ DOMAIN d = Fields
      /\ \A f \in DOMAIN a : d[f] = a[f]
      /\ \A f \in DOMAIN c : d[f] = c[f]
  BY <1>1, <1>3 DEF Joined, Fields
<1>5. StorefrontTables(hours) = d
  BY DEF StorefrontTables, a, b, c
<1> HIDE DEF d
<1> QED
  BY <1>1, <1>3, <1>4, <1>5

\* Without reviews nothing is rated.
LEMMA NothingRated == RatingStats([o \in Orders |-> Null]) = [count |-> 0, average |-> 0]
<1>1. {o \in Orders : [p \in Orders |-> Null][o] # Null} = {}
  OBVIOUS
<1>2. Cardinality({}) = 0
  BY FS_EmptySet
<1> QED
  BY <1>1, <1>2 DEF RatingStats

\* There is nothing yet that could be wrong.
LEMMA StoreInit == Init => StoreInv
<1> SUFFICES ASSUME NEW hours \in Weeks, DatabaseInit(StorefrontTables(hours))
             PROVE  StoreInv
  BY DEF Init
<1>1. /\ DOMAIN db = Fields
      /\ db.restaurant = Null /\ db.ownerGone = FALSE /\ db.moves = 0
      /\ db.favorites = {} /\ db.favoritesCount = 0
      /\ db.reviews = [o \in Orders |-> Null] /\ db.stats = [count |-> 0, average |-> 0]
      /\ db.rows = [l \in Lists |-> {}] /\ db.agreed = [l \in Lists |-> {}]
      /\ db.categories = {} /\ db.items = [i \in Items |-> Null] /\ db.sold = {}
      /\ db.zones = [z \in Zones |-> Null] /\ db.used = {}
  BY InitialTables DEF DatabaseInit
<1>2. up = [r \in Requests |-> Idle] /\ overlapped = {} /\ blurred = {}
  BY DEF DatabaseInit
<1>3. Shape
  BY <1>1, <1>2 DEF Shape
<1>4. StatusInv
  <2>1. \A r \in Requests : up[r] = Idle /\ StatusJob(Idle)
    BY <1>2 DEF StatusJob, Idle
  <2>2. \A r \in Requests : up[r].op = "idle"
    BY <2>1 DEF Idle
  <2>3. db.ownerGone \in BOOLEAN
    BY <1>1, Zenon
  <2>4. StatusTables
    BY <1>1, <2>2, <2>3 DEF StatusTables
  <2>5. MayOpen
    BY <2>2 DEF MayOpen
  <2>6. StaysClosed
    BY <1>1 DEF StaysClosed
  <2> QED
    BY <2>1, <2>4, <2>5, <2>6 DEF StatusInv
<1>5. CounterInv
  <2>1. Cardinality({}) = 0
    BY FS_EmptySet
  <2> QED
    BY <1>1, <1>2, <2>1, NothingRated DEF CounterInv, CounterJob, CounterOps, CountedRight, CountersAgree, Idle
<1>6. ListInv
  BY <1>1, <1>2 DEF ListInv, ListTables, ListJob, AllGone, ListsSound, LastReplacementStands,
                    KeyedListsSound, ValuesOf, Lists, Keyed, Idle
<1>7. MenuInv
  BY <1>1, <1>2 DEF MenuInv, MenuShape, MenuJob, CountedEmpty, AllFiled, SoldItemsStay, Exists, Idle
<1>8. ZoneInv
  BY <1>1, <1>2 DEF ZoneInv, ZoneShape, ZoneJob, ZoneOps, ZonesPlaced, RequestsPlaced, ComparedRight,
                    ServedOnce, TimesOrderedUnlessOverlapped, ZoneExists, Idle
<1> QED
  BY <1>3, <1>4, <1>5, <1>6, <1>7, <1>8 DEF StoreInv

\* Nothing but the clock moves.
LEMMA StoreIdles ==
  ASSUME StoreInv, UNCHANGED <<up, overlapped, blurred>>, Keeps(Fields \ {"now"})
  PROVE  StoreInv'
<1> USE DEF StoreInv
<1>1. \A f \in Fields \ {"now"} : db'[f] = db[f]
  BY DEF Keeps
<1>2. Shape'
  BY DEF Keeps, Shape
<1>3. StatusInv'
  <2>1. db'.restaurant = db.restaurant /\ db'.ownerGone = db.ownerGone /\ db'.moves = db.moves
    BY <1>1 DEF Fields
  <2> QED
    BY <2>1 DEF StatusInv, StatusTables, StatusJob, MayOpen, StaysClosed
<1>4. CounterInv'
  <2>1. /\ db'.favorites = db.favorites /\ db'.favoritesCount = db.favoritesCount
        /\ db'.reviews = db.reviews /\ db'.stats = db.stats
    BY <1>1 DEF Fields
  <2> QED
    BY <2>1 DEF CounterInv, CounterJob, CountedRight, CountersAgree, FavoritesWith, ReviewsWith
<1>5. ListInv'
  <2>1. db'.rows = db.rows /\ db'.agreed = db.agreed /\ db'.storeCategories = db.storeCategories
    BY <1>1 DEF Fields
  <2> QED
    BY <2>1 DEF ListInv, ListTables, ListJob, AllGone, ListsSound, LastReplacementStands, KeyedListsSound
<1>6. MenuInv'
  <2>1. /\ db'.items = db.items /\ db'.categories = db.categories
        /\ db'.sold = db.sold /\ db'.used = db.used
    BY <1>1 DEF Fields
  <2>2. CountedEmpty'
    BY <2>1 DEF MenuInv, CountedEmpty, FiledUnder, Exists
  <2> QED
    BY <2>1, <2>2 DEF MenuInv, MenuShape, MenuJob, AllFiled, Filed, SoldItemsStay, Exists
<1>7. ZoneInv'
  <2>1. db'.zones = db.zones /\ db'.restaurant = db.restaurant /\ db'.moves = db.moves
    BY <1>1 DEF Fields
  <2> QED
    BY <2>1 DEF ZoneInv, ZoneShape, ZoneJob, ZonesPlaced, RequestsPlaced, ComparedRight, ServedOnce,
                TimesOrderedUnlessOverlapped, ZoneExists, Placed, HasCity, SameCity
<1> QED
  BY <1>2, <1>3, <1>4, <1>5, <1>6, <1>7

\* Each service keeps its part and leaves the tables of the others alone.
LEMMA StoreNext == StoreInv /\ [Next]_dbVars => StoreInv'
<1> SUFFICES ASSUME StoreInv, [Next]_dbVars
             PROVE  StoreInv'
  OBVIOUS
<1> USE DEF StoreInv
<1>1. /\ StatusOps \intersect (CounterOps \union ListOps \union MenuOps \union ZoneOps \union {"idle"}) = {}
      /\ CounterOps \intersect (ListOps \union MenuOps \union ZoneOps \union {"idle"}) = {}
      /\ ListOps \intersect (MenuOps \union ZoneOps \union {"idle"}) = {}
      /\ MenuOps \intersect ZoneOps = {}
  BY DEF StatusOps, CounterOps, ListOps, MenuOps, ZoneOps
<1>2. /\ {"status"} \intersect (CounterThings \union Lists \union Categories \union Zones) = {}
      /\ CounterThings \intersect (Lists \union Categories \union Zones) = {}
      /\ Lists \intersect (Categories \union Zones) = {}
      /\ Categories \intersect Zones = {}
  BY StorefrontAssumption DEF CounterThings, Lists
<1>3. ASSUME Keeps(Fields \ StatusFields)
      PROVE  /\ \A f \in CounterFields \union ListFields \union MenuFields \union ZoneFields : db'[f] = db[f]
             /\ DOMAIN db' = Fields
  BY <1>3 DEF Keeps, Fields, StatusFields, CounterFields, ListFields, MenuFields, ZoneFields
<1>4. ASSUME NEW fields \in {CounterFields, ListFields, MenuFields, ZoneFields}, Keeps(Fields \ fields)
      PROVE  \A f \in StatusFields : db'[f] = db[f]
  BY <1>4 DEF Keeps, Fields, StatusFields, CounterFields, ListFields, MenuFields, ZoneFields
<1>5. ASSUME NEW fields \in {ListFields, MenuFields, ZoneFields}, Keeps(Fields \ fields)
      PROVE  \A f \in CounterFields : db'[f] = db[f]
  BY <1>5 DEF Keeps, Fields, CounterFields, ListFields, MenuFields, ZoneFields
<1>6. ASSUME NEW fields \in {CounterFields, MenuFields, ZoneFields}, Keeps(Fields \ fields)
      PROVE  \A f \in ListFields : db'[f] = db[f]
  BY <1>6 DEF Keeps, Fields, CounterFields, ListFields, MenuFields, ZoneFields
<1>7. ASSUME NEW fields \in {CounterFields, ListFields, ZoneFields}, Keeps(Fields \ fields)
      PROVE  \A f \in MenuFields \ {"used"} : db'[f] = db[f]
  BY <1>7 DEF Keeps, Fields, CounterFields, ListFields, MenuFields, ZoneFields
<1>8. ASSUME NEW fields \in {CounterFields, ListFields, MenuFields}, Keeps(Fields \ fields)
      PROVE  db'.zones = db.zones /\ db'.restaurant = db.restaurant /\ db'.moves = db.moves
  BY <1>8 DEF Keeps, Fields, CounterFields, ListFields, MenuFields
<1>9. ASSUME NEW fields \in {StatusFields, CounterFields, ListFields}, Keeps(Fields \ fields)
      PROVE  db'.used = db.used
  BY <1>9 DEF Keeps, Fields, StatusFields, CounterFields, ListFields
<1>10. db.moves \in Nat
  BY DEF StatusInv, StatusTables
<1>11. ASSUME NEW r \in Requests, NEW ops, NEW things, Within(r, ops, things), NEW fields, Keeps(fields)
       PROVE  Shape'
  BY <1>11 DEF Shape, Within, Keeps
<1>12. ASSUME NEW r \in Requests, StatusStep(r)
       PROVE  StoreInv'
  <2>1. Within(r, StatusOps, {"status"}) /\ Keeps(Fields \ StatusFields)
    BY <1>12, StatusWithin
  <2>2. Shape' /\ StatusInv'
    BY <1>11, <1>12, <2>1, StatusOwn
  <2>3. CounterInv'
    BY <1>1, <1>2, <1>3, <2>1, CounterForeign
  <2>4. ListInv'
    BY <1>1, <1>2, <1>3, <2>1, ListForeign
  <2>5. MenuInv'
    BY <1>1, <1>2, <1>3, <1>9, <2>1, MenuForeign
  <2>6. ZoneInv'
    <3>1. db'.zones = db.zones
      BY <1>3, <2>1 DEF ZoneFields
    <3>2. db'.moves \in Nat
      BY <2>2 DEF StatusInv, StatusTables
    <3> QED
      BY <1>1, <1>2, <1>10, <1>12, <2>1, <3>1, <3>2, CityStays, ZoneForeign
  <2> QED
    BY <2>2, <2>3, <2>4, <2>5, <2>6
<1>13. ASSUME db'.restaurant = db.restaurant, db'.moves = db.moves
       PROVE  /\ db'.moves \in Nat /\ db.moves <= db'.moves
              /\ HasCity => HasCity' /\ (db'.moves = db.moves => db'.restaurant.city = db.restaurant.city)
  BY <1>10, <1>13 DEF HasCity
<1>14. ASSUME NEW r \in Requests, CounterStep(r)
       PROVE  StoreInv'
  <2>1. Within(r, CounterOps, CounterThings) /\ Keeps(Fields \ CounterFields)
    BY <1>14, CounterWithin
  <2>2. Shape' /\ CounterInv'
    BY <1>11, <1>14, <2>1, CounterOwn
  <2>3. StatusInv'
    BY <1>1, <1>2, <1>4, <2>1, StatusForeign
  <2>4. ListInv'
    BY <1>1, <1>2, <1>6, <2>1, ListForeign
  <2>5. MenuInv'
    BY <1>1, <1>2, <1>7, <1>9, <2>1, MenuForeign
  <2>6. ZoneInv'
    BY <1>1, <1>2, <1>8, <1>10, <1>13, <2>1, ZoneForeign
  <2> QED
    BY <2>2, <2>3, <2>4, <2>5, <2>6
<1>15. ASSUME NEW r \in Requests, ListStep(r)
       PROVE  StoreInv'
  <2>1. Within(r, ListOps, Lists) /\ Keeps(Fields \ ListFields)
    BY <1>15, ListWithin
  <2>2. Shape' /\ ListInv'
    BY <1>11, <1>15, <2>1, ListOwn
  <2>3. StatusInv'
    BY <1>1, <1>2, <1>4, <2>1, StatusForeign
  <2>4. CounterInv'
    BY <1>1, <1>2, <1>5, <2>1, CounterForeign
  <2>5. MenuInv'
    BY <1>1, <1>2, <1>7, <1>9, <2>1, MenuForeign
  <2>6. ZoneInv'
    BY <1>1, <1>2, <1>8, <1>10, <1>13, <2>1, ZoneForeign
  <2> QED
    BY <2>2, <2>3, <2>4, <2>5, <2>6
<1>16. ASSUME NEW r \in Requests, MenuStep(r)
       PROVE  StoreInv'
  <2>1. Within(r, MenuOps, Categories) /\ Keeps(Fields \ MenuFields)
    BY <1>16, MenuWithin
  <2>2. Shape' /\ MenuInv'
    BY <1>11, <1>16, <2>1, MenuOwn
  <2>3. StatusInv'
    BY <1>1, <1>2, <1>4, <2>1, StatusForeign
  <2>4. CounterInv'
    BY <1>1, <1>2, <1>5, <2>1, CounterForeign
  <2>5. ListInv'
    BY <1>1, <1>2, <1>6, <2>1, ListForeign
  <2>6. ZoneInv'
    BY <1>1, <1>2, <1>8, <1>10, <1>13, <2>1, ZoneForeign
  <2> QED
    BY <2>2, <2>3, <2>4, <2>5, <2>6
<1>17. ASSUME NEW r \in Requests, ZoneStep(r)
       PROVE  StoreInv'
  <2>1. Within(r, ZoneOps, Zones) /\ Keeps(Fields \ ZoneFields) /\ db.used \subseteq db'.used
    BY <1>17, ZoneWithin
  <2>2. Shape' /\ ZoneInv'
    BY <1>11, <1>17, <2>1, ZoneOwn
  <2>3. StatusInv'
    BY <1>1, <1>2, <1>4, <2>1, StatusForeign
  <2>4. CounterInv'
    BY <1>1, <1>2, <1>5, <2>1, CounterForeign
  <2>5. ListInv'
    BY <1>1, <1>2, <1>6, <2>1, ListForeign
  <2>6. MenuInv'
    BY <1>1, <1>2, <1>7, <2>1, MenuForeign
  <2> QED
    BY <2>2, <2>3, <2>4, <2>5, <2>6
<1>18. ASSUME NEW r \in Requests, Fail(r)
       PROVE  StoreInv'
  <2>1. Within(r, {}, {}) /\ Keeps(Fields)
    BY <1>18, FailWithin
  <2>2. db' = db
    BY <1>18 DEF Fail
  <2>3. Shape' /\ StatusInv' /\ CounterInv' /\ ListInv'
    BY <1>11, <2>1, <2>2, StatusForeign, CounterForeign, ListForeign
  <2>4. MenuInv'
    BY <2>1, <2>2, MenuForeign
  <2>5. ZoneInv'
    BY <1>10, <1>13, <2>1, <2>2, ZoneForeign
  <2> QED
    BY <2>3, <2>4, <2>5
<1>19. CASE TimePasses \/ UNCHANGED dbVars
  <2>1. UNCHANGED <<up, overlapped, blurred>> /\ Keeps(Fields \ {"now"})
    BY <1>19 DEF TimePasses, dbVars, Keeps, Shape
  <2> QED
    BY <2>1, StoreIdles
<1> QED
  BY <1>12, <1>14, <1>15, <1>16, <1>17, <1>18, <1>19 DEF Next

\* Whatever the requests of a storefront do at once, each service knows what its tables
\* hold: every request about what it has read, and that it is still so when nothing has
\* overlapped it.
THEOREM StoreInvariant == Spec => []StoreInv
BY StoreInit, StoreNext, PTL DEF Spec

-----------------------------------------------------------------------------
(* The opening hours.                                                      *)

Clock == [day : 0..(Days - 1), hour : 0..(HoursPerDay - 1)]
HoursInv == db.week \subseteq Slots /\ db.now \in Clock

\* The day after a day is a day.
LEMMA NextDay == \A d \in 0..(Days - 1) : (d + 1) % Days \in 0..(Days - 1)
BY HoursAssumption

\* Every day is the day after another.
LEMMA DayBefore == \A d \in 0..(Days - 1) : \E e \in 0..(Days - 1) : (e + 1) % Days = d
<1> SUFFICES ASSUME NEW d \in 0..(Days - 1)
             PROVE  \E e \in 0..(Days - 1) : (e + 1) % Days = d
  OBVIOUS
<1>1. CASE d = 0
  <2>1. (Days - 1) + 1 = Days /\ Days % Days = 0 /\ Days - 1 \in 0..(Days - 1)
    BY HoursAssumption
  <2> QED
    BY <1>1, <2>1
<1>2. CASE d # 0
  <2>1. (d - 1) + 1 = d /\ d % Days = d /\ d - 1 \in 0..(Days - 1)
    BY <1>2, HoursAssumption
  <2> QED
    BY <2>1
<1> QED
  BY <1>1, <1>2

\* The first hour of a day may be written 24 when nothing begins or ends at midnight.
LEMMA WrittenEither ==
  ASSUME NEW week \in SUBSET Slots, NEW hour \in 0..(HoursPerDay - 1),
         NEW read \in getBrazilNowParts(hour), read = HoursPerDay => ClearOfMidnight(week),
         NEW slot \in week
  PROVE  Covers(slot, read) <=> Covers(slot, hour)
<1>1. slot.open \in 0..(HoursPerDay - 1) /\ slot.close \in 0..(HoursPerDay - 1)
  BY DEF Slots
<1>2. CASE read = hour
  BY <1>2
<1>3. CASE hour = 0 /\ read = HoursPerDay
  BY <1>1, <1>3, HoursAssumption DEF Covers, Overnight, ClearOfMidnight
<1> QED
  BY <1>2, <1>3 DEF getBrazilNowParts

\* The code looks at the intervals of the day alone.  That is what the week says when no
\* interval of the day before is still running, and also if each of them is there on the
\* day before.
LEMMA HoursAgree ==
  ASSUME NEW week \in SUBSET Slots, week # {}, NEW day \in 0..(Days - 1), NEW hour \in 0..(HoursPerDay - 1),
         Daily(week) \/ ~SmallHours(week, hour)
  PROVE  getRestaurantOpeningStatus(week, day, hour) <=> OpenByWeek(week, day, hour)
<1>1. ASSUME NEW slot \in week
      PROVE  slot.day \in 0..(Days - 1) /\ slot.open \in Nat /\ slot.close \in Nat
  BY HoursAssumption DEF Slots
<1>2. hour \in Nat
  BY HoursAssumption
<1>3. CASE ~SmallHours(week, hour)
  BY <1>1, <1>2, <1>3 DEF getRestaurantOpeningStatus, OpenByWeek, Covers, SmallHours
<1>4. CASE Daily(week)
  <2>1. ASSUME NEW slot \in week, slot.day = day, Covers(slot, hour)
        PROVE  OpenByWeek(week, day, hour)
    <3>1. CASE Overnight(slot) /\ hour < slot.close
      <4>1. PICK e \in 0..(Days - 1) : (e + 1) % Days = day
        BY DayBefore
      <4> DEFINE before == [slot EXCEPT !.day = e]
      <4>2. before \in week
        BY <1>4 DEF Daily
      <4>3. before.day = e /\ before.open = slot.open /\ before.close = slot.close
        BY DEF Slots
      <4> HIDE DEF before
      <4> QED
        BY <3>1, <4>1, <4>2, <4>3 DEF OpenByWeek, Overnight
    <3>2. CASE ~(Overnight(slot) /\ hour < slot.close)
      BY <1>1, <1>2, <2>1, <3>2 DEF OpenByWeek, Covers
    <3> QED
      BY <3>1, <3>2
  <2>2. ASSUME NEW slot \in week, Overnight(slot), (slot.day + 1) % Days = day, hour < slot.close
        PROVE  getRestaurantOpeningStatus(week, day, hour)
    <3> DEFINE today == [slot EXCEPT !.day = day]
    <3>1. today \in week
      BY <1>4 DEF Daily
    <3>2. today.day = day /\ today.open = slot.open /\ today.close = slot.close
      BY DEF Slots
    <3> HIDE DEF today
    <3> QED
      BY <2>2, <3>1, <3>2 DEF getRestaurantOpeningStatus, Covers, Overnight
  <2>3. ASSUME NEW slot \in week, slot.day = day,
               IF Overnight(slot) THEN hour >= slot.open ELSE slot.open <= hour /\ hour < slot.close
        PROVE  getRestaurantOpeningStatus(week, day, hour)
    BY <1>1, <1>2, <2>3 DEF getRestaurantOpeningStatus, Covers
  <2>4. getRestaurantOpeningStatus(week, day, hour) => OpenByWeek(week, day, hour)
    BY <2>1 DEF getRestaurantOpeningStatus
  <2>5. OpenByWeek(week, day, hour) => getRestaurantOpeningStatus(week, day, hour)
    BY <2>2, <2>3 DEF OpenByWeek
  <2> QED
    BY <2>4, <2>5
<1> QED
  BY <1>3, <1>4

\* What is known of the week is all that the opening status depends on.
LEMMA HoursInvSound == HoursInv => OpenAsAdvertised
<1> SUFFICES ASSUME HoursInv, db.week # {}, Daily(db.week) \/ ~SmallHours(db.week, db.now.hour),
                    NEW read \in getBrazilNowParts(db.now.hour),
                    read = HoursPerDay => ClearOfMidnight(db.week)
             PROVE  getRestaurantOpeningStatus(db.week, db.now.day, read)
                      = OpenByWeek(db.week, db.now.day, db.now.hour)
  BY DEF OpenAsAdvertised
<1>1. \A slot \in db.week : Covers(slot, read) <=> Covers(slot, db.now.hour)
  BY WrittenEither DEF HoursInv, Clock
<1>2. db.now.day \in 0..(Days - 1) /\ db.now.hour \in 0..(HoursPerDay - 1)
  BY DEF HoursInv, Clock
<1>3. getRestaurantOpeningStatus(db.week, db.now.day, read) <=> OpenByWeek(db.week, db.now.day, db.now.hour)
  <2>1. getRestaurantOpeningStatus(db.week, db.now.day, read)
          <=> getRestaurantOpeningStatus(db.week, db.now.day, db.now.hour)
    BY <1>1 DEF getRestaurantOpeningStatus
  <2> QED
    BY <1>2, <2>1, HoursAgree DEF HoursInv
<1>4. /\ getRestaurantOpeningStatus(db.week, db.now.day, read) \in BOOLEAN
      /\ OpenByWeek(db.week, db.now.day, db.now.hour) \in BOOLEAN
  BY Zenon DEF getRestaurantOpeningStatus, OpenByWeek
<1>5. \A p, q \in BOOLEAN : (p <=> q) => p = q
  OBVIOUS
<1> QED
  BY <1>3, <1>4, <1>5, Zenon

\* Hours are replaced by intervals of a week, and time passes within it.
LEMMA HoursNext == StoreInv /\ HoursInv /\ [Next]_dbVars => HoursInv'
<1> SUFFICES ASSUME StoreInv, HoursInv, [Next]_dbVars
             PROVE  HoursInv'
  OBVIOUS
<1>1. ASSUME db'.week = db.week, db'.now = db.now
      PROVE  HoursInv'
  BY <1>1 DEF HoursInv
<1>2. ASSUME NEW r \in Requests,
             StatusStep(r) \/ CounterStep(r) \/ ListStep(r) \/ MenuStep(r) \/ ZoneStep(r) \/ Fail(r)
      PROVE  HoursInv'
  <2>1. \/ Keeps(Fields \ StatusFields) \/ Keeps(Fields \ CounterFields) \/ Keeps(Fields \ ListFields)
        \/ Keeps(Fields \ MenuFields) \/ Keeps(Fields \ ZoneFields) \/ UNCHANGED db
    BY <1>2, StatusWithin, CounterWithin, ListWithin, MenuWithin, ZoneWithin DEF StoreInv, Fail
  <2>2. db'.week = db.week /\ db'.now = db.now
    BY <2>1 DEF Keeps, Fields, StatusFields, CounterFields, ListFields, MenuFields, ZoneFields
  <2> QED
    BY <1>1, <2>2
<1>3. CASE TimePasses
  <2> DEFINE h == db.now.hour
             d == db.now.day
             later == IF h + 1 < HoursPerDay THEN [db.now EXCEPT !.hour = h + 1]
                      ELSE [day |-> (d + 1) % Days, hour |-> 0]
  <2>1. db' = [db EXCEPT !.now = later]
    BY <1>3 DEF TimePasses
  <2>2. h \in 0..(HoursPerDay - 1) /\ d \in 0..(Days - 1) /\ db.now \in Clock
    BY DEF HoursInv, Clock
  <2>3. /\ (d + 1) % Days \in 0..(Days - 1)
        /\ 0 \in 0..(HoursPerDay - 1)
        /\ h + 1 < HoursPerDay => h + 1 \in 0..(HoursPerDay - 1)
    BY <2>2, NextDay, HoursAssumption
  <2>4. later \in Clock
    BY <2>2, <2>3 DEF Clock
  <2> HIDE DEF later
  <2>5. db'.now = later /\ db'.week = db.week
    BY <2>1 DEF StoreInv, Shape, Fields
  <2> QED
    BY <2>4, <2>5 DEF HoursInv
<1>4. CASE UNCHANGED dbVars
  BY <1>1, <1>4 DEF dbVars
<1> QED
  BY <1>2, <1>3, <1>4 DEF Next

\* The week and the clock at first.
LEMMA HoursInit == Init => HoursInv
<1> SUFFICES ASSUME NEW hours \in Weeks, db = StorefrontTables(hours)
             PROVE  HoursInv
  BY DEF Init, DatabaseInit
<1> DEFINE rest == [used |-> {}, week |-> hours, now |-> [day |-> 0, hour |-> 0]]
           a == Joined(RestaurantTables, RowSetTables)
           b == Joined(MenuTables, ZoneTables)
           c == Joined(b, rest)
<1>1. "week" \notin DOMAIN a /\ "now" \notin DOMAIN a
  BY DEF Joined, RestaurantTables, RowSetTables
<1>2. "week" \notin DOMAIN b /\ "now" \notin DOMAIN b
  BY DEF Joined, MenuTables, ZoneTables
<1> HIDE DEF a, b
<1>3. c.week = hours /\ c.now = [day |-> 0, hour |-> 0] /\ "week" \in DOMAIN c /\ "now" \in DOMAIN c
  BY <1>2 DEF Joined
<1> HIDE DEF c
<1>4. db = Joined(a, c)
  BY DEF StorefrontTables, a, b, c
<1>5. db.week = hours /\ db.now = [day |-> 0, hour |-> 0]
  BY <1>1, <1>3, <1>4 DEF Joined
<1>6. 0 \in 0..(Days - 1) /\ 0 \in 0..(HoursPerDay - 1)
  BY HoursAssumption
<1> QED
  BY <1>5, <1>6, WeeksAssumption DEF HoursInv, Clock

-----------------------------------------------------------------------------
(* What the runs check of the storefront, for any number of requests.      *)

\* A restaurant that an administrator has closed, or whose owner is gone, stays closed
\* until an administrator opens it, however its status requests interleave, unless a
\* request of the owner was under way when it was closed (updateStatus, deleteMyAccount).
THEOREM StaysClosedHolds == Spec => []StaysClosed
<1>1. StoreInv => StaysClosed
  BY DEF StoreInv, StatusInv
<1> QED
  BY <1>1, StoreInvariant, PTL

\* The counter of favorites is their number, and count and average are those of the
\* reviews, after any interleaving of favorites, reviews and recounts, until a request
\* for them that another one has overlapped commits and again after one that runs alone.
THEOREM CountersAgreeHolds == Spec => []CountersAgree
<1>1. StoreInv => CountersAgree
  BY DEF StoreInv, CounterInv
<1> QED
  BY <1>1, StoreInvariant, PTL

\* A list holds exactly the rows of the request that replaced it last unless replacements
\* of it overlapped (deleteMany, then createMany); with a key it never holds a value twice
\* in any case, and no tag is of a category that is gone.
THEOREM ListsSoundHolds == Spec => []ListsSound
<1>1. StoreInv => ListsSound
  BY DEF StoreInv, ListInv
<1> QED
  BY <1>1, StoreInvariant, PTL

\* An item is filed where it was last asked to be, under a category of its restaurant
\* that exists, unless a removal of the category had counted before it came; and an item
\* that was sold is never deleted, however removals and orders interleave.
THEOREM MenuSoundHolds == Spec => []MenuSound
<1>1. StoreInv => MenuSound
  BY MenuInvSound DEF StoreInv
<1> QED
  BY <1>1, StoreInvariant, PTL

\* No neighborhood is served by two zones, a zone is in the city of its restaurant unless
\* the restaurant has moved since, and the least time of a zone is not above the greatest
\* unless two changes of it overlapped.
THEOREM ZonesSoundHolds == Spec => []ZonesSound
<1>1. StoreInv => ZonesSound
  BY ZoneInvSound DEF StoreInv
<1> QED
  BY <1>1, StoreInvariant, PTL

\* The restaurant is shown open exactly when its hours say so, for any number of intervals
\* a week and a day: at any hour if every day has the same, and otherwise when no interval
\* of the day before is still running (getRestaurantOpeningStatus looks at the intervals of
\* the day alone); the first hour of a day may be written 24 if none begins or ends then.
THEOREM OpenAsAdvertisedHolds == Spec => []OpenAsAdvertised
<1>1. Init => StoreInv /\ HoursInv
  BY StoreInit, HoursInit
<1>2. StoreInv /\ HoursInv /\ [Next]_dbVars => (StoreInv /\ HoursInv)'
  BY StoreNext, HoursNext
<1>3. StoreInv /\ HoursInv => OpenAsAdvertised
  BY HoursInvSound
<1> QED
  BY <1>1, <1>2, <1>3, PTL DEF Spec

=============================================================================
