----------------------------- MODULE Restaurants -----------------------------
(***************************************************************************)
(* One restaurant: its status, which its owner, an administrator and the   *)
(* deletion of the account of the owner write, and the counters that are   *)
(* recomputed whenever a favourite or a review changes.                    *)
(***************************************************************************)
EXTENDS Database, FiniteSetsExt

CONSTANTS
  Cities, Users,
  Orders,   \* delivered orders, each of which may be reviewed once
  Ratings,
  MaxMoves  \* bound on the changes of city

\* Neither a row nor a value of its columns is null.
ASSUME RestaurantsAssumption ==
  /\ Null \notin [active : BOOLEAN, forced : BOOLEAN, city : Cities \union {Null}, by : {"owner", "admin"}]
  /\ Null \notin BOOLEAN \union Cities \union Users

\* Tables: restaurant, ownerGone, favorites, favoritesCount, reviews, stats.
\* Ghosts: restaurant.by, who set the status last; moves, changes of city.
RestaurantTables ==
  [restaurant |-> Null, ownerGone |-> FALSE, moves |-> 0,
   favorites |-> {}, favoritesCount |-> 0,
   reviews |-> [o \in Orders |-> Null], stats |-> [count |-> 0, average |-> 0]]

Given(x, old) == IF x = Null THEN old ELSE x

-----------------------------------------------------------------------------
(* The status.                                                             *)

\* An account that is deleted is not let in; its owner may still be inside.
ensureCanManageRestaurant(who) == who = "admin" \/ ~db.ownerGone

ensureAdminForcedStatusCanBeChanged(who, active) ==
  active = TRUE /\ who # "admin" => ~db.restaurant.forced

\* A deleted owner passes: only the existence and the role are looked at.
Create(r, c) ==
  /\ db.restaurant = Null
  /\ Arrive(r, [op |-> "create", on |-> "status", city |-> c])

WriteNew(r) ==
  /\ up[r].op = "create" /\ db.restaurant = Null
  /\ Commit(r, [db EXCEPT !.restaurant =
       [active |-> TRUE, forced |-> FALSE, city |-> up[r].city, by |-> "admin"]])

\* What is left out of the request keeps its value.
Update(r, who, active, c) ==
  /\ db.restaurant # Null
  /\ ensureCanManageRestaurant(who)
  /\ ensureAdminForcedStatusCanBeChanged(who, active)
  /\ Arrive(r, [op |-> "update", on |-> IF active = Null THEN Null ELSE "status",
                who |-> who, active |-> active, city |-> c])

WriteUpdate(r) ==
  LET job == up[r]
      old == db.restaurant
  IN  /\ job.op = "update"
      /\ Commit(r, [db EXCEPT
           !.restaurant = [old EXCEPT !.active = Given(job.active, old.active),
                                      !.city = Given(job.city, old.city),
                                      !.by = IF job.active = Null THEN old.by ELSE job.who],
           !.moves = IF Given(job.city, old.city) = old.city THEN @ ELSE @ + 1])

\* A slip: the mark of the administrator is not looked at.
UpdateStatus_Unchecked(r, who, active) ==
  /\ db.restaurant # Null
  /\ ensureCanManageRestaurant(who)
  /\ Arrive(r, [op |-> "updateStatus", on |-> "status", who |-> who, active |-> active])

UpdateStatus(r, who, active) ==
  /\ db.restaurant # Null
  /\ ensureCanManageRestaurant(who)
  /\ ensureAdminForcedStatusCanBeChanged(who, active)
  /\ Arrive(r, [op |-> "updateStatus", on |-> "status", who |-> who, active |-> active])

\* Only an administrator leaves or wipes the mark.
WriteStatus(r) ==
  LET job == up[r]
      old == db.restaurant
  IN  /\ job.op = "updateStatus"
      /\ Commit(r, [db EXCEPT !.restaurant =
           [old EXCEPT !.active = job.active, !.by = job.who,
                       !.forced = IF job.who = "admin" THEN ~job.active ELSE old.forced]])

DeleteOwner(r) ==
  /\ ~db.ownerGone
  /\ Arrive(r, [op |-> "deleteMyAccount", on |-> "status"])

WriteOwnerGone(r) ==
  /\ up[r].op = "deleteMyAccount"
  /\ Commit(r, [db EXCEPT !.ownerGone = TRUE,
       !.restaurant = IF @ = Null THEN @ ELSE [@ EXCEPT !.active = FALSE, !.by = "owner"]])

-----------------------------------------------------------------------------
(* Favourites and reviews.                                                 *)

Favorite(r, u, wanted) ==
  Arrive(r, [op |-> "favorite", on |-> "favorites", row |-> u, value |-> wanted, seen |-> Null])

Review(r, o, rating) ==
  Arrive(r, [op |-> "review", on |-> "reviews", row |-> o, value |-> rating, seen |-> Null])

\* What the transaction sees: what is committed, and its own row.
FavoritesWith(job) == IF job.value THEN db.favorites \union {job.row} ELSE db.favorites \ {job.row}
ReviewsWith(job) == [db.reviews EXCEPT ![job.row] = job.value]

\* The average has two decimals: it is kept in hundredths.
RatingStats(reviews) ==
  LET rated == {o \in Orders : reviews[o] # Null}
      n == Cardinality(rated)
      sum == FoldSet(LAMBDA o, s : s + reviews[o], 0, rated)
  IN  [count |-> n, average |-> IF n = 0 THEN 0 ELSE (200 * sum + n) \div (2 * n)]

\* The same row is not written by two open transactions.
RowFree(r) == \A s \in Requests \ {r} : up[s].op \in {"favorites", "stats"} => up[s].row # up[r].row

\* The row is written and the counter computed, nothing of it committed.  A removal
\* that finds no committed row takes none and waits for nobody.
RecountFavorites(r) ==
  LET row == IF up[r].value \/ up[r].row \in db.favorites THEN up[r].row ELSE Null
      job == [up[r] EXCEPT !.op = "favorites", !.row = row]
  IN  /\ up[r].op = "favorite"
      /\ row = Null \/ RowFree(r)
      /\ Proceed(r, [job EXCEPT !.seen = Cardinality(FavoritesWith(job))])

RecountReviews(r) ==
  /\ up[r].op = "review" /\ RowFree(r)
  /\ Proceed(r, [up[r] EXCEPT !.op = "stats", !.seen = RatingStats(ReviewsWith(up[r]))])

\* A slip: the counter is put one up or down from what the row holds now.
WriteFavorites_Blind(r) ==
  /\ up[r].op = "favorites"
  /\ Commit(r, [db EXCEPT !.favorites = FavoritesWith(up[r]),
       !.favoritesCount = IF up[r].value THEN @ + 1 ELSE IF @ = 0 THEN 0 ELSE @ - 1])

\* The counter is put into the row of the restaurant, and all is committed.
WriteFavorites(r) ==
  /\ up[r].op = "favorites"
  /\ Commit(r, [db EXCEPT !.favorites = FavoritesWith(up[r]), !.favoritesCount = up[r].seen])

WriteReviews(r) ==
  /\ up[r].op = "stats"
  /\ Commit(r, [db EXCEPT !.reviews = ReviewsWith(up[r]), !.stats = up[r].seen])

StatusStep(r) ==
  \/ \E c \in Cities \union {Null} : Create(r, c)
  \/ \E who \in {"owner", "admin"} :
       \/ \E active \in BOOLEAN : UpdateStatus(r, who, active)
       \/ \E active \in BOOLEAN \union {Null}, c \in Cities \union {Null} :
            (c # Null => db.moves < MaxMoves) /\ Update(r, who, active, c)
  \/ DeleteOwner(r) \/ WriteOwnerGone(r)
  \/ WriteNew(r) \/ WriteUpdate(r) \/ WriteStatus(r)

CounterStep(r) ==
  \/ \E u \in Users, wanted \in BOOLEAN : Favorite(r, u, wanted)
  \/ \E o \in Orders, rating \in Ratings : Review(r, o, rating)
  \/ RecountFavorites(r) \/ RecountReviews(r) \/ WriteFavorites(r) \/ WriteReviews(r)

-----------------------------------------------------------------------------
(* Properties.                                                             *)

\* A restaurant that an administrator has closed, or whose owner is gone, is
\* only open again by an administrator, unless a request of the owner was under
\* way when it was closed.
StaysClosed ==
  db.restaurant # Null =>
    (db.restaurant.active /\ (db.restaurant.forced \/ db.ownerGone)
       => db.restaurant.by = "admin" \/ "status" \in blurred)

\* The counters agree with the rows until a request for them that another one has
\* overlapped commits; the next that runs alone puts them right.
CountersAgree ==
  /\ "favorites" \in blurred \/ db.favoritesCount = Cardinality(db.favorites)
  /\ "reviews" \in blurred \/ db.stats = RatingStats(db.reviews)

=============================================================================
