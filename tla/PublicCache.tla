----------------------------- MODULE PublicCache -----------------------------
(***************************************************************************)
(* The public views of one restaurant and of one place that are kept in    *)
(* Redis, the requests that fill them, and the changes of the database     *)
(* that should remove them.                                                *)
(*                                                                         *)
(* A table is the set of the changes committed to it, so a cached view is  *)
(* stale when it lacks some of them.  A change commits first and deletes   *)
(* keys afterwards; a reader looks its key up, runs its queries one after  *)
(* the other, and stores what it read.                                     *)
(***************************************************************************)
EXTENDS RedisCache, Sequences

CONSTANT Requests  \* slots for requests being served at the same time

VARIABLES
  table,     \* the changes committed to each table
  up,        \* the request in each slot
  overtook,  \* ghost: changes that came and went while a stored view was loaded
  unswept    \* ghost: changes whose deletion Redis did not execute in time

vars == <<redisVars, table, up, overtook, unswept>>

-----------------------------------------------------------------------------
(* Which tables a view shows, which ones a change writes, and which keys it *)
(* deletes.                                                                 *)

\* What a restaurant is shown with; whether it is open is computed on the way.
Card == {"restaurant", "stars", "owner", "hours", "category", "tags", "payment", "clock"}

\* The tables each query of a view reads.
findActive == <<Card>>
findRestaurant == <<Card \union {"zone"}>>
findMenuItems == <<{"item", "category"}>>
findCatalog == <<{"restaurant", "stars", "zone"}, {"category", "item"}, {"item"}>>
findCategories == <<{"category", "item"}>>
findMenuItem == <<{"item", "category", "restaurant"}>>
findPublicZones == <<{"restaurant"}, {"zone"}>>
findState == <<{"city"}>>
findCity == <<{"neighborhood"}>>

Queries ==
  [list |-> findActive, detail |-> findRestaurant,
   items |-> findMenuItems, catalog |-> findCatalog, categories |-> findCategories,
   menuItem |-> findMenuItem, zones |-> findPublicZones,
   states |-> <<{"state"}>>, state |-> findState, cities |-> findState,
   city |-> findCity, neighborhoods |-> findCity]
Views == DOMAIN Queries
Tables == UNION {UNION {Queries[v][i] : i \in DOMAIN Queries[v]} : v \in Views}

\* The lists are stored per page; what gets deleted are their bare names.
Keys == Views \union {"bareLists"}

RestaurantChanges == {"updateRestaurant", "replaceOpeningHours", "upsertReview"}
MenuChanges == {"updateCategory", "updateItem"}
Unannounced == {"setPaymentMethods", "setStoreCategories", "deleteMyAccount"}
PlaceChanges == {"createState", "createCity", "createNeighborhood"}
\* The last one is no request: the time of day passes.
Changes == RestaurantChanges \union MenuChanges \union Unannounced \union PlaceChanges
           \union {"updateZone", "doorsOpen"}

Writes ==
  [updateRestaurant    |-> {"restaurant"}, replaceOpeningHours |-> {"hours"},
   upsertReview        |-> {"stars"},      updateCategory      |-> {"category"},
   updateItem          |-> {"item"},       updateZone          |-> {"zone"},
   setPaymentMethods   |-> {"payment"},    setStoreCategories  |-> {"tags"},
   deleteMyAccount     |-> {"owner", "restaurant"},
   createState         |-> {"state"},      createCity          |-> {"city"},
   createNeighborhood  |-> {"neighborhood"}, doorsOpen         |-> {"clock"}]

MenuKeys == {"items", "catalog", "categories"}
invalidateRestaurantDeliveryCache == {"detail", "zones"} \union MenuKeys
invalidateRestaurantPublicCache == {"bareLists"} \union invalidateRestaurantDeliveryCache
invalidateLocationsCache(op) ==
  CASE op = "createState" -> {"states"}
    [] op = "createCity" -> {"states", "state", "cities"}
    [] op = "createNeighborhood" -> {"states", "state", "cities", "city", "neighborhoods"}

\* A slip: the places that list a neighborhood are forgotten.
Deletes_KeepsCity(op) ==
  CASE op \in RestaurantChanges \union MenuChanges -> invalidateRestaurantPublicCache
    [] op = "updateZone" -> invalidateRestaurantDeliveryCache
    [] op \in PlaceChanges -> invalidateLocationsCache("createCity")
    [] OTHER -> {}

\* Changes of the menu delete what changes of the restaurant do; the page of an
\* item goes with changes of the item.
Deletes(op) ==
  CASE op \in RestaurantChanges \union {"updateCategory"} -> invalidateRestaurantPublicCache
    [] op = "updateItem" -> invalidateRestaurantPublicCache \union {"menuItem"}
    [] op = "updateZone" -> invalidateRestaurantDeliveryCache
    [] op \in PlaceChanges -> invalidateLocationsCache(op)
    [] OTHER -> {}

ASSUME CacheAssumption == Null \notin Changes

-----------------------------------------------------------------------------
(* The state.                                                              *)

Idle == [pc |-> "idle", proc |-> Null, op |-> Null, view |-> Null, got |-> <<>>]

Init ==
  /\ RedisInit([k \in Keys |-> Missing])
  /\ table = [t \in Tables |-> {}]
  /\ up = [r \in Requests |-> Idle]
  /\ overtook = [k \in Keys |-> {}]
  /\ unswept = {}

\* The changes that a view loaded as got does not show.
Lacks(got) ==
  {op \in Changes : \E i \in DOMAIN got : \E t \in DOMAIN got[i] : op \in table[t] \ got[i][t]}

\* The deletion of a change is still to come.
Pending(op) == \E r \in Requests : up[r].op = op

\* A view is stored: what it already lacks, and nobody is going to delete.
Overtaken(c) ==
  overtook' = [k \in Keys |->
    IF k \notin c.keys THEN overtook[k]
    ELSE IF c.op = "set" THEN {op \in Lacks(c.val) : ~Pending(op)} ELSE {}]

-----------------------------------------------------------------------------
(* Readers.                                                                *)

Enter(r, request) == up[r] = Idle /\ up' = [up EXCEPT ![r] = request]
Goto(r, pc) == up' = [up EXCEPT ![r].pc = pc]

\* A reader is done; a change that read a view goes on to its deletion.
Leave(r) == IF up[r].op = Null THEN up' = [up EXCEPT ![r] = Idle] ELSE Goto(r, "delete")

Find(r, p, v) ==
  /\ Enter(r, [Idle EXCEPT !.pc = "lookup", !.proc = p, !.view = v])
  /\ UNCHANGED <<redisVars, table, overtook, unswept>>

\* A hit ends the request; a miss, a failure or a skipped call loads the view.
Lookup(r) ==
  LET c == Command("get", {up[r].view}, Null)
      p == up[r].proc
  IN  /\ up[r].pc = "lookup"
      /\ \/ p \notin offline /\ Executed(c)
            /\ IF redis[up[r].view] # Missing THEN Leave(r) ELSE Goto(r, "load")
         \/ p \notin offline /\ Failed(p, c) /\ Goto(r, "load")
         \/ Skipped(p) /\ Goto(r, "load")
      /\ UNCHANGED <<table, overtook, unswept>>

\* A slip: a view is stored with the answer of its first query.
Load_Short(r) ==
  /\ up[r].pc = "load"
  /\ up' = [up EXCEPT ![r] = [@ EXCEPT
              !.got = <<[t \in Queries[up[r].view][1] |-> table[t]]>>, !.pc = "store"]]
  /\ UNCHANGED <<redisVars, table, overtook, unswept>>

\* The next query of the view.
Load(r) ==
  LET queries == Queries[up[r].view]
      n == Len(up[r].got) + 1
  IN  /\ up[r].pc = "load"
      /\ up' = [up EXCEPT ![r] = [@ EXCEPT
                  !.got = Append(up[r].got, [t \in queries[n] |-> table[t]]),
                  !.pc = IF n = Len(queries) THEN "store" ELSE "load"]]
      /\ UNCHANGED <<redisVars, table, overtook, unswept>>

Store(r) ==
  LET c == Command("set", {up[r].view}, up[r].got)
      p == up[r].proc
  IN  /\ up[r].pc = "store"
      /\ \/ p \notin offline /\ Executed(c) /\ Overtaken(c)
         \/ p \notin offline /\ Failed(p, c) /\ UNCHANGED overtook
         \/ Skipped(p) /\ UNCHANGED overtook
      /\ Leave(r)
      /\ UNCHANGED <<table, unswept>>

-----------------------------------------------------------------------------
(* Changes.                                                                *)

\* The change is committed.  replaceOpeningHours then reads the detail of the
\* restaurant back before it deletes anything.
Commit(r, p, op) ==
  /\ \A t \in Tables : op \notin table[t]
  /\ table' = [t \in Tables |-> IF t \in Writes[op] THEN table[t] \union {op} ELSE table[t]]
  /\ CASE Deletes(op) = {} -> up[r] = Idle /\ UNCHANGED up
       [] op = "replaceOpeningHours" ->
            Enter(r, [Idle EXCEPT !.pc = "lookup", !.proc = p, !.op = op, !.view = "detail"])
       [] OTHER -> Enter(r, [Idle EXCEPT !.pc = "delete", !.proc = p, !.op = op])
  /\ UNCHANGED <<redisVars, overtook, unswept>>

Invalidate(r) ==
  LET c == Command("del", Deletes(up[r].op), Null)
      p == up[r].proc
      op == up[r].op
  IN  /\ up[r].pc = "delete"
      /\ \/ p \notin offline /\ Executed(c) /\ Overtaken(c) /\ UNCHANGED unswept
         \/ p \notin offline /\ Failed(p, c) /\ unswept' = unswept \union {op} /\ UNCHANGED overtook
         \/ Skipped(p) /\ unswept' = unswept \union {op} /\ UNCHANGED overtook
      /\ up' = [up EXCEPT ![r] = Idle]
      /\ UNCHANGED table

-----------------------------------------------------------------------------
(* Time and failures.                                                      *)

ViewExpires(v) ==
  /\ Expire(v)
  /\ overtook' = [overtook EXCEPT ![v] = {}]
  /\ UNCHANGED <<table, up, unswept>>
BackOn(p) == Reconnect(p) /\ UNCHANGED <<table, up, overtook, unswept>>
Straggler(c) == StrayArrives(c) /\ Overtaken(c) /\ UNCHANGED <<table, up, unswept>>

\* A request stops short of its next call.
Stop(r) ==
  /\ up[r] # Idle /\ faults < MaxFaults
  /\ faults' = faults + 1
  /\ unswept' = IF up[r].op = Null THEN unswept ELSE unswept \union {up[r].op}
  /\ up' = [up EXCEPT ![r] = Idle]
  /\ UNCHANGED <<redis, offline, strays, table, overtook>>

Next ==
  \/ \E r \in Requests :
       \/ Lookup(r) \/ Load(r) \/ Store(r) \/ Invalidate(r) \/ Stop(r)
       \/ \E p \in Procs :
            \/ \E v \in Views : Find(r, p, v)
            \/ \E op \in Changes : Commit(r, p, op)
  \/ \E v \in Views : ViewExpires(v)
  \/ \E p \in Procs : BackOn(p)
  \/ \E c \in strays : Straggler(c)

Spec == Init /\ [][Next]_vars

-----------------------------------------------------------------------------
(* Properties.                                                             *)

\* What nobody deletes: lists are stored under other names than the deleted
\* ones; nothing follows a change of payment methods, tags, owner or time of
\* day; and the page of an item outlives changes of its category and restaurant.
Unnoticed(v) ==
  CASE v = "list" -> Changes
    [] v = "detail" -> {"setPaymentMethods", "setStoreCategories", "deleteMyAccount", "doorsOpen"}
    [] v \in {"catalog", "zones"} -> {"deleteMyAccount"}
    [] v = "menuItem" -> {"deleteMyAccount", "updateCategory", "updateRestaurant"}
    [] OTHER -> {}

\* A cached view expires, and shows every committed change, but for those that nobody deletes
\* it for, that are about to, whose deletion failed, or that overtook the reader
\* that stored it.
FreshUnlessKnown ==
  \A v \in Views : redis[v] # Missing =>
    /\ redis[v].ttl /\ Len(redis[v].val) = Len(Queries[v])
    /\ \A op \in Lacks(redis[v].val) :
         op \in Unnoticed(v) \union unswept \union overtook[v] \/ Pending(op)

=============================================================================
