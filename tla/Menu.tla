-------------------------------- MODULE Menu --------------------------------
(***************************************************************************)
(* The categories and the items of the menus, as the owners of restaurants *)
(* edit them in several requests at once.                                  *)
(***************************************************************************)
EXTENDS Database, FiniteSetsExt

CONSTANTS
  Categories,  \* categories that exist or may be created
  Items,       \* items, likewise
  MenuOf       \* the restaurant of each of them

\* A row is not null, and "stay" is no category.
ASSUME MenuAssumption ==
  /\ Null \notin [category : Categories \union {Null}, asked : Categories \union {Null}, options : BOOLEAN]
  /\ "stay" \notin Categories

\* Tables: categories, and items with the category of each (or none); sold, the
\* items of committed orders.  Ghost: items[i].asked, the category last asked for.
MenuTables == [categories |-> {}, items |-> [i \in Items |-> Null], sold |-> {}]

Exists(i) == db.items[i] # Null
FiledUnder(c) == {i \in Items : Exists(i) /\ db.items[i].category = c}

-----------------------------------------------------------------------------
(* Categories.                                                             *)

CreateCategory(r, c) ==
  /\ Fresh(c)
  /\ Arrive(r, [op |-> "createCategory", on |-> Null, category |-> c])

WriteCategory(r) ==
  /\ up[r].op = "createCategory" /\ Fresh(up[r].category)
  /\ Commit(r, [db EXCEPT !.categories = @ \union {up[r].category}, !.used = @ \union {up[r].category}])

\* The items of the category are counted, then it is deleted.
RemoveCategory(r, c) ==
  /\ c \in db.categories
  /\ FiledUnder(c) = {}
  /\ Arrive(r, [op |-> "removeCategory", on |-> c, category |-> c])

\* ON DELETE SET NULL: items filed under it meanwhile lose their category.
WriteCategoryGone(r) ==
  LET c == up[r].category
  IN  /\ up[r].op = "removeCategory" /\ c \in db.categories
      /\ Commit(r, [db EXCEPT
           !.categories = @ \ {c},
           !.items = [i \in Items |-> IF i \in FiledUnder(c)
                                      THEN [@[i] EXCEPT !.category = Null] ELSE @[i]]])

-----------------------------------------------------------------------------
(* Items.                                                                  *)

\* A slip: a category of another restaurant will do.
ensureCategoryBelongsToRestaurant_Any(c, i) == c \in db.categories

ensureCategoryBelongsToRestaurant(c, i) == c \in db.categories /\ MenuOf[c] = MenuOf[i]

\* The foreign key, when the request writes.
CategoryThere(c) == c = Null \/ c \in db.categories

CreateItem(r, i, c) ==
  /\ Fresh(i)
  /\ c # Null => ensureCategoryBelongsToRestaurant(c, i)
  /\ Arrive(r, [op |-> "createItem", on |-> c, item |-> i, category |-> c])

WriteItem(r) ==
  LET job == up[r]
  IN  /\ job.op = "createItem" /\ Fresh(job.item) /\ CategoryThere(job.category)
      /\ Commit(r, [db EXCEPT
           !.items[job.item] = [category |-> job.category, asked |-> job.category, options |-> FALSE],
           !.used = @ \union {job.item}])

\* The category may be left as it is, taken away or replaced; options are
\* replaced by RowSets, and here only whether there are any.
UpdateItem(r, i, move, options) ==
  /\ Exists(i)
  /\ move \in Categories => ensureCategoryBelongsToRestaurant(move, i)
  /\ Arrive(r, [op |-> "updateItem", on |-> IF move \in Categories THEN move ELSE Null,
                item |-> i, move |-> move, options |-> options])

\* An item that is gone by now fails the request.
WriteItemUpdate(r) ==
  LET job == up[r]
      Filed(old, new) == IF job.move = "stay" THEN old ELSE new
  IN  /\ job.op = "updateItem" /\ Exists(job.item)
      /\ job.move \in Categories => CategoryThere(job.move)
      /\ Commit(r, [db EXCEPT !.items[job.item] =
           [category |-> Filed(@.category, job.move),
            asked |-> Filed(@.asked, job.move),
            options |-> @.options \/ job.options]])

RemoveItem(r, i) ==
  /\ Exists(i)
  /\ Arrive(r, [op |-> "removeItem", on |-> Null, item |-> i])

\* A slip: orders and options go with the item.
WriteItemGone_Cascades(r) ==
  /\ up[r].op = "removeItem" /\ Exists(up[r].item)
  /\ Commit(r, [db EXCEPT !.items[up[r].item] = Null])

\* ON DELETE RESTRICT: an item with options, or one that was ever sold, stays.
WriteItemGone(r) ==
  LET i == up[r].item
  IN  /\ up[r].op = "removeItem" /\ Exists(i)
      /\ ~db.items[i].options /\ i \notin db.sold
      /\ Commit(r, [db EXCEPT !.items[i] = Null])

\* An order reads the item, and refers to it when it commits.
OrderItem(r, i) ==
  /\ Exists(i)
  /\ Arrive(r, [op |-> "order", on |-> Null, item |-> i])

WriteOrder(r) ==
  /\ up[r].op = "order" /\ Exists(up[r].item)
  /\ Commit(r, [db EXCEPT !.sold = @ \union {up[r].item}])

MenuStep(r) ==
  \/ \E c \in Categories : CreateCategory(r, c) \/ RemoveCategory(r, c)
  \/ WriteCategory(r) \/ WriteCategoryGone(r)
  \/ \E i \in Items :
       \/ \E c \in Categories \union {Null} : CreateItem(r, i, c)
       \/ \E move \in Categories \union {Null, "stay"}, options \in BOOLEAN :
            UpdateItem(r, i, move, options)
       \/ RemoveItem(r, i) \/ OrderItem(r, i)
  \/ WriteItem(r) \/ WriteItemUpdate(r) \/ WriteItemGone(r) \/ WriteOrder(r)

-----------------------------------------------------------------------------
(* Properties.                                                             *)

\* An item is filed where it was last asked to be, under a category of its own
\* restaurant that exists; it only loses that category to a removal that counted
\* the items before it came.
ItemsFiledAsAsked ==
  \A i \in Items : Exists(i) =>
    LET row == db.items[i]
    IN  /\ row.category # Null => row.category \in db.categories /\ MenuOf[row.category] = MenuOf[i]
        /\ row.category = row.asked \/ (row.category = Null /\ row.asked \in blurred)

\* What was sold can still be looked up, whatever is removed while orders are made.
SoldItemsStay == \A i \in db.sold : Exists(i)

\* Filing and removal leave a menu that orders can refer to.
MenuSound == ItemsFiledAsAsked /\ SoldItemsStay

=============================================================================
