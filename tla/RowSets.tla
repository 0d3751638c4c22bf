------------------------------- MODULE RowSets -------------------------------
(***************************************************************************)
(* The lists that are replaced as a whole, by a transaction that deletes   *)
(* all their rows and inserts those of the request: the opening hours of a *)
(* restaurant, its payment methods, its store categories and the option    *)
(* groups of an item.  Payment methods and store categories have a primary *)
(* key, hours and options have none.                                       *)
(***************************************************************************)
EXTENDS Database

CONSTANT Values  \* what a row says: an interval, a method, a category, a group

\* Tables: rows of each list, activeMethods, storeCategories; ghost: agreed, the
\* rows of each list that the last change of it meant to leave.
Lists == {"hours", "payment", "tags", "options"}
Keyed == {"payment", "tags"}

RowSetTables ==
  [rows |-> [l \in Lists |-> {}], agreed |-> [l \in Lists |-> {}],
   activeMethods |-> Values, storeCategories |-> Values]

\* A row knows the insertion it came with; a list shows only the values.
Row(of, v) == [of |-> of, value |-> v]
ValuesOf(rows) == {row.value : row \in rows}

\* The number of an insertion: one of no row of the list, and of none that a transaction
\* under way has deleted.
NextInsertion(l) ==
  LET replacing == {r \in Requests : up[r].op = "insert" /\ up[r].on = l}
      known == db.rows[l] \union UNION {up[r].gone : r \in replacing}
  IN  CHOOSE n \in 0..Cardinality(known) : \A row \in known : row.of # n

-----------------------------------------------------------------------------

\* Methods have to be active and categories have to exist when the request comes.
Acceptable(l, values) ==
  /\ l = "payment" => values \subseteq db.activeMethods
  /\ l = "tags" => values \subseteq db.storeCategories

\* The list may be empty; one that is left out is no request.
Replace(r, l, values) ==
  /\ Acceptable(l, values)
  /\ Arrive(r, [op |-> "replace", on |-> l, values |-> values, gone |-> {}])

\* The DELETE takes the rows that are committed when it starts.
DeleteRows(r) ==
  /\ up[r].op = "replace"
  /\ Proceed(r, [up[r] EXCEPT !.op = "insert", !.gone = db.rows[up[r].on]])

Inserted(r) == {Row(NextInsertion(up[r].on), v) : v \in up[r].values}
Kept(r) == db.rows[up[r].on] \ up[r].gone

\* The keys of the tables; a failed INSERT rolls the DELETE back (Fail).
KeysHold(r) ==
  /\ up[r].on \in Keyed => ValuesOf(Kept(r)) \cap up[r].values = {}
  /\ up[r].on = "tags" => up[r].values \subseteq db.storeCategories

\* A slip: the rows are inserted and those that were there stay.
InsertRows_KeepsOld(r) ==
  LET l == up[r].on
  IN  /\ up[r].op = "insert" /\ KeysHold(r)
      /\ Commit(r, [db EXCEPT !.rows[l] = @ \union Inserted(r), !.agreed[l] = up[r].values])

InsertRows(r) ==
  LET l == up[r].on
  IN  /\ up[r].op = "insert" /\ KeysHold(r)
      /\ Commit(r, [db EXCEPT !.rows[l] = Kept(r) \union Inserted(r), !.agreed[l] = up[r].values])

-----------------------------------------------------------------------------
(* Payment methods and store categories themselves.                        *)

SetMethodStatus(r, v, active) ==
  /\ active # (v \in db.activeMethods)
  /\ Arrive(r, [op |-> "methodStatus", on |-> Null, value |-> v, active |-> active])

WriteMethodStatus(r) ==
  /\ up[r].op = "methodStatus"
  /\ Commit(r, [db EXCEPT !.activeMethods =
       IF up[r].active THEN @ \union {up[r].value} ELSE @ \ {up[r].value}])

CreateStoreCategory(r, v) ==
  /\ v \notin db.storeCategories
  /\ Arrive(r, [op |-> "createTag", on |-> Null, value |-> v])

\* The name is unique.
WriteStoreCategory(r) ==
  /\ up[r].op = "createTag" /\ up[r].value \notin db.storeCategories
  /\ Commit(r, [db EXCEPT !.storeCategories = @ \union {up[r].value}])

RemoveStoreCategory(r, v) ==
  /\ v \in db.storeCategories
  /\ Arrive(r, [op |-> "removeTag", on |-> Null, value |-> v])

\* Two transactions: the links go first.
Unlink(r) ==
  LET v == up[r].value
  IN  /\ up[r].op = "removeTag"
      /\ CommitAnd(r, [db EXCEPT !.rows["tags"] = {row \in @ : row.value # v},
                                 !.agreed["tags"] = @ \ {v}],
                   [up[r] EXCEPT !.op = "dropTag"])

\* A slip: the category goes although a restaurant has been linked to it again.
DropStoreCategory_Unheeded(r) ==
  /\ up[r].op = "dropTag" /\ up[r].value \in db.storeCategories
  /\ Commit(r, [db EXCEPT !.storeCategories = @ \ {up[r].value}])

DropStoreCategory(r) ==
  /\ up[r].op = "dropTag" /\ up[r].value \in db.storeCategories
  /\ up[r].value \notin ValuesOf(db.rows["tags"])
  /\ Commit(r, [db EXCEPT !.storeCategories = @ \ {up[r].value}])

ListStep(r) ==
  \/ \E l \in Lists, values \in SUBSET Values : Replace(r, l, values)
  \/ DeleteRows(r) \/ InsertRows(r)
  \/ \E v \in Values : \/ CreateStoreCategory(r, v) \/ RemoveStoreCategory(r, v)
                       \/ \E active \in BOOLEAN : SetMethodStatus(r, v, active)
  \/ WriteMethodStatus(r) \/ WriteStoreCategory(r) \/ Unlink(r) \/ DropStoreCategory(r)

-----------------------------------------------------------------------------
(* Properties.                                                             *)

\* A list holds exactly the rows of the request that replaced it last, each once,
\* unless replacements of it overlapped; one that runs alone puts it right.
LastReplacementStands ==
  \A l \in Lists : l \notin blurred =>
    /\ ValuesOf(db.rows[l]) = db.agreed[l]
    /\ \A a, b \in db.rows[l] : a.of = b.of

\* Where the table has a key, even overlapping replacements leave no value twice,
\* and no restaurant is linked to a store category that is gone.
KeyedListsSound ==
  /\ \A l \in Keyed : \A a, b \in db.rows[l] : a.value = b.value => a = b
  /\ ValuesOf(db.rows["tags"]) \subseteq db.storeCategories

\* Lists are what was asked for last, and where a key helps, sound in any case.
ListsSound == LastReplacementStands /\ KeyedListsSound

=============================================================================
