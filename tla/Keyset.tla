------------------------------- MODULE Keyset -------------------------------
(***************************************************************************)
(* How a List method of the freight server orders, seeks and resumes:      *)
(* aip-sql's `transpile_order_by` and `Predicate::keyset_seek`,            *)
(* aip-pagination's cursor encoder, and the `cursor_*` helpers that join   *)
(* the two crates in service.rs.                                           *)
(*                                                                         *)
(* A stored value is <<storage class, n>>: NULL, a number or a text.  The  *)
(* number n stands for the value's place in its class; the zero and the    *)
(* empty string are the 0 of their class.  A row is a function from        *)
(* columns to stored values, holding the columns that a list reads.        *)
(***************************************************************************)
EXTENDS Integers, Sequences

Null    == <<0, 0>>
Num(n)  == <<1, n>>
Text(n) == <<2, n>>
Numbers == {1} \X Int
Texts   == {2} \X Int

-----------------------------------------------------------------------------
(* SQLite, as the rendered query uses it. *)

\* ORDER BY sorts by storage class first, NULL lowest.
SortsBefore(a, b) == a[1] < b[1] \/ (a[1] = b[1] /\ a[2] < b[2])

\* A comparison in a WHERE: NULL on either side makes it not true.  The only
\* text ever bound against a REAL column is the empty string, which SQLite's
\* numeric affinity leaves a text, above every number.
Compare(op, a, b) ==
  /\ a # Null /\ b # Null
  /\ CASE op = "Eq" -> a = b
       [] op = "Lt" -> SortsBefore(a, b)
       [] op = "Gt" -> SortsBefore(b, a)

\* Row r comes before row q in `ORDER BY order`.
RowBefore(order, r, q) ==
  \E i \in DOMAIN order :
    /\ \A j \in 1..(i - 1) : r[order[j].column] = q[order[j].column]
    /\ IF order[i].desc THEN SortsBefore(q[order[i].column], r[order[i].column])
                        ELSE SortsBefore(r[order[i].column], q[order[i].column])

\* The possible answers of `SELECT .. WHERE <in S> ORDER BY order LIMIT limit`:
\* the sorted prefix of S, as long as S and the limit allow.
Fetched(S, order, limit) ==
  { rows \in UNION {[1..k -> S] : k \in 0..limit} :
      /\ \A i, j \in DOMAIN rows : i < j => RowBefore(order, rows[i], rows[j])
      /\ \A q \in S : \/ \E i \in DOMAIN rows : rows[i] = q
                      \/ /\ Len(rows) = limit
                         /\ \A i \in DOMAIN rows : RowBefore(order, rows[i], q) }

-----------------------------------------------------------------------------
(* The Site schema: `site_declarations` and `site_schema`. *)

Declared == [display_name |-> "String", create_time |-> "Timestamp",
             latitude |-> "Double", annotations |-> "Map", tags |-> "List",
             state |-> "Enum"]

\* `update_time` and `longitude` are `sort_only`: no declaration, so no type.
SortOnly == {"update_time", "longitude"}

SortableTypes == {"String", "Int", "Uint", "Double", "Bool", "Timestamp"}

\* Named by column; the path `lat_lng.latitude` is the column `latitude`.
SortablePaths == {c \in DOMAIN Declared : Declared[c] \in SortableTypes} \cup SortOnly

KeyColumns == {"shipper", "site", "shipment"}
Columns    == DOMAIN Declared \cup SortOnly \cup KeyColumns

\* `schema.column_type(column).unwrap_or(Type::String)`
SeekType(column) ==
  IF column \in DOMAIN Declared THEN Declared[column] ELSE "String"

-----------------------------------------------------------------------------
(* transpile_order_by: the fields asked for, then the key columns ascending. *)

AppendKey(order, key) ==
  IF \E i \in DOMAIN order : order[i].column = key
    THEN order
    ELSE Append(order, [column |-> key, desc |-> FALSE])

ChildKey(method) == IF method = "ListSites" THEN "site" ELSE "shipment"

\* KEY_COLUMNS is `shipper` for shippers and (`shipper`, child) below them.
TranspileOrderBy(method, orderBy) ==
  IF method = "ListShippers"
    THEN AppendKey(orderBy, "shipper")
    ELSE AppendKey(AppendKey(orderBy, "shipper"), ChildKey(method))

-----------------------------------------------------------------------------
(* Predicate::keyset_seek on a row, for a cursor of one value per column. *)

\* Mutant: the comparison is `>=`, so the cursor's own row comes again.
Mut_TupleGt_AtOrAfter(order, cursor, r) ==
  \E i \in DOMAIN order :
    /\ \A j \in 1..(i - 1) : Compare("Eq", r[order[j].column], cursor[j].value)
    /\ \/ Compare("Gt", r[order[i].column], cursor[i].value)
       \/ i = Len(order) /\ Compare("Eq", r[order[i].column], cursor[i].value)

TupleGt(order, cursor, r) ==
  \E i \in DOMAIN order :
    /\ \A j \in 1..(i - 1) : Compare("Eq", r[order[j].column], cursor[j].value)
    /\ Compare("Gt", r[order[i].column], cursor[i].value)

OrOfAnds(order, cursor, r) ==
  \E i \in DOMAIN order :
    /\ \A j \in 1..(i - 1) : Compare("Eq", r[order[j].column], cursor[j].value)
    /\ Compare(IF order[i].desc THEN "Lt" ELSE "Gt",
               r[order[i].column], cursor[i].value)

\* Mutant: every order is sought with the ascending row comparison, as
\* before the amendment of docs/adr/0006.
Mut_KeysetSeek_AscendingOnly(order, cursor, r) == TupleGt(order, cursor, r)

KeysetSeek(order, cursor, r) ==
  IF \A i \in DOMAIN order : ~order[i].desc
    THEN TupleGt(order, cursor, r)
    ELSE OrOfAnds(order, cursor, r)

-----------------------------------------------------------------------------
(* The cursor: one entry per seek column of the last row of a page. *)

\* `cursor_kind`, with `cursor_value_to_sql`: the storage class of the variant.
CursorClass(type) == IF type \in {"Bool", "Int", "Uint", "Double"} THEN 1 ELSE 2

\* `reflect_value`: a field of the variant's own shape is carried over; one
\* that is absent, or whose shape `text_value` does not render, is the default.
ReflectValue(v, class) == IF v[1] = class THEN v ELSE <<class, 0>>

CursorEntries(order, r) ==
  [i \in DOMAIN order |->
     [column |-> order[i].column,
      value  |-> ReflectValue(r[order[i].column], CursorClass(SeekType(order[i].column)))]]

\* `cursor_seek` accepts a cursor that names the seek columns position by
\* position, each value in the variant of its column (`cursor_value_matches`).
CursorFits(cursor, order) ==
  /\ DOMAIN cursor = DOMAIN order
  /\ \A i \in DOMAIN order :
       /\ cursor[i].column = order[i].column
       /\ cursor[i].value[1] = CursorClass(SeekType(order[i].column))
=============================================================================
