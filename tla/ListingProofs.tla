---------------------------- MODULE ListingProofs ----------------------------
(***************************************************************************)
(* A scan of any listing answers every row that stays in it, once and in   *)
(* order, for all requests that order by columns whose stored values the   *)
(* cursor can carry.                                                       *)
(***************************************************************************)
EXTENDS Listing, TLAPS

\* The condition that cursor_seek's comment states, and the one the schema
\* adds: no order by `longitude`, whose cursor value is not the stored one,
\* and no site without a position where a request orders by `latitude`.
Pageable ==
  \A req \in Requests : \A i \in DOMAIN req.order_by :
    /\ req.order_by[i].column # "longitude"
    /\ req.order_by[i].column = "latitude" => \A r \in SiteRows : r.latitude # Null

\* Every row of S holds, in each column of the order, a value that the
\* cursor carries as it is stored.
Seekable(order, S) ==
  \A r \in S, i \in DOMAIN order :
    r[order[i].column] \in {CursorClass(SeekType(order[i].column))} \X Int

Sortable(req) == \A i \in DOMAIN req.order_by : req.order_by[i].column \in SortablePaths

-----------------------------------------------------------------------------
(* Facts about orders and seeks. *)

\* What AppendKey does to a sequence of order items: the old items stay, and
\* a new last one can only be the key.
LEMMA AppendKeyItems ==
  ASSUME NEW order \in Seq([column : Columns, desc : BOOLEAN]), NEW key \in Columns
  PROVE  /\ AppendKey(order, key) \in Seq([column : Columns, desc : BOOLEAN])
         /\ \A i \in DOMAIN AppendKey(order, key) :
              \/ i \in DOMAIN order /\ AppendKey(order, key)[i] = order[i]
              \/ AppendKey(order, key)[i].column = key
<1> DEFINE Item == [column : Columns, desc : BOOLEAN]
           last == [column |-> key, desc |-> FALSE]
<1>1. last \in Item /\ last.column = key
  OBVIOUS
<1> HIDE DEF last, Item
<1>2. order \in Seq(Item)
  BY DEF Item
<1>3. /\ Append(order, last) \in Seq(Item)
      /\ DOMAIN order = 1..Len(order)
      /\ DOMAIN Append(order, last) = 1..(Len(order) + 1)
      /\ \A i \in 1..Len(order) : Append(order, last)[i] = order[i]
      /\ Append(order, last)[Len(order) + 1] = last
      /\ Len(order) \in Nat
  BY <1>1, <1>2
<1>4. AppendKey(order, key) = order \/ AppendKey(order, key) = Append(order, last)
  BY DEF AppendKey, last
<1>5. CASE AppendKey(order, key) = order
  BY <1>2, <1>5 DEF Item
<1>6. CASE AppendKey(order, key) = Append(order, last)
  <2>1. ASSUME NEW i \in DOMAIN Append(order, last)
        PROVE  \/ i \in DOMAIN order /\ Append(order, last)[i] = order[i]
               \/ Append(order, last)[i].column = key
    BY <1>1, <1>3
  <2> QED
    BY <1>3, <1>6, <2>1 DEF Item
<1> QED
  BY <1>4, <1>5, <1>6

\* An order item of a request is one it asked for or a key column.
LEMMA OrderItems ==
  ASSUME NEW req \in Requests
  PROVE  /\ OrderOf(req) \in Seq([column : Columns, desc : BOOLEAN])
         /\ \A i \in DOMAIN OrderOf(req) :
              \/ \E j \in DOMAIN req.order_by : OrderOf(req)[i] = req.order_by[j]
              \/ OrderOf(req)[i].column = "shipper"
              \/ /\ req.method # "ListShippers"
                 /\ OrderOf(req)[i].column = ChildKey(req.method)
<1> DEFINE one == AppendKey(req.order_by, "shipper")
           two == AppendKey(one, ChildKey(req.method))
<1>0. "shipper" \in Columns
  BY DEF Columns, KeyColumns
<1>1. req.order_by \in Seq([column : Columns, desc : BOOLEAN])
  BY RequestsAreTyped
<1>2. /\ one \in Seq([column : Columns, desc : BOOLEAN])
      /\ \A i \in DOMAIN one : \/ i \in DOMAIN req.order_by /\ one[i] = req.order_by[i]
                               \/ one[i].column = "shipper"
  BY <1>0, <1>1, AppendKeyItems
<1>3. ChildKey(req.method) \in Columns
  BY DEF ChildKey, Columns, KeyColumns
<1> HIDE DEF one
<1>4. /\ two \in Seq([column : Columns, desc : BOOLEAN])
      /\ \A i \in DOMAIN two : \/ i \in DOMAIN one /\ two[i] = one[i]
                               \/ two[i].column = ChildKey(req.method)
  BY <1>2, <1>3, AppendKeyItems
<1>5. OrderOf(req) = IF req.method = "ListShippers" THEN one ELSE two
  BY DEF OrderOf, TranspileOrderBy, one
<1> HIDE DEF two
<1>6. CASE req.method = "ListShippers"
  BY <1>2, <1>5, <1>6
<1>7. CASE req.method # "ListShippers"
  <2>1. OrderOf(req) = two
    BY <1>5, <1>7
  <2>2. ASSUME NEW i \in DOMAIN two
        PROVE  \/ \E j \in DOMAIN req.order_by : two[i] = req.order_by[j]
               \/ two[i].column = "shipper"
               \/ two[i].column = ChildKey(req.method)
    BY <1>2, <1>4
  <2> QED
    BY <1>4, <1>7, <2>1, <2>2
<1> QED
  BY <1>6, <1>7

\* The values of a listing's seek columns, for a request that was accepted.
LEMMA ListingsAreSeekable ==
  ASSUME Pageable, NEW req \in Requests, Sortable(req)
  PROVE  Seekable(OrderOf(req), RowsOf(req.method))
<1> SUFFICES ASSUME NEW r \in RowsOf(req.method), NEW i \in DOMAIN OrderOf(req)
             PROVE  LET c == OrderOf(req)[i].column
                    IN  r[c] \in {CursorClass(SeekType(c))} \X Int
  BY DEF Seekable
<1> DEFINE c == OrderOf(req)[i].column
<1>0. req.method \in Methods
  BY RequestsAreTyped
<1>1. CASE \E j \in DOMAIN req.order_by : OrderOf(req)[i] = req.order_by[j]
  <2>1. PICK j \in DOMAIN req.order_by : c = req.order_by[j].column
    BY <1>1
  <2>2. req.method = "ListSites"
    BY RequestsAreTyped, <2>1
  <2>3. r \in SiteRows
    BY <2>2 DEF RowsOf
  <2>4. c \in {"display_name", "create_time", "update_time", "latitude"}
    BY <2>1 DEF Sortable, SortablePaths, SortableTypes, SortOnly, Declared, Pageable
  <2>5. CASE c = "latitude"
    <3>1. r.latitude \in Numbers
      BY <2>1, <2>3, <2>5, RowsAreTyped DEF Pageable
    <3>2. CursorClass(SeekType("latitude")) = 1
      BY DEF CursorClass, SeekType, Declared
    <3> QED
      BY <2>5, <3>1, <3>2 DEF Numbers
  <2>6. CASE c \in {"display_name", "create_time", "update_time"}
    <3>1. r[c] \in Texts
      BY <2>3, <2>6, RowsAreTyped
    <3>2. CursorClass(SeekType(c)) = 2
      BY <2>6 DEF CursorClass, SeekType, Declared
    <3> QED
      BY <3>1, <3>2 DEF Texts
  <2> QED
    BY <2>4, <2>5, <2>6
<1>2. CASE c = "shipper"
  <2>1. r.shipper \in Texts
    <3>1. CASE req.method = "ListShippers"
      BY <3>1, RowsAreTyped DEF RowsOf, ShipperRow, Text, Texts
    <3>2. CASE req.method = "ListSites"
      BY <3>2, RowsAreTyped DEF RowsOf
    <3>3. CASE req.method = "ListShipments"
      BY <3>3, RowsAreTyped DEF RowsOf
    <3> QED
      BY <1>0, <3>1, <3>2, <3>3 DEF Methods
  <2>2. CursorClass(SeekType("shipper")) = 2
    BY DEF CursorClass, SeekType, Declared
  <2> QED
    BY <1>2, <2>1, <2>2 DEF Texts
<1>3. CASE req.method # "ListShippers" /\ c = ChildKey(req.method)
  <2>1. CASE req.method = "ListSites"
    <3>1. c = "site" /\ r.site \in Texts
      BY <1>3, <2>1, RowsAreTyped DEF RowsOf, ChildKey
    <3>2. CursorClass(SeekType("site")) = 2
      BY DEF CursorClass, SeekType, Declared
    <3> QED
      BY <3>1, <3>2 DEF Texts
  <2>2. CASE req.method = "ListShipments"
    <3>1. c = "shipment" /\ r.shipment \in Texts
      BY <1>3, <2>2, RowsAreTyped DEF RowsOf, ChildKey
    <3>2. CursorClass(SeekType("shipment")) = 2
      BY DEF CursorClass, SeekType, Declared
    <3> QED
      BY <3>1, <3>2 DEF Texts
  <2> QED
    BY <1>0, <1>3, <2>1, <2>2 DEF Methods
<1> QED
  BY <1>1, <1>2, <1>3, OrderItems

\* The order of the storage is a strict order, value by value ...
LEMMA SortsBeforeIsStrict ==
  ASSUME NEW k \in {1, 2},
         NEW a \in {k} \X Int, NEW b \in {k} \X Int, NEW c \in {k} \X Int
  PROVE  /\ ~SortsBefore(a, a)
         /\ SortsBefore(a, b) /\ SortsBefore(b, c) => SortsBefore(a, c)
         /\ a # Null
BY DEF SortsBefore, Null

\* A cursor is a number or a text.
LEMMA ClassOfCursor ==
  \A type : CursorClass(type) \in {1, 2}
BY DEF CursorClass

\* ... and so row by row.
LEMMA RowBeforeIsStrict ==
  ASSUME NEW order \in Seq([column : Columns, desc : BOOLEAN]), NEW S, Seekable(order, S),
         NEW p \in S, NEW q \in S, NEW r \in S,
         RowBefore(order, p, q), RowBefore(order, q, r)
  PROVE  RowBefore(order, p, r) /\ p # q
<1> DEFINE V(row, i) == row[order[i].column]
<1> DEFINE Less(x, y, i) == IF order[i].desc THEN SortsBefore(V(y, i), V(x, i))
                                             ELSE SortsBefore(V(x, i), V(y, i))
<1>0. DOMAIN order \subseteq Nat
  OBVIOUS
<1>1. PICK i \in DOMAIN order : (\A j \in 1..(i - 1) : V(p, j) = V(q, j)) /\ Less(p, q, i)
  BY DEF RowBefore
<1>2. PICK k \in DOMAIN order : (\A j \in 1..(k - 1) : V(q, j) = V(r, j)) /\ Less(q, r, k)
  BY DEF RowBefore
<1>3. \A m \in DOMAIN order :
        /\ ~Less(p, p, m)
        /\ Less(p, q, m) /\ Less(q, r, m) => Less(p, r, m)
  <2> TAKE m \in DOMAIN order
  <2>1. PICK c \in {1, 2} : V(p, m) \in {c} \X Int /\ V(q, m) \in {c} \X Int /\ V(r, m) \in {c} \X Int
    BY ClassOfCursor DEF Seekable
  <2> HIDE DEF V
  <2> QED
    BY <2>1, SortsBeforeIsStrict
<1>4. p # q
  BY <1>1, <1>3
<1>5. p # q /\ (RowBefore(order, p, r) <=>
                   \E m \in DOMAIN order : (\A j \in 1..(m - 1) : V(p, j) = V(r, j)) /\ Less(p, r, m))
  BY <1>4 DEF RowBefore
<1>6. CASE i < k
  <2>1. \A j \in 1..(i - 1) : V(p, j) = V(r, j)
    BY <1>0, <1>1, <1>2, <1>6
  <2>2. V(q, i) = V(r, i)
    BY <1>0, <1>2, <1>6
  <2>3. Less(p, r, i)
    BY <1>1, <2>2
  <2> QED
    BY <1>5, <2>1, <2>3
<1>7. CASE i = k
  BY <1>0, <1>1, <1>2, <1>3, <1>5, <1>7
<1>8. CASE k < i
  <2>1. \A j \in 1..(k - 1) : V(p, j) = V(r, j)
    BY <1>0, <1>1, <1>2, <1>8
  <2>2. V(p, k) = V(q, k)
    BY <1>0, <1>1, <1>8
  <2>3. Less(p, r, k)
    BY <1>2, <2>2
  <2> QED
    BY <1>5, <2>1, <2>3
<1> QED
  BY <1>0, <1>4, <1>6, <1>7, <1>8

\* No row stands before itself.
LEMMA RowBeforeIsIrreflexive ==
  ASSUME NEW order \in Seq([column : Columns, desc : BOOLEAN]), NEW S, Seekable(order, S),
         NEW p \in S
  PROVE  ~RowBefore(order, p, p)
<1> SUFFICES ASSUME NEW i \in DOMAIN order,
                    SortsBefore(p[order[i].column], p[order[i].column])
             PROVE  FALSE
  BY DEF RowBefore
<1> DEFINE v == p[order[i].column]
<1>1. PICK c \in {1, 2} : v \in {c} \X Int
  BY ClassOfCursor DEF Seekable
<1> HIDE DEF v
<1>2. ~SortsBefore(v, v)
  BY <1>1, SortsBeforeIsStrict
<1> QED
  BY <1>2 DEF v

\* The seek built from a row selects exactly the rows that sort after it, in
\* whichever of its two forms and whatever the directions.
LEMMA SeekSelectsWhatFollows ==
  ASSUME NEW order \in Seq([column : Columns, desc : BOOLEAN]), NEW S, Seekable(order, S),
         NEW p \in S, NEW r \in S
  PROVE  KeysetSeek(order, CursorEntries(order, p), r) <=> RowBefore(order, p, r)
<1> DEFINE cursor == CursorEntries(order, p)
<1>0. DOMAIN order \subseteq Nat /\ \A i \in DOMAIN order : 1..(i - 1) \subseteq DOMAIN order
  OBVIOUS
<1>1. ASSUME NEW i \in DOMAIN order
      PROVE  /\ cursor[i].value = p[order[i].column]
             /\ p[order[i].column] # Null /\ r[order[i].column] # Null
  <2> DEFINE c == CursorClass(SeekType(order[i].column))
  <2>1. c \in {1, 2}
    BY ClassOfCursor
  <2>2. p[order[i].column] \in {c} \X Int /\ r[order[i].column] \in {c} \X Int
    BY DEF Seekable
  <2>3. cursor[i].value = ReflectValue(p[order[i].column], c)
    BY DEF CursorEntries
  <2> HIDE DEF c
  <2>4. ReflectValue(p[order[i].column], c) = p[order[i].column]
    BY <2>2 DEF ReflectValue
  <2>5. p[order[i].column] # Null /\ r[order[i].column] # Null
    BY <2>1, <2>2 DEF Null
  <2> QED
    BY <2>3, <2>4, <2>5
<1> HIDE DEF cursor
<1>2. ASSUME NEW i \in DOMAIN order
      PROVE  /\ Compare("Eq", r[order[i].column], cursor[i].value)
                  <=> p[order[i].column] = r[order[i].column]
             /\ Compare("Gt", r[order[i].column], cursor[i].value)
                  <=> SortsBefore(p[order[i].column], r[order[i].column])
             /\ Compare("Lt", r[order[i].column], cursor[i].value)
                  <=> SortsBefore(r[order[i].column], p[order[i].column])
  BY <1>1 DEF Compare
<1>3. TupleGt(order, cursor, r) <=>
        \E i \in DOMAIN order :
          /\ \A j \in 1..(i - 1) : p[order[j].column] = r[order[j].column]
          /\ SortsBefore(p[order[i].column], r[order[i].column])
  BY <1>0, <1>2 DEF TupleGt
<1>4. OrOfAnds(order, cursor, r) <=> RowBefore(order, p, r)
  BY <1>0, <1>1, <1>2 DEF OrOfAnds, RowBefore
<1>5. CASE \A i \in DOMAIN order : ~order[i].desc
  BY <1>3, <1>5 DEF KeysetSeek, RowBefore, cursor
<1>6. CASE ~\A i \in DOMAIN order : ~order[i].desc
  BY <1>4, <1>6 DEF KeysetSeek, cursor
<1> QED
  BY <1>5, <1>6

\* A token is worth nothing to another request: the checksum covers every
\* field, and where the fields of two methods coincide the key columns that
\* the cursor names tell them apart.
LEMMA TokenNamesItsRequest ==
  ASSUME NEW req \in Requests, NEW first \in Requests,
         RequestChecksum(req) = RequestChecksum(first),
         NEW r, CursorFits(CursorEntries(OrderOf(first), r), OrderOf(req))
  PROVE  req = first
<1> DEFINE o == OrderOf(req)
           f == OrderOf(first)
<1>1. /\ req.parent = first.parent /\ req.order_by = first.order_by
      /\ req.filter = first.filter /\ req.show_deleted = first.show_deleted
  BY DEF RequestChecksum
<1>2. DOMAIN o = DOMAIN f /\ \A i \in DOMAIN o : f[i].column = o[i].column
  BY DEF CursorFits, CursorEntries
<1>3. ASSUME NEW m \in Methods
      PROVE  TranspileOrderBy(m, <<>>) =
               IF m = "ListShippers"
                 THEN << [column |-> "shipper", desc |-> FALSE] >>
                 ELSE << [column |-> "shipper", desc |-> FALSE],
                         [column |-> ChildKey(m), desc |-> FALSE] >>
  <2> DEFINE a == [column |-> "shipper", desc |-> FALSE]
             b == [column |-> ChildKey(m), desc |-> FALSE]
  <2>1. AppendKey(<<>>, "shipper") = <<a>>
    <3>1. ~\E i \in DOMAIN << >> : << >>[i].column = "shipper"
      OBVIOUS
    <3>2. AppendKey(<< >>, "shipper") = Append(<< >>, a)
      BY <3>1 DEF AppendKey
    <3> HIDE DEF a
    <3> QED
      BY <3>2
  <2>2. ChildKey(m) # "shipper"
    BY DEF ChildKey
  <2>3. AppendKey(<<a>>, ChildKey(m)) = <<a, b>>
    <3>1. DOMAIN <<a>> = {1} /\ <<a>>[1].column = "shipper"
      OBVIOUS
    <3>2. AppendKey(<<a>>, ChildKey(m)) = Append(<<a>>, b)
      BY <2>2, <3>1 DEF AppendKey
    <3> HIDE DEF a, b
    <3> QED
      BY <3>2
  <2> QED
    BY <2>1, <2>3 DEF TranspileOrderBy
<1>4. req.method = first.method
  <2> SUFFICES ASSUME req.method # first.method PROVE FALSE
    OBVIOUS
  <2>1. req.order_by = <<>> /\ first.order_by = <<>>
    BY <1>1, RequestsAreTyped
  <2>2. req.method \in Methods /\ first.method \in Methods
    BY RequestsAreTyped
  <2>3. o = TranspileOrderBy(req.method, <<>>) /\ f = TranspileOrderBy(first.method, <<>>)
    BY <2>1 DEF OrderOf
  <2> HIDE DEF o, f
  <2>4. CASE req.method = "ListShippers" \/ first.method = "ListShippers"
    <3>1. \/ DOMAIN o = 1..1 /\ DOMAIN f = 1..2
          \/ DOMAIN o = 1..2 /\ DOMAIN f = 1..1
      BY <1>3, <2>2, <2>3, <2>4
    <3>2. 2 \in 1..2 /\ 2 \notin 1..1
      OBVIOUS
    <3> QED
      BY <1>2, <3>1, <3>2
  <2>5. CASE ~(req.method = "ListShippers" \/ first.method = "ListShippers")
    <3>1. o[2].column = ChildKey(req.method) /\ f[2].column = ChildKey(first.method)
          /\ 2 \in DOMAIN o
      BY <1>3, <2>2, <2>3, <2>5
    <3>2. ChildKey(req.method) # ChildKey(first.method)
      BY <2>2, <2>5 DEF ChildKey, Methods
    <3> QED
      BY <1>2, <3>1, <3>2
  <2> QED
    BY <2>4, <2>5
<1> QED
  BY <1>1, <1>4, RequestsAreTyped

\* What a page is of the rows that it is taken from: sorted, and either all of
\* them or followed, past its last row, by the rest.
LEMMA PageIsPrefix ==
  ASSUME NEW S, NEW order, NEW size \in Nat, size >= 1,
         NEW rows \in Fetched(S, order, FetchLimit(size))
  PROVE  LET page == SplitPage(rows, size) IN
         /\ page \in Seq(S)
         /\ \A i, j \in DOMAIN page : i < j => RowBefore(order, page[i], page[j])
         /\ Len(rows) <= size => \A q \in S : \E i \in DOMAIN page : page[i] = q
         /\ Len(rows) > size =>
              /\ page # <<>>
              /\ \A q \in S : \/ \E i \in DOMAIN page : page[i] = q
                              \/ RowBefore(order, page[Len(page)], q)
<1> DEFINE page == SplitPage(rows, size)
<1>1. PICK k \in 0..(size + 1) : rows \in [1..k -> S]
  BY DEF Fetched, FetchLimit
<1>2. rows \in Seq(S) /\ Len(rows) = k /\ DOMAIN rows = 1..k
  BY <1>1
<1>3. /\ \A i, j \in 1..k : i < j => RowBefore(order, rows[i], rows[j])
      /\ \A q \in S : \/ \E i \in 1..k : rows[i] = q
                      \/ k = size + 1 /\ \A i \in 1..k : RowBefore(order, rows[i], q)
  BY <1>2 DEF Fetched, FetchLimit
<1> DEFINE n == IF k < size THEN k ELSE size
<1>4. n \in 0..k /\ n \in Nat
  BY <1>1
<1>5. page = SubSeq(rows, 1, n)
  BY <1>2 DEF SplitPage
<1> HIDE DEF page
<1>6. page \in Seq(S) /\ Len(page) = n /\ DOMAIN page = 1..n /\ \A i \in 1..n : page[i] = rows[i]
  <2> HIDE DEF n
  <2> QED
    BY <1>2, <1>4, <1>5
<1>7. \A i, j \in DOMAIN page : i < j => RowBefore(order, page[i], page[j])
  BY <1>3, <1>4, <1>6
<1>8. ASSUME k <= size PROVE \A q \in S : \E i \in DOMAIN page : page[i] = q
  BY <1>3, <1>6, <1>8
<1>9. ASSUME k > size
      PROVE  /\ page # <<>>
             /\ \A q \in S : \/ \E i \in DOMAIN page : page[i] = q
                             \/ RowBefore(order, page[Len(page)], q)
  <2>1. k = size + 1 /\ n = size /\ size \in 1..k /\ size + 1 \in 1..k
    BY <1>1, <1>9
  <2>2. page # <<>> /\ page[Len(page)] = rows[size]
    BY <1>6, <2>1
  <2>3. ASSUME NEW q \in S
        PROVE  \/ \E i \in DOMAIN page : page[i] = q
               \/ RowBefore(order, rows[size], q)
    <3>1. CASE \E i \in 1..k : rows[i] = q
      <4>1. PICK i \in 1..k : rows[i] = q
        BY <3>1
      <4>2. CASE i <= size
        BY <1>6, <2>1, <4>1, <4>2
      <4>3. CASE i = size + 1
        BY <1>3, <2>1, <4>1, <4>3
      <4> QED
        BY <2>1, <4>2, <4>3
    <3>2. CASE \A i \in 1..k : RowBefore(order, rows[i], q)
      BY <2>1, <3>2
    <3> QED
      BY <1>3, <3>1, <3>2
  <2> QED
    BY <2>2, <2>3
<1> QED
  BY <1>1, <1>2, <1>6, <1>7, <1>8, <1>9 DEF page

\* A page that is not refused has room for a row.
LEMMA SizeIsPositive ==
  ASSUME NEW size \in PageSizes, size >= 0
  PROVE  ResolveSize(size) \in Nat /\ ResolveSize(size) >= 1
BY LimitsArePositive, RowsAreTyped DEF ResolveSize

-----------------------------------------------------------------------------
(* The invariant of a scan. *)

\* The cursor is the last row answered, under the checksum of the request
\* that began the scan.
CursorIsLast ==
  /\ phase = "idle" => returned = <<>> /\ steady = {}
  /\ phase # "idle" => Sortable(request)
  /\ phase = "open" =>
       /\ returned # <<>>
       /\ token = <<CursorEntries(OrderOf(request), returned[Len(returned)]),
                    RequestChecksum(request)>>

IInv == TypeOK /\ CursorIsLast /\ PagesInOrder /\ NothingPassed

\* Before the first page nothing has been answered.
LEMMA InitEstablishes == Init => IInv
BY RequestsAreTyped
   DEF Init, IInv, TypeOK, CursorIsLast, PagesInOrder, NothingPassed, Listed, Methods

\* A write adds rows or changes what is deleted; the scan's rows stay stored
\* and only fewer of them are steady.
LEMMA WritesPreserve ==
  ASSUME IInv,
         NEW tables \in [Methods -> SUBSET UNION {RowsOf(m) : m \in Methods}],
         \A m \in Methods : stored[m] \subseteq tables[m] /\ tables[m] \subseteq RowsOf(m),
         NEW gone \in SUBSET tables["ListShippers"],
         Store(tables, gone)
  PROVE  IInv'
<1> USE DEF Store
<1>1. request.method \in Methods
  BY RequestsAreTyped DEF IInv, TypeOK
<1>2. returned \in Seq(tables[request.method])
  <2>1. returned \in Seq(stored[request.method])
    BY DEF IInv, TypeOK
  <2>2. stored[request.method] \subseteq tables[request.method]
    BY <1>1
  <2> QED
    BY <2>1, <2>2
<1>3. TypeOK'
  BY <1>2 DEF IInv, TypeOK
<1>4. CursorIsLast'
  BY DEF IInv, CursorIsLast
<1>5. PagesInOrder'
  BY DEF IInv, PagesInOrder
<1>6. NothingPassed'
  BY DEF IInv, NothingPassed
<1> QED
  BY <1>3, <1>4, <1>5, <1>6 DEF IInv

\* A page: the accepted request is the scan's own, so its rows follow what
\* was answered, and what it leaves out is past its last row.
LEMMA PagesPreserve ==
  ASSUME Pageable, IInv, NEW req \in Requests, NEW size \in PageSizes,
         ListAnswered(req, size)
  PROVE  IInv'
<1> DEFINE o == OrderOf(req)
           T == RowsOf(req.method)
           S == Sought(req, token)
           n == ResolveSize(size)
<1>1. req.method \in Methods /\ Sortable(req) /\ size >= 0
  BY RequestsAreTyped DEF ListAnswered, Accepts, Sortable
<1>2. o \in Seq([column : Columns, desc : BOOLEAN]) /\ Seekable(o, T)
  BY <1>1, OrderItems, ListingsAreSeekable
<1>3. phase \in {"idle", "open"}
  BY DEF IInv, TypeOK, ListAnswered
<1>4. phase = "open" => req = request
  <2> SUFFICES ASSUME phase = "open" PROVE req = request
    OBVIOUS
  <2>1. token = <<CursorEntries(OrderOf(request), returned[Len(returned)]), RequestChecksum(request)>>
        /\ token # <<>>
    BY DEF IInv, CursorIsLast, TypeOK
  <2>2. /\ RequestChecksum(request) = RequestChecksum(req)
        /\ CursorFits(CursorEntries(OrderOf(request), returned[Len(returned)]), OrderOf(req))
    BY <2>1 DEF ListAnswered, Accepts, TokenVerifies
  <2>3. request \in Requests
    BY DEF IInv, TypeOK
  <2> QED
    BY <2>2, <2>3, TokenNamesItsRequest
<1>5. request' = req
  BY <1>3, <1>4 DEF ListAnswered
<1>6. S \subseteq stored[req.method] /\ stored[req.method] \subseteq T
  BY <1>1 DEF Sought, Listed, IInv, TypeOK
<1>7. returned \in Seq(stored[req.method])
  <2>1. CASE phase = "idle"
    BY <2>1 DEF IInv, CursorIsLast
  <2>2. CASE phase = "open"
    BY <1>4, <2>2 DEF IInv, TypeOK
  <2> QED
    BY <1>3, <2>1, <2>2
<1>8. steady' \subseteq Listed(req, stored, deleted)
  BY <1>3, <1>4 DEF ListAnswered, IInv, TypeOK
<1>9. n \in Nat /\ n >= 1
  BY <1>1, SizeIsPositive
<1>10. PICK rows \in Fetched(S, o, FetchLimit(n)) :
         /\ returned' = returned \o SplitPage(rows, n)
         /\ token' = NextToken(rows, n, req)
         /\ phase' = IF token' = <<>> THEN "done" ELSE "open"
  BY DEF ListAnswered
<1> DEFINE page == SplitPage(rows, n)
<1>11. /\ page \in Seq(S)
       /\ \A i, j \in DOMAIN page : i < j => RowBefore(o, page[i], page[j])
       /\ Len(rows) <= n => \A q \in S : \E i \in DOMAIN page : page[i] = q
       /\ Len(rows) > n =>
            /\ page # <<>>
            /\ \A q \in S : \/ \E i \in DOMAIN page : page[i] = q
                            \/ RowBefore(o, page[Len(page)], q)
  <2> HIDE DEF o, S, n
  <2> QED
    BY <1>9, PageIsPrefix
<1>12. Len(rows) \in Int
  BY <1>9 DEF Fetched, FetchLimit
<1>13. token' = IF Len(rows) > n
                  THEN <<CursorEntries(o, page[Len(page)]), RequestChecksum(req)>>
                  ELSE <<>>
  BY <1>10, <1>11 DEF NextToken
<1>14. \A a, b : <<a, b>> # <<>>
  OBVIOUS
<1>15. /\ Len(rows) > n  => phase' = "open" /\ token' # <<>>
       /\ Len(rows) <= n => phase' = "done" /\ token' = <<>>
  BY <1>9, <1>10, <1>12, <1>13, <1>14
<1>16. UNCHANGED <<stored, deleted>> /\ status' = "OK"
  BY DEF ListAnswered, store
<1> HIDE DEF o, S, n, page, T
<1>17. page \in Seq(stored[req.method])
  BY <1>6, <1>11
<1>18. /\ returned' \in Seq(stored[req.method])
       /\ DOMAIN returned' = 1..(Len(returned) + Len(page))
       /\ Len(returned') = Len(returned) + Len(page)
       /\ \A i \in 1..Len(returned) : returned'[i] = returned[i]
       /\ \A i \in 1..Len(page) : returned'[Len(returned) + i] = page[i]
       /\ Len(returned) \in Nat /\ Len(page) \in Nat
       /\ DOMAIN page = 1..Len(page) /\ DOMAIN returned = 1..Len(returned)
  BY <1>7, <1>10, <1>17 DEF page
<1>19. TypeOK'
  BY <1>5, <1>8, <1>12, <1>9, <1>15, <1>16, <1>18 DEF IInv, TypeOK
<1>20. CursorIsLast'
  <2>1. phase' # "idle" /\ Sortable(request')
    BY <1>1, <1>5, <1>9, <1>12, <1>15
  <2>2. ASSUME phase' = "open"
        PROVE  returned' # <<>> /\ returned'[Len(returned')] = page[Len(page)]
    <3>1. Len(rows) > n /\ page # <<>>
      BY <1>9, <1>11, <1>12, <1>15, <2>2
    <3>2. Len(page) >= 1
      BY <1>18, <1>17, <3>1
    <3> QED
      BY <1>18, <3>2
  <2>3. ASSUME phase' = "open"
        PROVE  token' = <<CursorEntries(OrderOf(request'), returned'[Len(returned')]),
                          RequestChecksum(request')>>
    BY <1>5, <1>9, <1>12, <1>13, <1>15, <2>2, <2>3 DEF o
  <2> QED
    BY <2>1, <2>2, <2>3 DEF CursorIsLast, Sortable
<1>21. ASSUME phase = "open"
       PROVE  /\ returned # <<>> /\ Len(returned) \in DOMAIN returned
              /\ \A q \in Listed(req, stored, deleted) :
                   q \in S <=> RowBefore(o, returned[Len(returned)], q)
  <2>1. returned # <<>> /\ Len(returned) \in DOMAIN returned
    BY <1>7, <1>21 DEF IInv, CursorIsLast
  <2>2. token # <<>> /\ token[1] = CursorEntries(o, returned[Len(returned)])
    BY <1>4, <1>21 DEF IInv, CursorIsLast, TypeOK, o
  <2>3. returned[Len(returned)] \in T
    BY <1>6, <1>7, <2>1
  <2>4. ASSUME NEW q \in Listed(req, stored, deleted)
        PROVE  q \in S <=> RowBefore(o, returned[Len(returned)], q)
    <3>1. q \in T
      BY <1>6 DEF Listed
    <3>2. q \in S <=> KeysetSeek(o, token[1], q)
      BY <2>2 DEF S, Sought, o
    <3> QED
      BY <1>2, <2>2, <2>3, <3>1, <3>2, SeekSelectsWhatFollows
  <2> QED
    BY <2>1, <2>4
<1>22. ASSUME NEW i \in DOMAIN returned, NEW q \in S
       PROVE  RowBefore(o, returned[i], q)
  <2>1. phase = "open"
    BY <1>3 DEF IInv, CursorIsLast
  <2>2. q \in Listed(req, stored, deleted)
    BY DEF S, Sought
  <2>3. RowBefore(o, returned[Len(returned)], q)
    BY <1>21, <2>1, <2>2
  <2>4. CASE i = Len(returned)
    BY <2>3, <2>4
  <2>5. CASE i < Len(returned)
    <3>1. RowBefore(o, returned[i], returned[Len(returned)])
      BY <1>4, <1>21, <2>1, <2>5 DEF IInv, PagesInOrder, o
    <3>2. returned[i] \in T /\ returned[Len(returned)] \in T /\ q \in T
      BY <1>6, <1>7, <1>21, <2>1
    <3> QED
      BY <1>2, <2>3, <3>1, <3>2, RowBeforeIsStrict
  <2> QED
    BY <1>18, <2>4, <2>5
<1>23. ASSUME NEW i \in DOMAIN returned', NEW j \in DOMAIN returned', i < j
       PROVE  RowBefore(o, returned'[i], returned'[j])
  <2>1. CASE j \in 1..Len(returned)
    <3>1. i \in 1..Len(returned)
      BY <1>18, <1>23, <2>1
    <3>2. phase = "open"
      BY <1>3, <1>18, <2>1 DEF IInv, CursorIsLast
    <3>3. RowBefore(o, returned[i], returned[j])
      BY <1>4, <1>18, <1>23, <2>1, <3>1, <3>2 DEF IInv, PagesInOrder, o
    <3> QED
      BY <1>18, <2>1, <3>1, <3>3
  <2>2. CASE j \notin 1..Len(returned)
    <3>1. PICK b \in 1..Len(page) : j = Len(returned) + b
      <4>1. j - Len(returned) \in 1..Len(page) /\ j = Len(returned) + (j - Len(returned))
        BY <1>18, <2>2
      <4> QED
        BY <4>1
    <3>2. page[b] \in S /\ returned'[j] = page[b]
      BY <1>11, <1>18, <3>1
    <3>3. CASE i \in 1..Len(returned)
      BY <1>18, <1>22, <3>2, <3>3
    <3>4. CASE i \notin 1..Len(returned)
      <4>1. PICK a \in 1..Len(page) : i = Len(returned) + a
        <5>1. i - Len(returned) \in 1..Len(page) /\ i = Len(returned) + (i - Len(returned))
          BY <1>18, <3>4
        <5> QED
          BY <5>1
      <4>2. a < b
        BY <1>18, <1>23, <3>1, <4>1
      <4> QED
        BY <1>11, <1>18, <3>1, <3>2, <4>1, <4>2
    <3> QED
      BY <3>3, <3>4
  <2> QED
    BY <2>1, <2>2
<1>24. PagesInOrder'
  <2>1. ASSUME NEW i \in DOMAIN returned', NEW j \in DOMAIN returned', i < j
        PROVE  returned'[i] # returned'[j]
    <3>1. returned'[i] \in T /\ returned'[j] \in T
      BY <1>6, <1>18
    <3>2. RowBefore(o, returned'[i], returned'[j])
      BY <1>23, <2>1
    <3> QED
      BY <1>2, <3>1, <3>2, RowBeforeIsIrreflexive
  <2> QED
    BY <1>5, <1>23, <2>1 DEF PagesInOrder, o
<1>25. NothingPassed'
  <2> SUFFICES ASSUME NEW r \in steady',
                      ~\E i \in DOMAIN returned' : returned'[i] = r
               PROVE  phase' = "open" /\ KeysetSeek(o, token'[1], r)
    BY <1>5 DEF NothingPassed, o
  <2>1. r \in Listed(req, stored, deleted)
    BY <1>8
  <2>2. ~\E i \in DOMAIN returned : returned[i] = r
    BY <1>18
  <2>3. ~\E i \in DOMAIN page : page[i] = r
    <3> SUFFICES ASSUME NEW i \in DOMAIN page PROVE page[i] # r
      OBVIOUS
    <3>1. Len(returned) + i \in DOMAIN returned' /\ returned'[Len(returned) + i] = page[i]
      BY <1>18
    <3> QED
      BY <3>1
  <2>4. r \in S
    <3>1. CASE phase = "idle"
      BY <2>1, <3>1 DEF S, Sought, IInv, TypeOK
    <3>2. CASE phase = "open"
      <4>1. steady' = steady
        BY <3>2 DEF ListAnswered
      <4>2. KeysetSeek(OrderOf(request), token[1], r)
        BY <2>2, <3>2, <4>1 DEF IInv, NothingPassed
      <4> QED
        BY <1>4, <2>1, <3>2, <4>2 DEF S, Sought
    <3> QED
      BY <1>3, <3>1, <3>2
  <2>5. Len(rows) > n
    BY <1>9, <1>11, <1>12, <2>3, <2>4
  <2>6. page # <<>> /\ RowBefore(o, page[Len(page)], r)
    BY <1>11, <2>3, <2>4, <2>5
  <2>7. page[Len(page)] \in T /\ r \in T
    <3>1. Len(page) \in DOMAIN page
      BY <1>17, <2>6
    <3>2. page[Len(page)] \in S
      BY <1>11, <3>1
    <3> QED
      BY <1>6, <2>4, <3>2
  <2>8. KeysetSeek(o, CursorEntries(o, page[Len(page)]), r)
    BY <1>2, <2>6, <2>7, SeekSelectsWhatFollows
  <2>9. token'[1] = CursorEntries(o, page[Len(page)])
    BY <1>13, <2>5
  <2> QED
    BY <1>15, <2>5, <2>8, <2>9
<1> QED
  BY <1>19, <1>20, <1>24, <1>25 DEF IInv

-----------------------------------------------------------------------------
LEMMA StepsPreserve ==
  ASSUME Pageable, IInv, [Next]_vars
  PROVE  IInv'
<1>1. CASE UNCHANGED vars
  BY <1>1 DEF vars, IInv, TypeOK, CursorIsLast, PagesInOrder, NothingPassed
<1>2. ASSUME NEW req \in Requests, NEW size \in PageSizes, ListAnswered(req, size)
      PROVE  IInv'
  BY <1>2, PagesPreserve
<1>3. ASSUME NEW req \in Requests, NEW size \in PageSizes, ListRejected(req, size)
      PROVE  IInv'
  BY <1>3 DEF ListRejected, IInv, TypeOK, CursorIsLast, PagesInOrder, NothingPassed
<1>4. /\ stored \in [Methods -> SUBSET UNION {RowsOf(m) : m \in Methods}]
      /\ \A m \in Methods : stored[m] \subseteq RowsOf(m)
      /\ deleted \subseteq stored["ListShippers"]
      /\ Methods = {"ListShippers", "ListSites", "ListShipments"}
  BY DEF IInv, TypeOK, Methods
<1>5. ASSUME NEW m \in Methods, NEW r \in RowsOf(m)
      PROVE  /\ Add(m, r) \in [Methods -> SUBSET UNION {RowsOf(k) : k \in Methods}]
             /\ \A k \in Methods : stored[k] \subseteq Add(m, r)[k] /\ Add(m, r)[k] \subseteq RowsOf(k)
             /\ deleted \subseteq Add(m, r)["ListShippers"]
  BY <1>4 DEF Add
<1>6. ASSUME NEW s \in Shippers PROVE ShipperRow(s) \in RowsOf("ListShippers")
  BY DEF RowsOf
<1>7. ASSUME NEW s \in Shippers, InsertShipper(s) PROVE IInv'
  <2>1. Store(Add("ListShippers", ShipperRow(s)), deleted)
    BY <1>7 DEF InsertShipper
  <2> QED
    BY <1>4, <1>5, <1>6, <2>1, WritesPreserve
<1>8. ASSUME NEW s \in Shippers, MarkDeleted(s) PROVE IInv'
  <2>1. /\ Store(stored, deleted \cup {ShipperRow(s)})
        /\ deleted \cup {ShipperRow(s)} \in SUBSET stored["ListShippers"]
    BY <1>4, <1>8 DEF MarkDeleted
  <2> QED
    BY <1>4, <2>1, WritesPreserve
<1>9. ASSUME NEW s \in Shippers, ClearDeleted(s) PROVE IInv'
  <2>1. /\ Store(stored, deleted \ {ShipperRow(s)})
        /\ deleted \ {ShipperRow(s)} \in SUBSET stored["ListShippers"]
    BY <1>4, <1>9 DEF ClearDeleted
  <2> QED
    BY <1>4, <2>1, WritesPreserve
<1>10. ASSUME NEW r \in SiteRows, PutSite(r) PROVE IInv'
  <2>1. Store(Add("ListSites", r), deleted) /\ r \in RowsOf("ListSites")
    BY <1>10 DEF PutSite, RowsOf
  <2> QED
    BY <1>4, <1>5, <2>1, WritesPreserve
<1>11. ASSUME NEW r \in ShipmentRows, PutShipment(r) PROVE IInv'
  <2>1. Store(Add("ListShipments", r), deleted) /\ r \in RowsOf("ListShipments")
    BY <1>11 DEF PutShipment, RowsOf
  <2> QED
    BY <1>4, <1>5, <2>1, WritesPreserve
<1> QED
  BY <1>1, <1>2, <1>3, <1>7, <1>8, <1>9, <1>10, <1>11 DEF Next, Write

\* Whatever is written between the pages, a scan is always in a state from
\* which it loses and repeats nothing.
THEOREM ScanInvariant ==
  ASSUME Pageable
  PROVE  Spec => []IInv
<1>1. Init => IInv
  BY InitEstablishes
<1>2. IInv /\ [Next]_vars => IInv'
  BY StepsPreserve
<1> QED
  BY <1>1, <1>2, PTL DEF Spec

\* The pages of a scan laid end to end are in the requested order, with no
\* row twice.
THEOREM ScanInOrder ==
  ASSUME Pageable
  PROVE  Spec => []PagesInOrder
<1>1. IInv => PagesInOrder
  BY DEF IInv
<1> QED
  BY <1>1, ScanInvariant, PTL

\* Every variable of the paging client and of the store keeps its type, so
\* the calls it makes and the tokens it holds stay in the request space.
THEOREM ScanTypeCorrect ==
  ASSUME Pageable
  PROVE  Spec => []TypeOK
<1>1. IInv => TypeOK
  BY DEF IInv
<1> QED
  BY <1>1, ScanInvariant, PTL

\* The token never passes a row: one that stayed in the listing has been
\* answered or will be selected by the seek of the next page.
THEOREM ScanPassesNothing ==
  ASSUME Pageable
  PROVE  Spec => []NothingPassed
<1>1. IInv => NothingPassed
  BY DEF IInv
<1> QED
  BY <1>1, ScanInvariant, PTL

\* An empty next_page_token means that every row which stayed in the listing
\* was answered.
THEOREM ScanAnswersAll ==
  ASSUME Pageable
  PROVE  Spec => []ScanComplete
<1>1. IInv => ScanComplete
  BY DEF IInv, NothingPassed, ScanComplete
<1> QED
  BY <1>1, ScanInvariant, PTL
==============================================================================
