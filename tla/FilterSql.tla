------------------------------ MODULE FilterSql ------------------------------
(***************************************************************************)
(* From a checked filter to the rows a list query selects: the column      *)
(* schema, the transpiler and the renderer of aip-sql (schema.rs,          *)
(* transpile.rs, predicate.rs, dialect.rs), the freight server's use of    *)
(* them (service.rs), and the part of SQLite that reads the result.        *)
(*                                                                         *)
(* A column is named by a path.  Rendered SQL is a sequence of tokens: a   *)
(* parenthesis, a connective, or a whole leaf with the numbers of its      *)
(* placeholders.                                                           *)
(***************************************************************************)
EXTENDS FilterMatch

-----------------------------------------------------------------------------
(* schema.rs *)

IsSortableType(ty) == ty \in {TString, TInt, <<"uint">>, TDouble, TBool, TTimestamp}

\* `for_declarations`: a column per field path, named for the path.
ForDeclarations(d) ==
  LET paths == Range(d.field_paths)
  IN  [columns  |-> [p \in paths |-> p],
       types    |-> [p \in paths |-> d.idents[p]],
       sortable |-> {p \in paths : IsSortableType(d.idents[p])}]

\* `column` and `sort_only`: both map the path and make it sortable.
WithColumn(s, path, column) ==
  [s EXCEPT !.columns = (path :> column) @@ @, !.sortable = @ \cup {path}]

\* `build`: the types are keyed by column from here on.
BuildSchema(s) ==
  [s EXCEPT !.types = [c \in {s.columns[p] : p \in DOMAIN s.types} |->
                         s.types[CHOOSE p \in DOMAIN s.types : s.columns[p] = c]]]

-----------------------------------------------------------------------------
(* service.rs: what ListSites and ListShipments filter on. *)

Field(name) == <<<<name>>>>
Nested(base, name) == <<<<base>>, <<name>>>>

SiteDeclarations ==
  DeclareFields(StandardFunctions(EmptyBuilder), Messages, "Site", EnumNames,
    << Field("display_name"), Field("create_time"), Nested("lat_lng", "latitude"),
       Field("annotations"), Field("tags"), Field("state") >>)

SiteSchema ==
  LET renamed == WithColumn(ForDeclarations(SiteDeclarations),
                            Nested("lat_lng", "latitude"), Field("latitude"))
      timed   == WithColumn(renamed, Field("update_time"), Field("update_time"))
  IN  BuildSchema(WithColumn(timed, Nested("lat_lng", "longitude"), Field("longitude")))

ShipmentDeclarations ==
  DeclareFields(StandardFunctions(EmptyBuilder), Messages, "Shipment", EnumNames,
    << Field("origin_site"), Field("destination_site"), Field("create_time"), Field("annotations") >>)

ShipmentSchema == BuildSchema(ForDeclarations(ShipmentDeclarations))

DeclarationsOf == [Site |-> SiteDeclarations, Shipment |-> ShipmentDeclarations]
SchemaOf       == [Site |-> SiteSchema, Shipment |-> ShipmentSchema]

-----------------------------------------------------------------------------
(* predicate.rs *)

AllOf(parts)     == [is |-> "All", parts |-> parts]
AnyOf(parts)     == [is |-> "Any", parts |-> parts]
Not(part)      == [is |-> "Not", parts |-> <<part>>]
Plain(column)  == [column |-> column, key |-> <<>>]
MapMember(column, key) == [column |-> column, key |-> <<key>>]
Compare(operand, op, value) == [is |-> "Compare", operand |-> operand, op |-> op, value |-> value]
Has(column, test, arg) == [is |-> "Has", column |-> column, test |-> test, arg |-> arg]
IsNull(column) == [is |-> "IsNull", column |-> column]
EqPredicate(column, value) == Compare(Plain(column), "=", value)

\* Mutant: a disjunction binds as tight as a conjunction.
Mut_Precedence_AnyAsAll(p) == CASE p.is = "Not" -> 3 [] p.is \in {"All", "Any"} -> 2 [] OTHER -> 4

Precedence(p) == CASE p.is = "Not" -> 3 [] p.is = "All" -> 2 [] p.is = "Any" -> 1 [] OTHER -> 4

-----------------------------------------------------------------------------
(* transpile.rs.  Refused is `Error::Unsupported` or an invalid duration, a *)
(* bad request; Unmapped is `Error::UnknownIdentifier`, a server fault.     *)

Refused  == [is |-> "Refused"]
Unmapped == [is |-> "Unmapped"]
IsError(p) == p.is \in {"Refused", "Unmapped"}

ColumnOperand(operand) == [is |-> "Column", operand |-> operand]
ValueOperand(value)    == [is |-> "Value", value |-> value]

ColumnOf(schema, path) == IF path \in DOMAIN schema.columns THEN schema.columns[path] ELSE <<>>

\* `to_value`
ToValue(e) == CASE e.ty = TInt -> Num(<<10 * e.n>>) [] e.ty = TDouble -> Num(<<e.n>>)
                [] OTHER -> Txt(e.value)

ClassifyConstructor(e) ==
  LET text == e.args[1].value
  IN  IF e.function \notin {<<"timestamp">>, <<"duration">>} \/ Len(e.args) # 1 THEN Refused
      ELSE IF ~IsString(e.args[1]) THEN Refused
      ELSE IF e.function = <<"timestamp">> THEN ValueOperand(Txt(text))
      ELSE IF DurationSeconds(text) = InvalidDuration THEN Refused
      ELSE ValueOperand(Num(<<DurationSeconds(text)>>))

ClassifyColumn(e, d, schema) ==
  LET column == ColumnOf(schema, QualifiedName(e))
      base   == IF IsA(e, "Select") /\ IsA(e.operand, "Ident")
                  THEN ColumnOf(schema, <<e.operand.name>>) ELSE <<>>
  IN  CASE column # <<>> -> ColumnOperand(Plain(column))
        [] column = <<>> /\ IsA(e, "Ident") ->
             IF IdentType(d, <<e.name>>)[1] = "enum" THEN ValueOperand(Txt(e.name)) ELSE Unmapped
        [] column = <<>> /\ base # <<>> -> ColumnOperand(MapMember(base, e.field))
        [] OTHER -> Unmapped

ClassifyOperand(e, d, schema) ==
  CASE IsA(e, "Const") -> ValueOperand(ToValue(e))
    [] IsA(e, "Call")  -> ClassifyConstructor(e)
    [] OTHER           -> ClassifyColumn(e, d, schema)

\* Mutant: a restriction with its column on the right keeps its operator.
Mut_TranspileCompare_NoMirror(op, left, right, d, schema) ==
  LET l == ClassifyOperand(left, d, schema)
      r == ClassifyOperand(right, d, schema)
  IN  CASE l.is = "Column" /\ r.is = "Value" -> Compare(l.operand, op, r.value)
        [] l.is = "Value" /\ r.is = "Column" -> Compare(r.operand, op, l.value)
        [] OTHER                             -> Refused

TranspileCompare(op, left, right, d, schema) ==
  LET l == ClassifyOperand(left, d, schema)
      r == ClassifyOperand(right, d, schema)
  IN  CASE IsError(l)                        -> l
        [] ~IsError(l) /\ IsError(r)         -> r
        [] l.is = "Column" /\ r.is = "Value" -> Compare(l.operand, op, r.value)
        [] l.is = "Value" /\ r.is = "Column" -> Compare(r.operand, Mirror[op], l.value)
        [] OTHER                             -> Refused

\* The column's declared type picks the test.
TranspileHas(left, right, d, schema) ==
  LET name   == QualifiedName(left)
      column == ColumnOf(schema, name)
      ty     == IdentType(d, name)
  IN  IF ~IsString(right) \/ name = <<>> THEN Refused
      ELSE IF column = <<>> \/ ty = NoType THEN Unmapped
      ELSE CASE ty = TString     -> Has(column, "Substring", right.value)
             [] ty[1] = "map"    -> Has(column, "Key", right.value)
             [] ty[1] = "list"   -> Has(column, "Element", right.value)
             [] ty = TTimestamp  -> Has(column, "Present", <<>>)
             [] OTHER            -> Refused

RECURSIVE TranspileExpr(_, _, _)
TranspileExpr(e, d, schema) ==
  LET sub == [k \in DOMAIN e.args |-> TranspileExpr(e.args[k], d, schema)]
      join(p) == IF \E k \in DOMAIN sub : IsError(sub[k])
                   THEN sub[CHOOSE k \in DOMAIN sub :
                              IsError(sub[k]) /\ \A j \in 1..(k - 1) : ~IsError(sub[j])]
                   ELSE p
      two(f)  == e.function = <<f>> /\ Len(e.args) = 2
  IN  CASE ~IsA(e, "Call")    -> Refused
        [] IsA(e, "Call") /\ two("AND") -> join(AllOf(sub))
        [] IsA(e, "Call") /\ two("OR")  -> join(AnyOf(sub))
        [] IsA(e, "Call") /\ e.function = <<"NOT">> /\ Len(e.args) = 1 -> join(Not(sub[1]))
        [] IsA(e, "Call") /\ two(":")   -> TranspileHas(e.args[1], e.args[2], d, schema)
        [] IsA(e, "Call") /\ (\E op \in DOMAIN Mirror : two(op)) ->
             TranspileCompare(e.function[1], e.args[1], e.args[2], d, schema)
        [] OTHER -> Refused

\* `scoped_predicate`: one equality per concrete parent variable (none for a
\* wildcard), the soft-delete test, the user's filter and the keyset seek.
ScopedPredicate(parent, user_filter, seek) ==
  AllOf([i \in DOMAIN parent |-> EqPredicate(Field(parent[i].variable), Txt(parent[i].value))]
      \o <<IsNull(Field("delete_time"))>> \o user_filter \o seek)

-----------------------------------------------------------------------------
(* dialect.rs: one left-to-right pass that numbers the placeholders; n is  *)
(* how many binds precede.                                                 *)

Written(sql, binds) == [sql |-> sql, binds |-> binds]
Tok(t) == <<[tok |-> t]>>
Paren(w) == Written(Tok("(") \o w.sql \o Tok(")"), w.binds)

EscapeLike(text) ==
  FlattenSeq([i \in DOMAIN text |->
                IF text[i] \in {Backslash, "%", "_"} THEN <<Backslash, text[i]>> ELSE <<text[i]>>])

RenderHas(p, n) ==
  LET leaf(bind) == <<[tok |-> p.test, column |-> p.column, bind |-> bind]>>
  IN  CASE p.test = "Present"   -> Written(leaf(0), <<>>)
        [] p.test = "Substring" -> Written(leaf(n + 1), <<Txt(<<"%">> \o EscapeLike(p.arg) \o <<"%">>)>>)
        [] OTHER                -> Written(leaf(n + 1), <<Txt(p.arg)>>)

\* A map member binds its key just before the value.
RenderCompare(p, n) ==
  LET keys == [i \in DOMAIN p.operand.key |-> Txt(p.operand.key[i])]
      bind == n + Len(keys) + 1
  IN  Written(<<[tok |-> p.op, column |-> p.operand.column,
                 key |-> IF keys = <<>> THEN 0 ELSE n + 1, bind |-> bind]>>,
              Append(keys, p.value))

RECURSIVE WriteNode(_, _), WriteChild(_, _, _)
WriteNode(p, n) ==
  LET join(connective) ==
        FoldLeft(LAMBDA acc, child :
                   LET w == WriteChild(child, Precedence(p), n + Len(acc.binds))
                   IN  Written(acc.sql \o (IF acc.sql = <<>> THEN <<>> ELSE Tok(connective)) \o w.sql,
                               acc.binds \o w.binds),
                 Written(<<>>, <<>>), p.parts)
      inner == WriteChild(p.parts[1], Precedence(p), n)
  IN  CASE p.is = "Compare" -> RenderCompare(p, n)
        [] p.is = "Has"     -> RenderHas(p, n)
        [] p.is = "IsNull"  -> Written(<<[tok |-> "IsNull", column |-> p.column]>>, <<>>)
        [] p.is = "Not"     -> Written(Tok("NOT") \o inner.sql, inner.binds)
        [] p.is = "All"     -> IF p.parts = <<>> THEN Written(Tok("1 = 1"), <<>>) ELSE join("AND")
        [] p.is = "Any"     -> IF p.parts = <<>> THEN Written(Tok("1 = 0"), <<>>) ELSE join("OR")

WriteChild(child, parent_precedence, n) ==
  IF Precedence(child) < parent_precedence THEN Paren(WriteNode(child, n)) ELSE WriteNode(child, n)

Render(p) == WriteNode(p, 0)

-----------------------------------------------------------------------------
(* storage.rs: the rows that sites and shipments are stored as. *)

NULL == [is |-> "NULL"]
Json(value) == [is |-> "Json", v |-> value]

StoreTimestamp(message, f) == IF f \in DOMAIN message THEN Txt(Rfc3339(message[f])) ELSE NULL

\* `put_shipment`, without the columns nothing filters on.
PutShipment(shipper, shipment, message) ==
  (Field("shipper") :> Txt(shipper)) @@ (Field("shipment") :> Txt(shipment))
  @@ (Field("create_time") :> StoreTimestamp(message, <<"create_time">>))
  @@ (Field("delete_time") :> StoreTimestamp(message, <<"delete_time">>))
  @@ (Field("origin_site") :> Txt(message[<<"origin_site">>]))
  @@ (Field("destination_site") :> Txt(message[<<"destination_site">>]))
  @@ (Field("annotations") :> Json(message[<<"annotations">>]))

\* `put_site`: an enum number with no name is stored as the first value, and
\* SQLite keeps a NaN as NULL.
PutSite(shipper, site, message) ==
  LET coordinate(f) ==
        IF <<"lat_lng">> \notin DOMAIN message THEN NULL
        ELSE IF message[<<"lat_lng">>][f] = <<>> THEN NULL ELSE Num(message[<<"lat_lng">>][f])
      number == message[<<"state">>] + 1
      names  == EnumNames["State"]
  IN  (Field("shipper") :> Txt(shipper)) @@ (Field("site") :> Txt(site))
      @@ (Field("display_name") :> Txt(message[<<"display_name">>]))
      @@ (Field("create_time") :> StoreTimestamp(message, <<"create_time">>))
      @@ (Field("delete_time") :> StoreTimestamp(message, <<"delete_time">>))
      @@ (Field("latitude") :> coordinate(<<"latitude">>))
      @@ (Field("longitude") :> coordinate(<<"longitude">>))
      @@ (Field("state") :> Txt(IF number \in DOMAIN names THEN names[number] ELSE names[1]))
      @@ (Field("annotations") :> Json(message[<<"annotations">>]))
      @@ (Field("tags") :> Json(message[<<"tags">>]))

-----------------------------------------------------------------------------
(* storage.rs: the messages the rows are read back as. *)

\* `load_timestamp`: the field is unset where the column is NULL.
LoadTimestamp(row, name) ==
  IF row[Field(name)] = NULL THEN <<>>
  ELSE <<name>> :> (CHOOSE t \in 0..2 : Rfc3339(t) = row[Field(name)].v)

RowToShipment(row) ==
  LoadTimestamp(row, "create_time") @@ LoadTimestamp(row, "delete_time")
  @@ (<<"origin_site">> :> row[Field("origin_site")].v)
  @@ (<<"destination_site">> :> row[Field("destination_site")].v)
  @@ (<<"annotations">> :> row[Field("annotations")].v)

\* `lat_lng`: absent when both columns are NULL; one NULL column reads as 0.
LatLng(row) ==
  LET degrees(name) == IF row[Field(name)] = NULL THEN <<0>> ELSE row[Field(name)].v
  IN  IF row[Field("latitude")] = NULL /\ row[Field("longitude")] = NULL THEN <<>>
      ELSE <<"lat_lng">> :> ((<<"latitude">> :> degrees("latitude"))
                             @@ (<<"longitude">> :> degrees("longitude")))

RowToSite(row) ==
  LoadTimestamp(row, "create_time") @@ LoadTimestamp(row, "delete_time") @@ LatLng(row)
  @@ (<<"display_name">> :> row[Field("display_name")].v)
  @@ (<<"state">> :> (CHOOSE n \in 0..2 : EnumNames["State"][n + 1] = row[Field("state")].v))
  @@ (<<"annotations">> :> row[Field("annotations")].v)
  @@ (<<"tags">> :> row[Field("tags")].v)

-----------------------------------------------------------------------------
(* External: SQLite's reading of the rendered text.  A truth value is 0    *)
(* false, 1 NULL or 2 true; NOT binds tighter than AND, AND than OR.       *)

Truth(b) == IF b THEN 2 ELSE 0

RECURSIVE Like(_, _)
Like(text, pattern) ==
  IF pattern = <<>> THEN text = <<>>
  ELSE IF pattern[1] = "%" THEN \E i \in 0..Len(text) : Like(SubSeq(text, i + 1, Len(text)), Tail(pattern))
  ELSE IF text = <<>> THEN FALSE
  ELSE IF pattern[1] = "_" THEN Like(Tail(text), Tail(pattern))
  ELSE LET literal == IF pattern[1] = Backslash /\ Len(pattern) > 1 THEN Tail(pattern) ELSE pattern
       IN  Lower[text[1]] = Lower[literal[1]] /\ Like(Tail(text), Tail(literal))

\* What `->>` takes for a JSON path, not for the name of a member.
IsJsonPath(key) ==
  \/ key[1] = "$"
  \/ key[1] = "[" /\ Last(key) = "]" /\ Len(key) > 2

\* `column ->> key` on an object of texts.  The path `$` is the whole document,
\* of whose text the opening brace is kept; `$.name` is a member; an index finds
\* nothing in an object.  Any other path fails the statement: none is used.
JsonMember(object, key) ==
  LET member(name) == IF name \in DOMAIN object THEN Txt(object[name]) ELSE NULL
  IN  CASE ~IsJsonPath(key)                   -> member(key)
        [] key = <<"$">>                      -> Txt(<<"{">>)
        [] IsJsonPath(key) /\ key[1] = "["    -> NULL
        [] Len(key) > 2 /\ key[1] = "$" /\ key[2] = "." -> member(SubSeq(key, 3, Len(key)))

SqlLeaf(leaf, binds, row) ==
  LET stored == row[leaf.column]
      arg    == binds[leaf.bind]
      left   == IF leaf.key = 0 THEN stored ELSE JsonMember(stored.v, binds[leaf.key].v)
      cmp    == ApplyOp(leaf.tok, left, arg)
  IN  CASE leaf.tok = "IsNull"    -> Truth(stored = NULL)
        [] leaf.tok = "Present"   -> Truth(stored # NULL)
        [] leaf.tok = "Substring" -> IF stored = NULL THEN 1 ELSE Truth(Like(stored.v, arg.v))
        [] leaf.tok = "Key"       -> Truth(arg.v \in DOMAIN stored.v)
        [] leaf.tok = "Element"   -> Truth(Contains(stored.v, arg.v))
        [] OTHER -> IF left = NULL THEN 1 ELSE Truth(cmp = "True")

RECURSIVE SqlOr(_, _, _, _), SqlAnd(_, _, _, _), SqlNot(_, _, _, _)
SqlNot(sql, binds, row, i) ==
  CASE sql[i].tok = "NOT"   -> LET r == SqlNot(sql, binds, row, i + 1) IN [pos |-> r.pos, v |-> 2 - r.v]
    [] sql[i].tok = "("     -> LET r == SqlOr(sql, binds, row, i + 1) IN [pos |-> r.pos + 1, v |-> r.v]
    [] sql[i].tok = "1 = 1" -> [pos |-> i + 1, v |-> 2]
    [] sql[i].tok = "1 = 0" -> [pos |-> i + 1, v |-> 0]
    [] OTHER            -> [pos |-> i + 1, v |-> SqlLeaf(sql[i], binds, row)]

SqlAnd(sql, binds, row, i) ==
  LET left == SqlNot(sql, binds, row, i)
  IN  IF left.pos \in DOMAIN sql /\ sql[left.pos].tok = "AND"
        THEN LET right == SqlAnd(sql, binds, row, left.pos + 1)
             IN  [pos |-> right.pos, v |-> Min({left.v, right.v})]
        ELSE left

SqlOr(sql, binds, row, i) ==
  LET left == SqlAnd(sql, binds, row, i)
  IN  IF left.pos \in DOMAIN sql /\ sql[left.pos].tok = "OR"
        THEN LET right == SqlOr(sql, binds, row, left.pos + 1)
             IN  [pos |-> right.pos, v |-> Max({left.v, right.v})]
        ELSE left

\* A row is selected when the WHERE clause is true, not merely unknown.
Selects(rendered, row) == SqlOr(rendered.sql, rendered.binds, row, 1).v = 2
=============================================================================
