------------------------------- MODULE Filters -------------------------------
(***************************************************************************)
(* What the filter pipeline promises, over every expression that a client  *)
(* can grow from a set of restrictions: it is printed, parsed, checked,    *)
(* carried through CEL, rewritten, matched in memory and run as SQL.       *)
(***************************************************************************)
EXTENDS FilterSql

CONSTANTS
  Leaves,          \* resource -> the expressions a filter of it may start from
  Operands,        \* resource -> the ones a connective may join to it
  Styles,          \* how a client may spell the same expression
  Stored,          \* resource -> what is stored: [shipper, id, message]
  Parents,         \* concrete parents, and <<>> for the wildcard
  MaxConnectives

VARIABLES
  resource,        \* what is listed, "Site" or "Shipment"
  expr,            \* the filter, as the client means it
  connectives      \* how many connectives it has been grown by

vars == <<resource, expr, connectives>>

Init == /\ resource \in DOMAIN Leaves
        /\ expr \in Leaves[resource]
        /\ connectives = 0

Grown(e) == /\ connectives < MaxConnectives
            /\ expr' = e
            /\ connectives' = connectives + 1
            /\ UNCHANGED resource

Join(function, operand) == Grown(Call(<<function>>, <<expr, operand>>))
JoinedTo(function, operand) == Grown(Call(<<function>>, <<operand, expr>>))
Negate == Grown(Call(<<"NOT">>, <<expr>>))
StartOver == /\ connectives = MaxConnectives
             /\ expr' \in Operands[resource]
             /\ connectives' = 0
             /\ UNCHANGED resource

Next == \/ \E f \in {"AND", "OR", "FUZZY"}, operand \in Operands[resource] :
             Join(f, operand) \/ JoinedTo(f, operand)
        \/ Negate
        \/ StartOver

Spec == Init /\ [][Next]_vars

-----------------------------------------------------------------------------
(* The printer: the grammar of AIP-160 read backwards.  OR binds tighter   *)
(* than a sequence and a sequence tighter than AND.                        *)

Binding(e) ==
  CASE ~IsA(e, "Call")             -> 5
    [] e.function = <<"AND">>      -> 1
    [] e.function = <<"FUZZY">>    -> 2
    [] e.function = <<"OR">>       -> 3
    [] e.function = <<"NOT">>      -> 4
    [] OTHER                       -> 5

Spelling(f) == CASE f = <<"!=">> -> <<"!", "=">> [] f = <<"<=">> -> <<"<", "=">>
                 [] f = <<">=">> -> <<">", "=">> [] OTHER -> f

Connective(f) == CASE f = <<"FUZZY">> -> <<" ">> [] OTHER -> <<" ">> \o f \o <<" ">>

DigitText(n) == <<<<"0", "1", "2", "3">>[n + 1]>>

PrintConst(e, style) ==
  LET magnitude == IF e.n < 0 THEN -e.n ELSE e.n
      sign      == IF e.n < 0 THEN <<"-">> ELSE <<>>
      escaped   == FlattenSeq([i \in DOMAIN e.value |->
                     IF e.value[i] \in {style.quote, Backslash} THEN <<Backslash, e.value[i]>>
                                                                ELSE <<e.value[i]>>])
  IN  CASE e.ty = TInt    -> sign \o DigitText(magnitude)
        [] e.ty = TDouble -> sign \o DigitText(magnitude \div 10) \o <<".">> \o DigitText(magnitude % 10)
        [] e.ty = TString -> <<style.quote>> \o escaped \o <<style.quote>>

\* A word that may stand unquoted on the right of `:`.
IsWord(e) == /\ IsString(e) /\ Len(e.value) = 1
             /\ e.value[1] \notin Operators \cup Digits \cup Quotes \cup {" ", "NOT", "AND", "OR"}

RECURSIVE PrintExpr(_, _)
PrintExpr(e, style) ==
  LET paren(a) == <<"(">> \o PrintExpr(a, style) \o <<")">>
      left(a)  == IF Binding(a) < Binding(e) THEN paren(a) ELSE PrintExpr(a, style)
      right(a) == IF Binding(a) =< Binding(e) /\ Binding(a) < 5 THEN paren(a) ELSE PrintExpr(a, style)
      field(f) == IF \A i \in DOMAIN f : IsText(f[i]) THEN f ELSE PrintConst(Const(TString, f), style)
      operand(a) == IF style.bare /\ e.function = <<":">> /\ IsWord(a) THEN a.value ELSE PrintExpr(a, style)
  IN  CASE IsA(e, "Const")  -> PrintConst(e, style)
        [] IsA(e, "Ident")  -> e.name
        [] IsA(e, "Select") -> PrintExpr(e.operand, style) \o <<".">> \o field(e.field)
        [] IsA(e, "Call") /\ e.function = <<"NOT">> -> style.not \o right(e.args[1])
        [] IsA(e, "Call") /\ Binding(e) \in {1, 2, 3} ->
             left(e.args[1]) \o Connective(e.function) \o right(e.args[2])
        [] IsA(e, "Call") /\ e.function \in {<<"timestamp">>, <<"duration">>} ->
             e.function \o <<"(">> \o PrintExpr(e.args[1], style) \o <<")">>
        [] OTHER -> PrintExpr(e.args[1], style)
                    \o (IF style.space THEN <<" ">> \o Spelling(e.function) \o <<" ">> ELSE Spelling(e.function))
                    \o operand(e.args[2])

\* A filter printed with no more parentheses than AIP-160 asks for parses
\* back to the same tree, however it is quoted, spaced and negated: the
\* parser's precedence (OR before juxtaposition before AND), associativity
\* and literals are those of the grammar, through lexer.rs and parser.rs.
ParsesAsWritten ==
  \A style \in Styles : \E source \in {PrintExpr(expr, style)} :
    ParseFilter(source) = Done(Len(Tokenize(source)) + 1, expr)

-----------------------------------------------------------------------------
(* CEL and macros. *)

\* A filter exported to a CEL expression has ids 1..n, each once, and comes
\* back as itself (cel_proto.rs).
CelKeepsFilter ==
  LET cel == BuildCelExpr(expr, 1)
      ids == CelIds(cel)
  IN  /\ FromCel(cel) = expr
      /\ Range(ids) = 1..Size(expr) /\ Len(ids) = Size(expr)

RECURSIVE Occurrences(_, _)
Occurrences(e, node) ==
  IF e = node THEN 1
  ELSE CASE IsA(e, "Call") -> FoldLeft(LAMBDA n, a : n + Occurrences(a, node), 0, e.args)
         [] OTHER -> 0

\* A macro that expands x to y OR z and y to z, applied to a filter: every x
\* is expanded, every y of the filter is replaced, and the y that an expansion
\* brought in stays, since a rewritten node is not visited again (macros.rs).
MacroRewritesOnce ==
  \A x, y, z \in Operands[resource] : Cardinality({x, y, z}) = 3 =>
    LET macro  == (x :> Call(<<"OR">>, <<y, z>>)) @@ (y :> z)
        result == ApplyMacro(expr, macro)
    IN  /\ Occurrences(result, x) = 0
        /\ Occurrences(result, y) = Occurrences(expr, x)
        /\ Occurrences(result, z) = Occurrences(expr, x) + Occurrences(expr, y) + Occurrences(expr, z)

-----------------------------------------------------------------------------
(* The two evaluators. *)

Predicate == TranspileExpr(expr, DeclarationsOf[resource], SchemaOf[resource])
Served == Checks(expr, DeclarationsOf[resource]) /\ ~IsError(Predicate)

ParentScope(parent) == [i \in DOMAIN parent |-> [variable |-> "shipper", value |-> parent[i]]]
Query(parent) == Render(ScopedPredicate(ParentScope(parent), <<Predicate>>, <<>>))

Row(s) == IF resource = "Site" THEN PutSite(s.shipper, s.id, s.message)
                                ELSE PutShipment(s.shipper, s.id, s.message)
Loaded(row)  == IF resource = "Site" THEN RowToSite(row) ELSE RowToShipment(row)
Matches(row) == Eval(expr, DeclarationsOf[resource], resource, Loaded(row))

\* A site stored with a NaN for one coordinate is read back with 0 for it.
HalfAPosition(row) ==
  resource = "Site" /\ (row[Field("latitude")] = NULL) # (row[Field("longitude")] = NULL)

RECURSIVE MemberNames(_)
MemberNames(e) == CASE IsA(e, "Select") -> {e.field}
                    [] IsA(e, "Call")   -> UNION {MemberNames(e.args[k]) : k \in DOMAIN e.args}
                    [] OTHER            -> {}

\* The same filter selects the same live resources in memory and in SQLite:
\* for every filter that type-checks and transpiles, the rows that the query
\* selects are those whose message the matcher accepts, and the matcher meets
\* nothing it cannot evaluate.  Absence, mirrored operators, substrings with
\* LIKE's own metacharacters, map members, enum names and instants included
\* (matcher.rs against transpile.rs, dialect.rs and storage.rs).  Excepted are
\* the filters that compare a map member whose key SQLite's `->>` reads as a
\* JSON path (`annotations.$`): for those the two do differ.
OneMeaning ==
  Served /\ (\A key \in MemberNames(expr) : ~IsJsonPath(key)) =>
    \A s \in Stored[resource] :
      LET row == Row(s)
      IN  row[Field("delete_time")] = NULL /\ ~HalfAPosition(row) =>
            /\ Matches(row) # "Error"
            /\ Selects(Query(<<>>), row) = (Matches(row) = "True")

\* Whatever the filter, a list under a concrete parent selects no row of
\* another shipper and no deleted row: the rendered text keeps the server's
\* clauses apart from a user's OR (dialect.rs, service.rs `scoped_predicate`).
FilterKeepsScope ==
  Served =>
    \A parent \in Parents : \A s \in Stored[resource] : Selects(Query(parent), Row(s)) =>
      /\ parent # <<>> => s.shipper = parent[1]
      /\ <<"delete_time">> \notin DOMAIN s.message
=============================================================================
