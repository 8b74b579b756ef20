----------------------------- MODULE FilterCheck -----------------------------
(***************************************************************************)
(* The declarations a filter is checked against and the type-checker       *)
(* (lib.rs and checker.rs of aip-filtering), the CEL bridge                *)
(* (cel_proto.rs) and the macro rewriter (macros.rs).                      *)
(*                                                                         *)
(* A type is a tuple that begins with its name.  A path is a sequence of   *)
(* texts; a member chain's `qualified_name` is such a path.  A message     *)
(* descriptor is a function from field names to [card, kind, of].          *)
(***************************************************************************)
EXTENDS FilterParse

TBool     == <<"bool">>
TInt      == <<"int">>
TDouble   == <<"double">>
TString   == <<"string">>
TTimestamp == <<"timestamp">>
TDuration == <<"duration">>
Enum(name)       == <<"enum", name>>
MapOf(key, value) == <<"map", key, value>>
ListOf(element)  == <<"list", element>>

\* No type: an unknown path, an unfilterable kind, or a checker error.
NoType == <<"error">>

Overload(result, params) == [result |-> result, params |-> params]

-----------------------------------------------------------------------------
(* DeclarationsBuilder *)

\* `kind_to_type`, for a scalar leaf, a map key or value, or a list element.
KindToType(field) ==
  CASE field.kind \in {"Double", "Float"}          -> TDouble
    [] field.kind \in {"Int32", "Int64"}           -> TInt
    [] field.kind \in {"Uint32", "Uint64"}         -> <<"uint">>
    [] field.kind = "Bool"                         -> TBool
    [] field.kind = "String"                       -> TString
    [] field.kind = "Message" /\ field.of = "Timestamp" -> TTimestamp
    [] OTHER                                       -> NoType

\* `resolve_leaf`; a map's `of` holds its key and value fields.
ResolveLeaf(field) ==
  CASE field.card = "map" ->
         LET key == KindToType(field.of.key)  value == KindToType(field.of.value)
         IN  IF NoType \in {key, value} THEN NoType ELSE MapOf(key, value)
    [] field.card = "list" ->
         IF KindToType(field) = NoType THEN NoType ELSE ListOf(KindToType(field))
    [] field.card = "one" /\ field.kind = "Enum" -> Enum(field.of)
    [] OTHER -> KindToType(field)

\* `resolve_path` and `descend`: only a singular message has subfields.
RECURSIVE ResolvePath(_, _, _)
ResolvePath(messages, message, path) ==
  IF path = <<>> \/ message \notin DOMAIN messages THEN NoType
  ELSE IF Head(path) \notin DOMAIN messages[message] THEN NoType
  ELSE LET field == messages[message][Head(path)]
       IN  IF Len(path) = 1 THEN ResolveLeaf(field)
           ELSE IF field.card # "one" \/ field.kind # "Message" THEN NoType
           ELSE ResolvePath(messages, field.of, Tail(path))

EmptyBuilder == [idents |-> <<>>, functions |-> <<>>, field_paths |-> <<>>, deferred |-> FALSE]

\* `function`: declaring a name again adds to its overloads.
DeclareFunction(b, name, overloads) ==
  LET known == IF name \in DOMAIN b.functions THEN b.functions[name] ELSE {}
  IN  [b EXCEPT !.functions = (name :> (known \cup overloads)) @@ @]

Ordering == { Overload(TBool, <<TInt, TInt>>), Overload(TBool, <<TDouble, TDouble>>),
              Overload(TBool, <<TDouble, TInt>>), Overload(TBool, <<TString, TString>>),
              Overload(TBool, <<TTimestamp, TTimestamp>>), Overload(TBool, <<TTimestamp, TString>>),
              Overload(TBool, <<TDuration, TDuration>>) }
Equality == Ordering \cup {Overload(TBool, <<TBool, TBool>>)}
HasOverloads == { Overload(TBool, <<t, TString>>) :
                    t \in {TString, MapOf(TString, TString), ListOf(TString), TTimestamp} }

StandardFunctions(b) ==
  LET declare(acc, f) == DeclareFunction(acc, <<f[1]>>, f[2])
  IN  FoldLeft(declare, b,
        << <<"=", Equality>>, <<"!=", Equality>>, <<"<", Ordering>>, <<"<=", Ordering>>,
           <<">", Ordering>>, <<">=", Ordering>>, <<":", HasOverloads>>,
           <<"AND", {Overload(TBool, <<TBool, TBool>>)}>>, <<"OR", {Overload(TBool, <<TBool, TBool>>)}>>,
           <<"NOT", {Overload(TBool, <<TBool>>)}>>,
           <<"timestamp", {Overload(TTimestamp, <<TString>>)}>>,
           <<"duration", {Overload(TDuration, <<TString>>)}>> >>)

\* `value_ident`: an identifier that is no field path.
ValueIdent(b, path, ty) == [b EXCEPT !.idents = (path :> ty) @@ @]

\* `ident`: a field path, recorded once in declaration order.
DeclareIdent(b, path, ty) ==
  [ValueIdent(b, path, ty) EXCEPT !.field_paths = IF Contains(@, path) THEN @ ELSE Append(@, path)]

\* `enum_ident`: the field, `=` and `!=` over the enum, and each value name.
EnumIdent(b, path, enum, values) ==
  LET overload == {Overload(TBool, <<Enum(enum), Enum(enum)>>)}
      field    == DeclareIdent(b, path, Enum(enum))
      compared == DeclareFunction(DeclareFunction(field, <<"=">>, overload), <<"!=">>, overload)
  IN  FoldLeft(LAMBDA acc, v : ValueIdent(acc, <<v>>, Enum(enum)), compared, values)

\* `fields`: the first path that does not resolve is deferred to `build`.
DeclareFields(b, messages, message, enums, paths) ==
  LET declare(acc, path) ==
        LET ty == ResolvePath(messages, message, path)
        IN  CASE acc.deferred                 -> acc
              [] ~acc.deferred /\ ty = NoType -> [acc EXCEPT !.deferred = TRUE]
              [] ~acc.deferred /\ ty[1] = "enum" -> EnumIdent(acc, path, ty[2], enums[ty[2]])
              [] OTHER                        -> DeclareIdent(acc, path, ty)
  IN  FoldLeft(declare, b, paths)

-----------------------------------------------------------------------------
(* The checker. *)

IdentType(d, path) == IF path \in DOMAIN d.idents THEN d.idents[path] ELSE NoType

RECURSIVE QualifiedName(_)
QualifiedName(e) ==
  CASE IsA(e, "Ident")  -> <<e.name>>
    [] IsA(e, "Select") -> LET base == QualifiedName(e.operand)
                           IN  IF base = <<>> THEN <<>> ELSE Append(base, e.field)
    [] OTHER            -> <<>>

\* The has operator on a timestamp takes the wildcard only.
PresenceOnly(function, args, types) ==
  /\ function = <<":">> /\ types = <<TTimestamp, TString>>
  /\ IsString(args[2]) /\ args[2].value # <<"*">>

RECURSIVE TypeOf(_, _)
TypeOf(e, d) ==
  CASE IsA(e, "Const") -> e.ty
    [] IsA(e, "Ident") -> IdentType(d, <<e.name>>)
    [] IsA(e, "Select") ->
         IF QualifiedName(e) # <<>> /\ IdentType(d, QualifiedName(e)) # NoType
           THEN IdentType(d, QualifiedName(e))
           ELSE LET base == TypeOf(e.operand, d)
                IN  IF base[1] = "map" THEN base[3] ELSE NoType
    [] IsA(e, "Call") ->
         LET types == [k \in DOMAIN e.args |-> TypeOf(e.args[k], d)]
             found == {o \in d.functions[e.function] : o.params = types}
         IN  IF NoType \in Range(types) \/ e.function \notin DOMAIN d.functions THEN NoType
             ELSE IF found = {} \/ PresenceOnly(e.function, e.args, types) THEN NoType
             ELSE (CHOOSE o \in found : TRUE).result

Checks(e, d) == TypeOf(e, d) = TBool

-----------------------------------------------------------------------------
(* cel_proto.rs: every node of the tree gets the next id, a parent before  *)
(* its children.                                                           *)

RECURSIVE Size(_)
Size(e) == CASE IsA(e, "Select") -> 1 + Size(e.operand)
             [] IsA(e, "Call")   -> FoldLeft(LAMBDA n, a : n + Size(a), 1, e.args)
             [] OTHER            -> 1

\* Mutant: the ids of siblings are consecutive.
Mut_ArgId_BySibling(e, k, next_id) == next_id + k

\* `next_id` when the k-th argument is built: after the subtrees before it.
ArgId(e, k, next_id) == FoldLeft(LAMBDA n, a : n + Size(a), next_id + 1, SubSeq(e.args, 1, k - 1))

RECURSIVE BuildCelExpr(_, _)
BuildCelExpr(e, next_id) ==
  LET node == CASE IsA(e, "Select") -> [e EXCEPT !.operand = BuildCelExpr(@, next_id + 1)]
                [] IsA(e, "Call") ->
                     [e EXCEPT !.args = [k \in DOMAIN @ |-> BuildCelExpr(@[k], ArgId(e, k, next_id))]]
                [] OTHER -> e
  IN  [id |-> next_id, test_only |-> FALSE, target |-> FALSE] @@ node

\* The CEL kinds with no native form (lists, structs, comprehensions,
\* presence tests, method calls) are refused; here, Fail.
RECURSIVE FromCel(_)
FromCel(cel) ==
  CASE cel.kind = "Const" -> IF cel.ty = TString THEN Const(cel.ty, cel.value) ELSE Numeral(cel.ty, cel.n)
    [] cel.kind = "Ident" -> Ident(cel.name)
    [] cel.kind = "Select" /\ ~cel.test_only -> Select(FromCel(cel.operand), cel.field)
    [] cel.kind = "Call" /\ ~cel.target ->
         Call(cel.function, [k \in DOMAIN cel.args |-> FromCel(cel.args[k])])
    [] OTHER -> Fail

RECURSIVE CelIds(_)
CelIds(cel) ==
  <<cel.id>> \o CASE cel.kind = "Select" -> CelIds(cel.operand)
                  [] cel.kind = "Call"   -> FlattenSeq([k \in DOMAIN cel.args |-> CelIds(cel.args[k])])
                  [] OTHER               -> <<>>

-----------------------------------------------------------------------------
(* macros.rs: pre-order, and a replaced node is not descended into.  A     *)
(* macro is a function from the nodes it rewrites to their rewritings.     *)

\* Mutant: what a replacement brings in is rewritten too.
Mut_Replaced_Again(e, macro) ==
  [macro[e] EXCEPT !.args = [k \in DOMAIN @ |-> IF @[k] \in DOMAIN macro THEN macro[@[k]] ELSE @[k]]]

Replaced(e, macro) == macro[e]

RECURSIVE ApplyMacro(_, _)
ApplyMacro(e, macro) ==
  CASE e \in DOMAIN macro -> Replaced(e, macro)
    [] e \notin DOMAIN macro /\ IsA(e, "Select") -> [e EXCEPT !.operand = ApplyMacro(@, macro)]
    [] e \notin DOMAIN macro /\ IsA(e, "Call")   ->
         [e EXCEPT !.args = [k \in DOMAIN @ |-> ApplyMacro(@[k], macro)]]
    [] OTHER -> e
=============================================================================
