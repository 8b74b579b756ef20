----------------------------- MODULE FilterMatch -----------------------------
(***************************************************************************)
(* The in-memory matcher of aip-filtering (matcher.rs): a checked filter   *)
(* evaluated against a message in three-valued logic.                      *)
(*                                                                         *)
(* A message is a function from the names of its fields to their values;   *)
(* an unset singular message is not in the domain, any other field always  *)
(* is.  A timestamp is its seconds and a double <<tenths>>, NaN being <<>>.*)
(***************************************************************************)
EXTENDS FilterCheck

CONSTANTS
  Messages,     \* message type -> field name -> [card, kind, of]
  EnumNames,    \* enum -> the names of its values, in the order of numbers 0..
  Rank,         \* symbol -> its place in byte order
  Lower         \* symbol -> the symbol in ASCII lower case

\* Byte order of texts.
TextLess(a, b) ==
  \/ IsStrictPrefix(a, b)
  \/ \E i \in DOMAIN a \cap DOMAIN b :
       /\ \A j \in 1..(i - 1) : a[j] = b[j]
       /\ Rank[a[i]] < Rank[b[i]]

ToLower(text) == [i \in DOMAIN text |-> Lower[text[i]]]

ContainsText(haystack, needle) ==
  \E i \in 0..(Len(haystack) - Len(needle)) :
    \A j \in DOMAIN needle : haystack[i + j] = needle[j]

\* `rfc3339`, and the store's `format_timestamp`: seconds before the epoch are
\* clamped to it.  The text of an instant is one symbol here, which Rank places
\* in the order of the instants: module Civil writes it out, and the property
\* CalendarKeepsOrder is that its order is that one.
Rfc3339(seconds) == <<IF seconds < 0 THEN "t0" ELSE <<"t0", "t1", "t2">>[seconds + 1]>>

\* `duration_seconds_str`, in tenths: a number of seconds and an `s`.
InvalidDuration == -1
DurationSeconds(text) ==
  IF Len(text) > 1 /\ Last(text) = "s" /\ Range(Front(text)) \subseteq Digits
    THEN 10 * InBase(Front(text), 10) ELSE InvalidDuration

-----------------------------------------------------------------------------
(* Three-valued logic, with the error that any operand raises. *)

And3(a, b) == CASE "Error" \in {a, b}       -> "Error"
                [] "Error" \notin {a, b} /\ "False" \in {a, b} -> "False"
                [] a = "True" /\ b = "True" -> "True"
                [] OTHER                    -> "Unknown"
Or3(a, b)  == CASE "Error" \in {a, b}       -> "Error"
                [] "Error" \notin {a, b} /\ "True" \in {a, b} -> "True"
                [] a = "False" /\ b = "False" -> "False"
                [] OTHER                    -> "Unknown"

Not3(a)    == CASE a = "True" -> "False" [] a = "False" -> "True" [] OTHER -> a
Known(b)   == IF b THEN "True" ELSE "False"

Mirror == [op \in {"=", "!=", "<", "<=", ">", ">="} |->
             CASE op = "<" -> ">" [] op = "<=" -> ">=" [] op = ">" -> "<"
               [] op = ">=" -> "<=" [] OTHER -> op]

-----------------------------------------------------------------------------
(* Operands. *)

Num(tenths) == [is |-> "Num", v |-> tenths]
Txt(text)   == [is |-> "Text", v |-> text]

\* `apply`: operands of different kinds are an error, NaN compares false.
ApplyOp(op, a, b) ==
  LET less(x, y)    == IF a.is = "Num" THEN x[1] < y[1] ELSE TextLess(x, y)
  IN  IF a.is # b.is THEN "Error"
      ELSE IF a.is = "Num" /\ <<>> \in {a.v, b.v} THEN "False"
      ELSE Known(CASE op = "="  -> a.v = b.v
                   [] op = "!=" -> a.v # b.v
                   [] op = "<"  -> less(a.v, b.v)
                   [] op = "<=" -> ~less(b.v, a.v)
                   [] op = ">"  -> less(b.v, a.v)
                   [] op = ">=" -> ~less(a.v, b.v))

Present(field, value) == [is |-> "Present", field |-> field, value |-> value]
Absent                == [is |-> "Absent"]
NotAField             == [is |-> "NotAField"]
Literal               == [is |-> "Literal"]
Unevaluable           == [is |-> "Error"]

IsSingularMessage(field) == field.kind = "Message" /\ field.card = "one"

\* `resolve_path`: an unset message on the way, or at the end, is absence.
RECURSIVE PathIn(_, _, _)
PathIn(type, message, path) ==
  IF path = <<>> \/ Head(path) \notin DOMAIN Messages[type] THEN NotAField
  ELSE LET field == Messages[type][Head(path)]
       IN  IF Len(path) > 1 /\ ~IsSingularMessage(field) THEN NotAField
           ELSE IF IsSingularMessage(field) /\ Head(path) \notin DOMAIN message THEN Absent
           ELSE IF Len(path) = 1 THEN Present(field, message[Head(path)])
           ELSE PathIn(field.of, message[Head(path)], Tail(path))

\* `classify_select`: a field path, or else a member of a map field.
ClassifySelect(e, type, message) ==
  LET resolved == PathIn(type, message, QualifiedName(e))
      base     == e.operand.name
  IN  IF resolved # NotAField THEN resolved
      ELSE IF ~IsA(e.operand, "Ident") THEN Unevaluable
      ELSE IF base \notin DOMAIN Messages[type] THEN Unevaluable
      ELSE IF Messages[type][base].card # "map" THEN Unevaluable
      ELSE IF e.field \in DOMAIN message[base]
        THEN Present(Messages[type][base].of.value, message[base][e.field])
      ELSE Absent

Classify(e, d, type, message) ==
  CASE IsA(e, "Const")  -> Literal
    [] IsA(e, "Call")   -> IF e.function \in {<<"timestamp">>, <<"duration">>}
                             THEN Literal ELSE Unevaluable
    [] IsA(e, "Ident")  -> LET resolved == PathIn(type, message, <<e.name>>)
                           IN  IF resolved # NotAField THEN resolved
                               ELSE IF IdentType(d, <<e.name>>)[1] = "enum" THEN Literal
                               ELSE Unevaluable
    [] IsA(e, "Select") -> ClassifySelect(e, type, message)

\* An enum lowers to its value's name; a number with none to its decimal text,
\* which is no name.
EnumName(enum, number) ==
  IF number + 1 \in DOMAIN EnumNames[enum] THEN EnumNames[enum][number + 1] ELSE <<"decimal">>

\* `lower_field`: an enum is its name, a timestamp its text.
LowerField(field, value) ==
  CASE field.card = "one" /\ field.kind = "String" -> Txt(value)
    [] field.card = "one" /\ field.kind = "Double" -> Num(value)
    [] field.card = "one" /\ field.kind = "Enum"   -> Txt(EnumName(field.of, value))
    [] field.card = "one" /\ field.kind = "Message" /\ field.of = "Timestamp" -> Txt(Rfc3339(value))
    [] OTHER -> Unevaluable

LowerLiteral(e) ==
  LET constructed == IsA(e, "Call") /\ Len(e.args) = 1
  IN  CASE IsA(e, "Const") /\ e.ty = TInt    -> Num(<<10 * e.n>>)
        [] IsA(e, "Const") /\ e.ty = TDouble -> Num(<<e.n>>)
        [] IsA(e, "Const") /\ e.ty = TString -> Txt(e.value)
        [] IsA(e, "Ident")                   -> Txt(e.name)
        [] constructed /\ e.function = <<"timestamp">> /\ IsString(e.args[1]) -> Txt(e.args[1].value)
        [] constructed /\ e.function = <<"duration">> /\ IsString(e.args[1]) ->
             IF DurationSeconds(e.args[1].value) = InvalidDuration THEN Unevaluable
             ELSE Num(<<DurationSeconds(e.args[1].value)>>)
        [] OTHER                             -> Unevaluable

-----------------------------------------------------------------------------
(* Evaluation. *)

EvalCompare(op, side, literal) ==
  IF side = Absent THEN "Unknown"
  ELSE LET field == LowerField(side.field, side.value)
       IN  IF field = Unevaluable \/ LowerLiteral(literal) = Unevaluable THEN "Error"
           ELSE ApplyOp(op, field, LowerLiteral(literal))

CompareExprs(op, left, right, d, type, message) ==
  LET l == Classify(left, d, type, message)
      r == Classify(right, d, type, message)
      field(side) == side.is \in {"Present", "Absent"}
  IN  CASE field(l) /\ r = Literal -> EvalCompare(op, l, right)
        [] l = Literal /\ field(r) -> EvalCompare(Mirror[op], r, left)
        [] OTHER                   -> "Error"

\* The overload that the field's kind selects.
HasTest(field, value, arg) ==
  CASE field.card = "map"  -> Known(arg \in DOMAIN value)
    [] field.card = "list" -> Known(Contains(value, arg))
    [] field.card = "one" /\ field.kind = "String" ->
         Known(ContainsText(ToLower(value), ToLower(arg)))
    [] field.card = "one" /\ field.kind = "Message" /\ field.of = "Timestamp" -> "True"
    [] OTHER -> "Error"

HasExprs(left, right, d, type, message) ==
  LET side == Classify(left, d, type, message)
  IN  CASE ~IsString(right)    -> "Error"
        [] IsString(right) /\ side = Absent -> "False"
        [] IsString(right) /\ side.is = "Present" -> HasTest(side.field, side.value, right.value)
        [] OTHER               -> "Error"

RECURSIVE Eval(_, _, _, _)
Eval(e, d, type, message) ==
  LET arg(k) == e.args[k]
      two(f) == IsA(e, "Call") /\ e.function = <<f>> /\ Len(e.args) = 2
  IN  CASE two("AND") -> And3(Eval(arg(1), d, type, message), Eval(arg(2), d, type, message))
        [] two("OR")  -> Or3(Eval(arg(1), d, type, message), Eval(arg(2), d, type, message))
        [] IsA(e, "Call") /\ e.function = <<"NOT">> /\ Len(e.args) = 1 ->
             Not3(Eval(arg(1), d, type, message))
        [] \E op \in DOMAIN Mirror : two(op) ->
             CompareExprs(e.function[1], arg(1), arg(2), d, type, message)
        [] two(":")   -> HasExprs(arg(1), arg(2), d, type, message)
        [] OTHER      -> "Error"
=============================================================================
