----------------------------- MODULE FilterParse -----------------------------
(***************************************************************************)
(* The recursive-descent parser of aip-filtering (parser.rs): a token      *)
(* sequence becomes an `Expr`.  Each rule takes the tokens and the cursor  *)
(* and returns what it built with the cursor after it, or Fail.  Error     *)
(* positions and messages are left out.                                    *)
(*                                                                         *)
(* A double is counted in tenths: 2.5 is 25, and a fraction has one digit. *)
(***************************************************************************)
EXTENDS FilterLex

CONSTANT MaxInt64     \* i64::MAX
ASSUME MaxInt64IsNatural == MaxInt64 \in Nat

Const(ty, value)      == [kind |-> "Const", ty |-> ty, value |-> value]   \* a text
Numeral(ty, n)        == [kind |-> "Const", ty |-> ty, n |-> n]           \* a number
Ident(name)           == [kind |-> "Ident", name |-> name]
Select(operand, field) == [kind |-> "Select", operand |-> operand, field |-> field]
Call(function, args)  == [kind |-> "Call", function |-> function, args |-> args]

IsA(expr, kind) == expr.kind = kind
IsString(expr)  == IsA(expr, "Const") /\ expr.ty = <<"string">>
IsNumber(expr)  == IsA(expr, "Const") /\ expr.ty \in {<<"int">>, <<"double">>}

-----------------------------------------------------------------------------
(* The token cursor. *)

Fail        == [ok |-> FALSE]
Done(i, e)  == [ok |-> TRUE, pos |-> i, expr |-> e]
WS          == "Whitespace"

\* The `?` that ends a rule with its part's error, and `try_parse`, which goes
\* back to where the first of two rules began.
Then(parsed, Go(_))   == IF parsed.ok THEN Go(parsed) ELSE Fail
OrElse(first, second) == IF first.ok THEN first ELSE second

TypeAt(t, i)       == IF i \in DOMAIN t THEN t[i].ty ELSE "eof"
Sniff(t, i, types) == \A k \in DOMAIN types : TypeAt(t, i + k - 1) = types[k]
Eat(t, i, types)   == IF Sniff(t, i, types) THEN i + Len(types) ELSE i

\* `fold_left`: left-associate under `function`, a lone expression as it is.
FoldCalls(exprs, function) ==
  FoldLeft(LAMBDA acc, e : Call(function, <<acc, e>>), Head(exprs), Tail(exprs))

-----------------------------------------------------------------------------
(* Numbers and members. *)

DigitValue == [d \in Digits |-> CASE d = "0" -> 0 [] d = "1" -> 1 [] d = "2" -> 2 [] d = "3" -> 3]
InBase(digits, base) == FoldLeft(LAMBDA acc, d : acc * base + DigitValue[d], 0, digits)

\* float : MINUS? (NUMBER DOT NUMBER* | DOT NUMBER)
Float(t, i) ==
  LET sign == IF TypeAt(t, i) = "Minus" THEN -1 ELSE 1
      int  == Eat(t, i, <<"Minus">>)
      dot  == Eat(t, int, <<"Number">>)
      frac == dot + 1
      whole    == IF dot > int THEN InBase(t[int].value, 10) ELSE 0
      fraction == IF TypeAt(t, frac) = "Number" THEN InBase(t[frac].value, 10) ELSE 0
  IN  IF TypeAt(t, dot) # "Dot" \/ (dot = int /\ TypeAt(t, frac) # "Number") THEN Fail
      ELSE Done(Eat(t, frac, <<"Number">>),
                Numeral(<<"double">>, sign * (10 * whole + fraction)))

\* int : MINUS? (NUMBER | HEX); a magnitude above i64::MAX does not parse, so
\* neither does the literal of i64::MIN.
Int64(t, i) ==
  LET sign  == IF TypeAt(t, i) = "Minus" THEN -1 ELSE 1
      j     == Eat(t, i, <<"Minus">>)
      hex   == TypeAt(t, j) = "HexNumber"
      magnitude == IF hex THEN InBase(SubSeq(t[j].value, 3, Len(t[j].value)), 16)
                          ELSE InBase(t[j].value, 10)
  IN  IF TypeAt(t, j) \notin {"Number", "HexNumber"} THEN Fail
      ELSE IF (hex /\ Len(t[j].value) = 2) \/ magnitude > MaxInt64 THEN Fail
      ELSE Done(j + 1, Numeral(<<"int">>, sign * magnitude))

Number(t, i) == OrElse(Float(t, i), Int64(t, i))

RECURSIVE Fields(_, _, _)
Fields(t, i, expr) ==
  IF TypeAt(t, i) # "Dot" THEN Done(i, expr)
  ELSE IF TypeAt(t, i + 1) \notin FieldTypes \/ Unquote(t[i + 1]) = NoText THEN Fail
  ELSE Fields(t, i + 2, Select(expr, Unquote(t[i + 1])))

\* member : value {DOT field}; a bare string is a literal, but the base of a
\* dotted member is an identifier even when it is quoted.
Member(t, i) ==
  IF TypeAt(t, i) \notin ValueTypes \/ Unquote(t[i]) = NoText THEN Fail
  ELSE IF TypeAt(t, i + 1) = "Dot" THEN Fields(t, i + 1, Ident(Unquote(t[i])))
  ELSE IF t[i].ty = "String" THEN Done(i + 1, Const(<<"string">>, Unquote(t[i])))
  ELSE Done(i + 1, Ident(t[i].value))

-----------------------------------------------------------------------------
(* The grammar. *)

RECURSIVE Arg(_, _), Args(_, _, _), FunctionName(_, _, _), Expression(_, _, _)

\* name {DOT name}
FunctionName(t, i, prefix) ==
  IF TypeAt(t, i) \notin NameTypes THEN Fail
  ELSE LET name == prefix \o t[i].value
       IN  IF TypeAt(t, i + 1) = "Dot" THEN FunctionName(t, i + 2, Append(name, "."))
           ELSE Done(i + 1, name)

Close(t, i, args) ==
  IF TypeAt(t, i) = "RightParen" THEN [ok |-> TRUE, pos |-> i + 1, args |-> args] ELSE Fail

\* [arg {COMMA arg}] RPAREN, whitespace allowed around each
Args(t, i, args) ==
  IF TypeAt(t, i) = "RightParen" THEN Close(t, i, args)
  ELSE Then(Arg(t, i), LAMBDA arg :
         LET j == Eat(t, arg.pos, <<WS>>)
         IN  IF TypeAt(t, j) = "Comma"
               THEN Args(t, Eat(t, j + 1, <<WS>>), Append(args, arg.expr))
               ELSE Close(t, j, Append(args, arg.expr)))

Function(t, i) ==
  Then(FunctionName(t, i, <<>>), LAMBDA name :
    IF TypeAt(t, name.pos) # "LeftParen" THEN Fail
    ELSE Then(Args(t, Eat(t, name.pos + 1, <<WS>>), <<>>), LAMBDA args :
           Done(args.pos, Call(name.expr, args.args))))

\* comparable : function | number | member, each tried from the same cursor
Comparable(t, i) == OrElse(Function(t, i), OrElse(Number(t, i), Member(t, i)))

\* composite : LPAREN expression RPAREN
Composite(t, i) ==
  Then(Expression(t, Eat(t, i + 1, <<WS>>), <<>>), LAMBDA e :
    LET j == Eat(t, e.pos, <<WS>>)
    IN  IF TypeAt(t, j) = "RightParen" THEN Done(j + 1, e.expr) ELSE Fail)

\* arg : comparable | composite
Arg(t, i) == IF TypeAt(t, i) = "LeftParen" THEN Composite(t, i) ELSE Comparable(t, i)

\* Mutant: the right side of `:` stays an identifier.
Mut_HasArgument_KeepsIdent(comparator, arg) == arg

\* A bare identifier on the right of `:` is its string value.
HasArgument(comparator, arg) ==
  IF comparator = "Has" /\ IsA(arg, "Ident") THEN Const(<<"string">>, arg.name) ELSE arg

\* restriction : comparable [comparator arg]
Restriction(t, i) ==
  Then(Comparable(t, i), LAMBDA left :
    LET j == Eat(t, left.pos, <<WS>>)
    IN  IF TypeAt(t, j) \notin Comparators THEN left
        ELSE Then(Arg(t, Eat(t, j + 1, <<WS>>)), LAMBDA arg :
               Done(arg.pos, Call(<<ComparisonFunction[t[j].ty]>>,
                                  <<left.expr, HasArgument(t[j].ty, arg.expr)>>))))

Simple(t, i) == IF TypeAt(t, i) = "LeftParen" THEN Composite(t, i) ELSE Restriction(t, i)

\* term : [(NOT WS | MINUS)] simple; a minus before a lone number negates it.
Term(t, i) ==
  LET not   == Sniff(t, i, <<"Not", WS>>)
      minus == ~not /\ TypeAt(t, i) = "Minus"
  IN  Then(Simple(t, IF not THEN i + 2 ELSE IF minus THEN i + 1 ELSE i), LAMBDA simple :
        IF minus /\ IsNumber(simple.expr)
          THEN Done(simple.pos, Numeral(simple.expr.ty, -simple.expr.n))
        ELSE IF not \/ minus THEN Done(simple.pos, Call(<<"NOT">>, <<simple.expr>>))
        ELSE simple)

\* factor : term {WS OR WS term}
RECURSIVE Factor(_, _, _)
Factor(t, i, terms) ==
  Then(Term(t, i), LAMBDA term :
    IF Sniff(t, term.pos, <<WS, "Or", WS>>)
      THEN Factor(t, term.pos + 3, Append(terms, term.expr))
      ELSE Done(term.pos, FoldCalls(Append(terms, term.expr), <<"OR">>)))

\* A sequence goes on after whitespace, unless AND follows.
GoesOn(t, i) == TypeAt(t, i) = WS /\ TypeAt(t, i + 1) # "And"

\* sequence : factor {WS factor}
RECURSIVE Sequence(_, _, _)
Sequence(t, i, factors) ==
  Then(Factor(t, i, <<>>), LAMBDA factor :
    IF GoesOn(t, factor.pos)
      THEN Sequence(t, factor.pos + 1, Append(factors, factor.expr))
      ELSE Done(factor.pos, FoldCalls(Append(factors, factor.expr), <<"FUZZY">>)))

\* expression : sequence {WS AND WS sequence}
Expression(t, i, sequences) ==
  Then(Sequence(t, Eat(t, i, <<WS>>), <<>>), LAMBDA sequence :
    IF Sniff(t, sequence.pos, <<WS, "And", WS>>)
      THEN Expression(t, sequence.pos + 3, Append(sequences, sequence.expr))
      ELSE Done(sequence.pos, FoldCalls(Append(sequences, sequence.expr), <<"AND">>)))

\* `parse_filter`: trailing whitespace is dropped (the lexer leaves one token
\* of it at most), and every other token must be consumed.
ParseTokens(tokens) ==
  IF tokens = <<>> THEN Fail
  ELSE Then(Expression(tokens, 1, <<>>), LAMBDA e : IF e.pos = Len(tokens) + 1 THEN e ELSE Fail)

ParseLexed(lexed) ==
  IF LexFails(lexed) THEN Fail
  ELSE ParseTokens(IF lexed # <<>> /\ Last(lexed).ty = WS THEN Front(lexed) ELSE lexed)

ParseFilter(input) == ParseLexed(Tokenize(input))
=============================================================================
